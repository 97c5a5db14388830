---------------------------- MODULE CrewsProofs ----------------------------
(***************************************************************************)
(* Crews for every set of crews and riders and every value of its numbers: *)
(* the type invariant, that a rider is in one crew at a time, and then the *)
(* safety invariants of the runs from one inductive invariant, IInv.  Last, *)
(* Crews implements Membership: each step of the rows is one change of     *)
(* standing that Membership allows, or none.                               *)
(***************************************************************************)
EXTENDS Crews, FiniteSetTheorems, TLAPS

-----------------------------------------------------------------------------
(* What the row helpers return. *)

LEMMA LongAgoType == LongAgo \in Nat /\ 0 \in 0..LongAgo /\ 0 \in 0..IdleLeader
BY NumbersAssumption DEF LongAgo

LEMMA NoRowType == NoRow \in Row
BY LongAgoType DEF NoRow, Row, Roles

LEMMA EndedType ==
    ASSUME NEW row \in Row, NEW status \in Statuses \cup {"none"}
    PROVE  Ended(row, status) \in Row
<1>1. 0 \in 0..LongAgo
    BY LongAgoType
<1>. QED
    BY <1>1 DEF Ended, Row

LEMMA RevivedType ==
    ASSUME NEW row \in Row, NEW status \in Statuses
    PROVE  Revived(row, status) \in Row
<1>1. 0 \in 0..LongAgo
    BY LongAgoType
<1>. QED
    BY <1>1 DEF Revived, Row

LEMMA AgedType ==
    ASSUME NEW row \in Row
    PROVE  Aged(row) \in Row
<1> DEFINE aged == [row EXCEPT !.left = IF row.live \/ @ >= LongAgo THEN @ ELSE @ + 1,
                               !.seen = IF @ >= IdleLeader THEN @ ELSE @ + 1]
<1>1. row.left \in 0..LongAgo /\ row.seen \in 0..IdleLeader
    BY DEF Row
<1>2. aged.left \in 0..LongAgo /\ aged.seen \in 0..IdleLeader
    BY <1>1, LongAgoType, NumbersAssumption DEF Row
<1>. QED
    BY <1>2 DEF Row, Aged

LEMMA StatusesUsed ==
    {"active", "pending", "declined", "removed", "disbanded", "disbanded_seen"} \subseteq Statuses
BY DEF Statuses, Spent, Folded, Declined

LEMMA FoldType ==
    ASSUME TypeOK, NEW c \in CrewIds, NEW by, Fold(c, by)
    PROVE  /\ rows' \in [CrewIds -> [Riders -> Row]]
           /\ crew' \in [CrewIds -> {"none", "living", "folded"}]
           /\ took' \in [CrewIds -> [members: SUBSET Riders, waiting: SUBSET Riders]]
<1>1. \A r \in Riders : rows[c][r] \in Row
    BY DEF TypeOK
<1>2. \A r \in Riders : /\ Ended(rows[c][r], "disbanded") \in Row
                        /\ Ended(rows[c][r], "disbanded_seen") \in Row
    BY <1>1, EndedType, StatusesUsed
<1>3. [r \in Riders |->
          IF ~Live(c, r) THEN rows[c][r]
          ELSE Ended(rows[c][r], IF r \in by THEN "disbanded_seen" ELSE "disbanded")]
        \in [Riders -> Row]
    BY <1>1, <1>2
<1>4. [members |-> ActiveIn(c), waiting |-> LiveIn(c) \ ActiveIn(c)]
        \in [members: SUBSET Riders, waiting: SUBSET Riders]
    BY DEF ActiveIn, LiveIn
<1>5. took' \in [CrewIds -> [members: SUBSET Riders, waiting: SUBSET Riders]]
    BY <1>4 DEF Fold, TypeOK
<1>. QED
    BY <1>3, <1>5 DEF Fold, TypeOK

LEMMA InitType == Init => TypeOK
BY NoRowType DEF Init, TypeOK, Nobody

LEMMA OneRowType ==
    ASSUME TypeOK, NEW c \in CrewIds, NEW r \in Riders, NEW row \in Row,
           rows' = [rows EXCEPT ![c][r] = row]
    PROVE  rows' \in [CrewIds -> [Riders -> Row]]
BY DEF TypeOK

LEMMA CreateType ==
    ASSUME TypeOK, NEW c \in CrewIds, NEW r \in Riders, Create(r, c)
    PROVE  TypeOK'
<1>1. [NoRow EXCEPT !.role = "leader", !.status = "active", !.live = TRUE] \in Row
    BY NoRowType, StatusesUsed DEF Row, Roles
<1>2. rows' \in [CrewIds -> [Riders -> Row]]
    BY <1>1, OneRowType DEF Create
<1>. QED
    BY <1>2 DEF TypeOK, Create, past

LEMMA JoinType ==
    ASSUME TypeOK, NEW c \in CrewIds, NEW r \in Riders, Join(r, c)
    PROVE  TypeOK'
<1> DEFINE mine == [role |-> Rejoin(rows[c][r]), live |-> TRUE, left |-> 0, seen |-> 0,
                    status |-> IF c \in asks THEN "pending" ELSE "active",
                    elders |-> {e \in Riders \ {r} : rows[c][e].status # "none"}]
           theirs(o) == [rows[c][o] EXCEPT !.elders = @ \ {r}]
<1>1. mine \in Row
  <2>1. 0 \in 0..LongAgo /\ 0 \in 0..IdleLeader
    BY LongAgoType
  <2>. QED
    BY <2>1, StatusesUsed DEF Row, Roles, Rejoin
<1>2. ASSUME NEW o \in Riders
      PROVE  theirs(o) \in Row
  <2>1. rows[c][o] \in Row
    BY DEF TypeOK
  <2>. QED
    BY <2>1 DEF Row
<1>3. rows' = [rows EXCEPT ![c] = [o \in Riders |-> IF o = r THEN mine ELSE theirs(o)]]
    BY DEF Join
<1> HIDE DEF mine, theirs
<1>4. [o \in Riders |-> IF o = r THEN mine ELSE theirs(o)] \in [Riders -> Row]
    BY <1>1, <1>2
<1>5. rows' \in [CrewIds -> [Riders -> Row]]
    BY <1>3, <1>4 DEF TypeOK
<1>. QED
    BY <1>5 DEF TypeOK, Join, past

LEMMA LeaveType ==
    ASSUME TypeOK, NEW c \in CrewIds, NEW r \in Riders, Leave(r, c)
    PROVE  TypeOK'
<1>1. CASE LastOut(c, r)
    BY <1>1, FoldType DEF TypeOK, Leave, past
<1>2. CASE ~LastOut(c, r)
  <2>1. rows[c][r] \in Row /\ rows[c][r].status \in Statuses \cup {"none"}
    BY DEF TypeOK, Row
  <2>2. Ended(rows[c][r], rows[c][r].status) \in Row
    BY <2>1, EndedType
  <2>3. rows' = [rows EXCEPT ![c][r] = Ended(rows[c][r], rows[c][r].status)]
    BY <1>2 DEF Leave, TypeOK
  <2>4. rows' \in [CrewIds -> [Riders -> Row]]
    BY <2>2, <2>3, OneRowType
  <2>. QED
    BY <1>2, <2>4 DEF TypeOK, Leave, past
<1>. QED
    BY <1>1, <1>2

LEMMA RosterType ==
    ASSUME TypeOK, NEW c \in CrewIds, NEW a \in Riders, NEW r \in Riders,
           \/ Accept(a, c, r) \/ Decline(a, c, r) \/ Remove(a, c, r)
    PROVE  TypeOK'
<1>1. rows[c][r] \in Row
    BY DEF TypeOK
<1>2. /\ Revived(rows[c][r], "active") \in Row
      /\ Ended(rows[c][r], "declined") \in Row
      /\ Ended(rows[c][r], "removed") \in Row
    BY <1>1, RevivedType, EndedType, StatusesUsed
<1>3. \E row \in Row : rows' = [rows EXCEPT ![c][r] = row]
    BY <1>2 DEF Accept, Decline, Remove, TypeOK
<1>4. rows' \in [CrewIds -> [Riders -> Row]]
    BY <1>3, OneRowType
<1>. QED
    BY <1>4 DEF TypeOK, Accept, Decline, Remove, past

LEMMA SetRoleType ==
    ASSUME TypeOK, NEW c \in CrewIds, NEW a \in Riders, NEW r \in Riders,
           NEW role \in Roles, SetRole(a, c, r, role)
    PROVE  TypeOK'
<1> DEFINE ranked == [rows[c] EXCEPT
            ![a].role = HandOver(rows[c][a], role), ![r].role = role]
<1>1. \A o \in Riders : rows[c][o] \in Row
    BY DEF TypeOK
<1>2. ranked \in [Riders -> Row]
  <2>1. ASSUME NEW o \in Riders, NEW new \in Roles
        PROVE  [rows[c][o] EXCEPT !.role = new] \in Row
    BY <1>1 DEF Row
  <2>2. rows[c][a].role \in Roles
    BY <1>1 DEF Row
  <2> DEFINE stood == [rows[c] EXCEPT ![a].role = HandOver(rows[c][a], role)]
  <2>3. stood \in [Riders -> Row]
    BY <2>1, <2>2 DEF TypeOK, Roles, HandOver
  <2>4. [stood[r] EXCEPT !.role = role] \in Row
    BY <2>3 DEF Row
  <2>. QED
    BY <2>3, <2>4
<1>3. rows' = [rows EXCEPT ![c] = ranked]
    BY DEF SetRole, TypeOK
<1>4. rows' \in [CrewIds -> [Riders -> Row]]
    BY <1>2, <1>3 DEF TypeOK
<1>. QED
    BY <1>4 DEF TypeOK, SetRole, past

LEMMA ClaimType ==
    ASSUME TypeOK, NEW c \in CrewIds, NEW r \in Riders, Claim(r, c)
    PROVE  TypeOK'
<1>1. PICK leader \in SittingLeader(c) :
          rows' = [rows EXCEPT ![c] = [o \in Riders |->
                CASE o = r -> [rows[c][o] EXCEPT !.role = "leader"]
                  [] o # r /\ o \in leader -> [rows[c][o] EXCEPT !.role = "member"]
                  [] OTHER -> rows[c][o]]]
    BY DEF Claim
<1>2. ASSUME NEW o \in Riders
      PROVE  /\ rows[c][o] \in Row
             /\ [rows[c][o] EXCEPT !.role = "leader"] \in Row
             /\ [rows[c][o] EXCEPT !.role = "member"] \in Row
  <2>1. rows[c][o] \in Row
    BY DEF TypeOK
  <2>. QED
    BY <2>1 DEF Row, Roles
<1>3. [o \in Riders |->
                CASE o = r -> [rows[c][o] EXCEPT !.role = "leader"]
                  [] o # r /\ o \in leader -> [rows[c][o] EXCEPT !.role = "member"]
                  [] OTHER -> rows[c][o]] \in [Riders -> Row]
    BY <1>2
<1>4. rows' \in [CrewIds -> [Riders -> Row]]
    BY <1>1, <1>3 DEF TypeOK
<1>. QED
    BY <1>4 DEF TypeOK, Claim, past

LEMMA RestoreType ==
    ASSUME TypeOK, NEW c \in CrewIds, Restore(c)
    PROVE  TypeOK'
<1> DEFINE back == [r \in Riders |->
               IF r \in Coming(c) THEN Revived(rows[c][r], "active") ELSE rows[c][r]]
           led == \E r \in Riders : back[r].live /\ back[r].role = "leader"
           there == {r \in Riders : back[r].live /\ back[r].status = "active"}
<1>1. ASSUME NEW r \in Riders
      PROVE  back[r] \in Row
  <2>1. rows[c][r] \in Row
    BY DEF TypeOK
  <2>2. Revived(rows[c][r], "active") \in Row
    BY <2>1, RevivedType, StatusesUsed
  <2>. QED
    BY <2>1, <2>2
<1>2. rows' = [rows EXCEPT ![c] = [r \in Riders |->
               IF ~led /\ Senior(c, there, r)
               THEN [back[r] EXCEPT !.role = "leader"] ELSE back[r]]]
    BY DEF Restore
<1> HIDE DEF back, led, there
<1>3. ASSUME NEW r \in Riders
      PROVE  [back[r] EXCEPT !.role = "leader"] \in Row
    BY <1>1 DEF Row, Roles
<1>4. rows' \in [CrewIds -> [Riders -> Row]]
    BY <1>1, <1>2, <1>3 DEF TypeOK
<1>5. /\ crew' = [crew EXCEPT ![c] = "living"]
      /\ restored' = [restored EXCEPT ![c] = @ + 1]
      /\ took' = [took EXCEPT ![c] = Nobody]
      /\ UNCHANGED asks
    BY DEF Restore
<1>6. /\ restored' \in [CrewIds -> Nat]
      /\ took' \in [CrewIds -> [members: SUBSET Riders, waiting: SUBSET Riders]]
    BY <1>5 DEF TypeOK, Nobody
<1>. QED
    BY <1>4, <1>5, <1>6 DEF TypeOK

LEMMA SweepType ==
    ASSUME TypeOK, Sweep
    PROVE  TypeOK'
<1> DEFINE gone(c) == {r \in Riders :
               rows[c][r].status \in Spent /\ rows[c][r].left > SpentAfter}
<1>1. ASSUME NEW c \in CrewIds, NEW r \in Riders
      PROVE  [rows[c][r] EXCEPT !.elders = @ \ gone(c)] \in Row
  <2>1. rows[c][r] \in Row
    BY DEF TypeOK
  <2>2. rows[c][r].elders \ gone(c) \in SUBSET Riders
    BY <2>1 DEF Row
  <2>. HIDE DEF gone
  <2>. QED
    BY <2>1, <2>2 DEF Row
<1>2. rows' = [c \in CrewIds |-> [r \in Riders |->
               IF r \in gone(c) THEN NoRow
               ELSE [rows[c][r] EXCEPT !.elders = @ \ gone(c)]]]
    BY DEF Sweep
<1> HIDE DEF gone
<1>3. rows' \in [CrewIds -> [Riders -> Row]]
    BY <1>1, <1>2, NoRowType
<1>. QED
    BY <1>3 DEF TypeOK, Sweep, past

LEMMA TickType ==
    ASSUME TypeOK, Tick
    PROVE  TypeOK'
<1>1. ASSUME NEW c \in CrewIds, NEW r \in Riders
      PROVE  Aged(rows[c][r]) \in Row
    BY AgedType DEF TypeOK
<1>2. rows' \in [CrewIds -> [Riders -> Row]]
    BY <1>1 DEF Tick
<1>. QED
    BY <1>2 DEF TypeOK, Tick, past

LEMMA TouchType ==
    ASSUME TypeOK, NEW c \in CrewIds, NEW r \in Riders, Touch(r, c)
    PROVE  TypeOK'
<1>1. [rows[c][r] EXCEPT !.seen = 0] \in Row
  <2>1. rows[c][r] \in Row /\ 0 \in 0..IdleLeader
    BY NumbersAssumption DEF TypeOK
  <2>. QED
    BY <2>1 DEF Row
<1>2. rows' = [rows EXCEPT ![c][r] = [rows[c][r] EXCEPT !.seen = 0]]
    BY DEF Touch, TypeOK
<1>3. rows' \in [CrewIds -> [Riders -> Row]]
    BY <1>1, <1>2, OneRowType
<1>. QED
    BY <1>3 DEF TypeOK, Touch, past

LEMMA NoticeSeenType ==
    ASSUME TypeOK, NEW c \in CrewIds, NEW r \in Riders, NEW kind \in DOMAIN Seen,
           NoticeSeen(r, c, kind)
    PROVE  TypeOK'
<1>1. [rows[c][r] EXCEPT !.status = Seen[kind]] \in Row
  <2>1. rows[c][r] \in Row
    BY DEF TypeOK
  <2>2. Seen[kind] \in Statuses
    BY DEF Seen, Statuses, Spent, Folded, Declined
  <2>. QED
    BY <2>1, <2>2 DEF Row
<1>2. rows' = [rows EXCEPT ![c][r] = [rows[c][r] EXCEPT !.status = Seen[kind]]]
    BY DEF NoticeSeen, TypeOK
<1>3. rows' \in [CrewIds -> [Riders -> Row]]
    BY <1>1, <1>2, OneRowType
<1>. QED
    BY <1>3 DEF TypeOK, NoticeSeen, past

LEMMA NextType == TypeOK /\ [Next]_vars => TypeOK'
<1>. SUFFICES ASSUME TypeOK, [Next]_vars
              PROVE  TypeOK'
    OBVIOUS
<1>1. CASE UNCHANGED vars
    BY <1>1 DEF TypeOK, vars, past
<1>2. CASE \E c \in CrewIds, r \in Riders : RiderStep(r, c)
  <2>. PICK c \in CrewIds, r \in Riders : RiderStep(r, c)
    BY <1>2
  <2>1. CASE Disband(r, c)
    BY <2>1, FoldType DEF TypeOK, Disband
  <2>2. CASE EditPolicy(r, c)
    BY <2>2 DEF TypeOK, EditPolicy, past
  <2>. QED
    BY <2>1, <2>2, CreateType, JoinType, LeaveType, ClaimType, TouchType, NoticeSeenType
       DEF RiderStep
<1>3. CASE \E c \in CrewIds, a, r \in Riders : RosterStep(a, c, r)
    BY <1>3, RosterType, SetRoleType DEF RosterStep
<1>4. ASSUME NEW c \in CrewIds, AdminDisband(c)
      PROVE  TypeOK'
    BY <1>4, FoldType DEF TypeOK, AdminDisband
<1>. QED
    BY <1>1, <1>2, <1>3, <1>4, RestoreType, SweepType, TickType DEF Next

\* Every reachable state of the membership tables is well-typed.
THEOREM TypeCorrect == Spec => []TypeOK
BY InitType, NextType, PTL DEF Spec

-----------------------------------------------------------------------------
(* One crew per rider.  Whatever a step does, it makes rows of one crew live *)
(* at most, and only rows of riders who have no crew.                        *)

OnlyTheFreeEnter(d) ==
    \A c \in CrewIds, r \in Riders :
        Live(c, r)' => Live(c, r) \/ (c = d /\ ~HasCrew(r))

LEMMA OneCrewKept ==
    ASSUME OneCrewPerRider, NEW d \in CrewIds, OnlyTheFreeEnter(d)
    PROVE  OneCrewPerRider'
BY DEF OneCrewPerRider, OnlyTheFreeEnter, HasCrew

LEMMA EndedLive ==
    ASSUME NEW row \in Row, NEW status
    PROVE  Ended(row, status).live = FALSE
BY DEF Ended, Row

LEMMA FoldEnters ==
    ASSUME TypeOK, NEW c \in CrewIds, NEW by, Fold(c, by)
    PROVE  OnlyTheFreeEnter(c)
<1>1. \A r \in Riders : rows[c][r] \in Row
    BY DEF TypeOK
<1>2. ASSUME NEW d \in CrewIds, NEW r \in Riders
      PROVE  Live(d, r)' => Live(d, r)
  <2>1. CASE d = c
    BY <1>1, <2>1, EndedLive DEF Fold, Live, TypeOK
  <2>2. CASE d # c
    BY <2>2 DEF Fold, Live, TypeOK
  <2>. QED
    BY <2>1, <2>2
<1>. QED
    BY <1>2 DEF OnlyTheFreeEnter

\* A step that rewrites one row by Ended, or a row of a rider without a crew.
LEMMA RowEnters ==
    ASSUME TypeOK, NEW c \in CrewIds, NEW r \in Riders, NEW row,
           rows' = [rows EXCEPT ![c][r] = row],
           row.live => Live(c, r) \/ ~HasCrew(r)
    PROVE  OnlyTheFreeEnter(c)
BY DEF TypeOK, OnlyTheFreeEnter, Live

LEMMA RiderStepEnters ==
    ASSUME TypeOK, NEW c \in CrewIds, NEW r \in Riders, RiderStep(r, c)
    PROVE  OnlyTheFreeEnter(c)
<1>0. rows[c][r] \in Row
    BY DEF TypeOK
<1>1. CASE Create(r, c)
    BY <1>1, RowEnters DEF Create
<1>2. CASE Join(r, c)
  <2>1. ASSUME NEW d \in CrewIds, NEW o \in Riders, d # c \/ o # r
        PROVE  Live(d, o)' = Live(d, o)
    <3>1. rows[d][o] \in Row
      BY DEF TypeOK
    <3>. QED
      BY <1>2, <2>1, <3>1 DEF Join, Live, TypeOK, Row
  <2>. QED
    BY <1>2, <2>1 DEF OnlyTheFreeEnter, Join
<1>3. CASE Leave(r, c)
  <2>1. CASE LastOut(c, r)
    BY <1>3, <2>1, FoldEnters DEF Leave
  <2>2. CASE ~LastOut(c, r)
    <3>1. rows' = [rows EXCEPT ![c][r] = Ended(rows[c][r], rows[c][r].status)]
      BY <1>3, <2>2 DEF Leave, TypeOK
    <3>. QED
      BY <3>1, <1>0, EndedLive, RowEnters
  <2>. QED
    BY <2>1, <2>2
<1>4. CASE Claim(r, c)
  <2>1. ASSUME NEW d \in CrewIds, NEW o \in Riders
        PROVE  Live(d, o)' = Live(d, o)
    <3>1. rows[d][o] \in Row
      BY DEF TypeOK
    <3>. QED
      BY <1>4, <3>1 DEF Claim, Live, TypeOK, Row
  <2>. QED
    BY <2>1 DEF OnlyTheFreeEnter
<1>5. CASE Disband(r, c)
    BY <1>5, FoldEnters DEF Disband
<1>6. CASE EditPolicy(r, c)
    BY <1>6 DEF EditPolicy, OnlyTheFreeEnter, Live
<1>7. CASE Touch(r, c)
  <2>1. rows' = [rows EXCEPT ![c][r] = [rows[c][r] EXCEPT !.seen = 0]]
    BY <1>7 DEF Touch, TypeOK
  <2>. QED
    BY <2>1, <1>0, RowEnters DEF Live, Row
<1>8. ASSUME NEW kind \in DOMAIN Seen, NoticeSeen(r, c, kind)
      PROVE  OnlyTheFreeEnter(c)
  <2>1. rows' = [rows EXCEPT ![c][r] = [rows[c][r] EXCEPT !.status = Seen[kind]]]
    BY <1>8 DEF NoticeSeen, TypeOK
  <2>. QED
    BY <2>1, <1>0, RowEnters DEF Live, Row
<1>. QED
    BY <1>1, <1>2, <1>3, <1>4, <1>5, <1>6, <1>7, <1>8 DEF RiderStep

LEMMA RosterStepEnters ==
    ASSUME TypeOK, NEW c \in CrewIds, NEW a \in Riders, NEW r \in Riders, RosterStep(a, c, r)
    PROVE  OnlyTheFreeEnter(c)
<1>0. rows[c][r] \in Row
    BY DEF TypeOK
<1>1. CASE Accept(a, c, r)
  <2>1. rows' = [rows EXCEPT ![c][r] = Revived(rows[c][r], "active")]
    BY <1>1 DEF Accept, TypeOK
  <2>2. Live(c, r) \/ ~HasCrew(r)
    BY <1>1 DEF Accept, Reconsider
  <2>. QED
    BY <2>1, <2>2, RowEnters
<1>2. CASE Decline(a, c, r) \/ Remove(a, c, r)
  <2>1. \E status : rows' = [rows EXCEPT ![c][r] = Ended(rows[c][r], status)]
    BY <1>2 DEF Decline, Remove, TypeOK
  <2>. QED
    BY <2>1, <1>0, EndedLive, RowEnters
<1>3. ASSUME NEW role \in Roles, SetRole(a, c, r, role)
      PROVE  OnlyTheFreeEnter(c)
  <2>1. ASSUME NEW d \in CrewIds, NEW o \in Riders
        PROVE  Live(d, o)' = Live(d, o)
    <3>1. rows[d][o] \in Row /\ rows[c][a] \in Row
      BY DEF TypeOK
    <3>. QED
      BY <1>0, <1>3, <3>1 DEF SetRole, Live, TypeOK, Row
  <2>. QED
    BY <2>1 DEF OnlyTheFreeEnter
<1>. QED
    BY <1>1, <1>2, <1>3 DEF RosterStep

LEMMA RestoreEnters ==
    ASSUME TypeOK, NEW c \in CrewIds, Restore(c)
    PROVE  OnlyTheFreeEnter(c)
<1> DEFINE back == [r \in Riders |->
               IF r \in Coming(c) THEN Revived(rows[c][r], "active") ELSE rows[c][r]]
           led == \E r \in Riders : back[r].live /\ back[r].role = "leader"
           there == {r \in Riders : back[r].live /\ back[r].status = "active"}
<1>1. rows' = [rows EXCEPT ![c] = [r \in Riders |->
               IF ~led /\ Senior(c, there, r)
               THEN [back[r] EXCEPT !.role = "leader"] ELSE back[r]]]
    BY DEF Restore
<1>2. ASSUME NEW r \in Riders, back[r].live
      PROVE  Live(c, r) \/ ~HasCrew(r)
    BY <1>2 DEF Coming, Live
<1>3. ASSUME NEW r \in Riders
      PROVE  back[r] \in Row
  <2>1. rows[c][r] \in Row
    BY DEF TypeOK
  <2>2. Revived(rows[c][r], "active") \in Row
    BY <2>1, RevivedType, StatusesUsed
  <2>. QED
    BY <2>1, <2>2
<1> HIDE DEF back, led, there
<1>4. ASSUME NEW r \in Riders, Live(c, r)'
      PROVE  back[r].live
  <2>1. [back[r] EXCEPT !.role = "leader"].live = back[r].live
    BY <1>3 DEF Row
  <2>. QED
    BY <1>1, <1>4, <2>1 DEF Live, TypeOK
<1>5. ASSUME NEW d \in CrewIds, NEW r \in Riders, d # c
      PROVE  Live(d, r)' = Live(d, r)
    BY <1>1, <1>5 DEF Live, TypeOK
<1>. QED
    BY <1>2, <1>4, <1>5 DEF OnlyTheFreeEnter

LEMMA SweepKeepsTheLiving ==
    ASSUME TypeOK, Sweep, NEW c \in CrewIds, NEW r \in Riders
    PROVE  Live(c, r)' => Live(c, r)
<1>1. rows[c][r] \in Row
    BY DEF TypeOK
<1>. QED
    BY <1>1 DEF Sweep, Live, NoRow, Row

LEMMA TickKeepsTheLiving ==
    ASSUME TypeOK, Tick, NEW c \in CrewIds, NEW r \in Riders
    PROVE  Live(c, r)' = Live(c, r)
<1>1. rows[c][r] \in Row
    BY DEF TypeOK
<1>2. Aged(rows[c][r]).live = rows[c][r].live
    BY <1>1 DEF Aged, Row
<1>. QED
    BY <1>2 DEF Tick, Live

LEMMA OneCrewStep == TypeOK /\ OneCrewPerRider /\ [Next]_vars => OneCrewPerRider'
<1>. SUFFICES ASSUME TypeOK, OneCrewPerRider, [Next]_vars
              PROVE  OneCrewPerRider'
    OBVIOUS
<1>1. CASE UNCHANGED vars
    BY <1>1 DEF OneCrewPerRider, Live, vars
<1>2. CASE \E c \in CrewIds, r \in Riders : RiderStep(r, c)
    BY <1>2, RiderStepEnters, OneCrewKept
<1>3. CASE \E c \in CrewIds, a, r \in Riders : RosterStep(a, c, r)
    BY <1>3, RosterStepEnters, OneCrewKept
<1>4. ASSUME NEW c \in CrewIds, AdminDisband(c)
      PROVE  OneCrewPerRider'
    BY <1>4, FoldEnters, OneCrewKept DEF AdminDisband
<1>5. ASSUME NEW c \in CrewIds, Restore(c)
      PROVE  OneCrewPerRider'
    BY <1>5, RestoreEnters, OneCrewKept
<1>6. CASE Sweep
    BY <1>6, SweepKeepsTheLiving DEF OneCrewPerRider
<1>7. CASE Tick
    BY <1>7, TickKeepsTheLiving DEF OneCrewPerRider
<1>. QED
    BY <1>1, <1>2, <1>3, <1>4, <1>5, <1>6, <1>7 DEF Next

\* A rider is never in two crews, whatever sequence of requests, answers,
\* folds, restores and sweeps the crews go through.
THEOREM OneCrewCorrect == Spec => []OneCrewPerRider
<1>1. Init => OneCrewPerRider
    BY DEF Init, OneCrewPerRider, Live, NoRow
<1>. QED
    BY <1>1, OneCrewStep, TypeCorrect, PTL DEF Spec

-----------------------------------------------------------------------------
(* What each action does to the rows, field by field. *)

\* A row as far as anybody but the clock can tell: all of it but left and seen.
Same(d, o) ==
    /\ rows'[d][o].live = rows[d][o].live /\ rows'[d][o].status = rows[d][o].status
    /\ rows'[d][o].role = rows[d][o].role /\ rows'[d][o].elders = rows[d][o].elders
Known(c) == {r \in Riders : rows[c][r].status # "none"}
AllSame == \A d \in CrewIds, o \in Riders : Same(d, o)
Stays == crew' = crew /\ restored' = restored /\ took' = took
CrewBecomes(c, v) == \A d \in CrewIds : crew'[d] = IF d = c THEN v ELSE crew[d]
OnlyRow(c, r) == \A d \in CrewIds, o \in Riders : d # c \/ o # r => rows'[d][o] = rows[d][o]
OnlyCrew(c) == \A d \in CrewIds \ {c}, o \in Riders : rows'[d][o] = rows[d][o]

LEMMA OneRow ==
    ASSUME TypeOK, NEW c \in CrewIds, NEW r \in Riders, NEW row,
           rows' = [rows EXCEPT ![c][r] = row]
    PROVE  rows'[c][r] = row /\ OnlyRow(c, r)
BY DEF TypeOK, OnlyRow

LEMMA CreateEffect ==
    ASSUME TypeOK, NEW c \in CrewIds, NEW r \in Riders, Create(r, c)
    PROVE  /\ crew[c] = "none" /\ ~HasCrew(r) /\ ~Cooling(r)
           /\ CrewBecomes(c, "living") /\ restored' = restored /\ took' = took
           /\ OnlyRow(c, r)
           /\ rows'[c][r].role = "leader" /\ rows'[c][r].status = "active"
           /\ rows'[c][r].live /\ rows'[c][r].elders = {}
<1>1. rows'[c][r] = [NoRow EXCEPT !.role = "leader", !.status = "active", !.live = TRUE]
      /\ OnlyRow(c, r)
    BY OneRow DEF Create
<1>2. crew[c] = "none" /\ ~HasCrew(r) /\ ~Cooling(r)
    BY DEF Create
<1>3. CrewBecomes(c, "living") /\ restored' = restored /\ took' = took
    BY DEF Create, past, CrewBecomes, TypeOK
<1>. QED
    BY <1>1, <1>2, <1>3 DEF NoRow

LEMMA JoinEffect ==
    ASSUME TypeOK, NEW c \in CrewIds, NEW r \in Riders, Join(r, c)
    PROVE  /\ crew[c] = "living" /\ ~Full(c) /\ ~HasCrew(r) /\ ~Cooling(r)
           /\ Stays /\ OnlyCrew(c)
           /\ rows'[c][r].role = "member" /\ rows'[c][r].live
           /\ rows'[c][r].status = IF c \in asks THEN "pending" ELSE "active"
           /\ rows'[c][r].elders = Known(c) \ {r}
           /\ \A o \in Riders \ {r} :
                 /\ rows'[c][o].live = rows[c][o].live
                 /\ rows'[c][o].status = rows[c][o].status
                 /\ rows'[c][o].role = rows[c][o].role
                 /\ rows'[c][o].seen = rows[c][o].seen
                 /\ rows'[c][o].elders = rows[c][o].elders \ {r}
<1>1. /\ OnlyCrew(c)
      /\ rows'[c][r] = [role |-> Rejoin(rows[c][r]), live |-> TRUE, left |-> 0, seen |-> 0,
                        status |-> IF c \in asks THEN "pending" ELSE "active",
                        elders |-> {e \in Riders \ {r} : rows[c][e].status # "none"}]
      /\ \A o \in Riders \ {r} : rows'[c][o] = [rows[c][o] EXCEPT !.elders = @ \ {r}]
    BY DEF Join, TypeOK, OnlyCrew
<1>2. {e \in Riders \ {r} : rows[c][e].status # "none"} = Known(c) \ {r}
    BY DEF Known
<1>3. ASSUME NEW o \in Riders \ {r}
      PROVE  /\ rows'[c][o].live = rows[c][o].live
             /\ rows'[c][o].status = rows[c][o].status
             /\ rows'[c][o].role = rows[c][o].role
             /\ rows'[c][o].seen = rows[c][o].seen
             /\ rows'[c][o].elders = rows[c][o].elders \ {r}
  <2>1. rows[c][o] \in Row
    BY DEF TypeOK
  <2>. QED
    BY <1>1, <2>1 DEF Row
<1>4. crew[c] = "living" /\ ~Full(c) /\ ~HasCrew(r) /\ ~Cooling(r) /\ Stays
    BY DEF Join, Stays, past
<1>. QED
    BY <1>1, <1>2, <1>3, <1>4 DEF Rejoin

LEMMA LeaveEffect ==
    ASSUME TypeOK, NEW c \in CrewIds, NEW r \in Riders, Leave(r, c), ~LastOut(c, r)
    PROVE  /\ Live(c, r) /\ Stays /\ OnlyRow(c, r) /\ ~rows'[c][r].live
           /\ rows'[c][r].status = rows[c][r].status
           /\ rows'[c][r].role = rows[c][r].role /\ rows'[c][r].elders = rows[c][r].elders
<1>1. rows' = [rows EXCEPT ![c][r] = Ended(rows[c][r], rows[c][r].status)]
    BY DEF Leave, TypeOK
<1>2. rows'[c][r] = Ended(rows[c][r], rows[c][r].status) /\ OnlyRow(c, r)
    BY <1>1, OneRow
<1>3. rows[c][r] \in Row
    BY DEF TypeOK
<1>4. Live(c, r) /\ Stays
    BY DEF Leave, Stays, past
<1>. QED
    BY <1>2, <1>3, <1>4 DEF Ended, Row

LEMMA AcceptEffect ==
    ASSUME TypeOK, NEW c \in CrewIds, NEW a \in Riders, NEW r \in Riders, Accept(a, c, r)
    PROVE  /\ Powered(c, a) /\ ~Full(c) /\ Stays
           /\ (Live(c, r) /\ rows[c][r].status = "pending") \/ Reconsider(c, r)
           /\ OnlyRow(c, r) /\ rows'[c][r].live /\ rows'[c][r].status = "active"
           /\ rows'[c][r].role = rows[c][r].role /\ rows'[c][r].elders = rows[c][r].elders
<1>1. rows' = [rows EXCEPT ![c][r] = Revived(rows[c][r], "active")]
    BY DEF Accept, TypeOK
<1>2. rows'[c][r] = Revived(rows[c][r], "active") /\ OnlyRow(c, r)
    BY <1>1, OneRow
<1>3. rows[c][r] \in Row
    BY DEF TypeOK
<1>4. /\ Powered(c, a) /\ ~Full(c) /\ Stays
      /\ (Live(c, r) /\ rows[c][r].status = "pending") \/ Reconsider(c, r)
    BY DEF Accept, Stays, past
<1>. QED
    BY <1>2, <1>3, <1>4 DEF Revived, Row

LEMMA TurnedAwayEffect ==
    ASSUME TypeOK, NEW c \in CrewIds, NEW a \in Riders, NEW r \in Riders,
           Decline(a, c, r) \/ Remove(a, c, r)
    PROVE  /\ Powered(c, a) /\ Live(c, r) /\ r # a /\ Stays
           /\ Active(c, r) => rows[c][r].role # "leader"
           /\ Active(c, r) \/ rows[c][r].status = "pending"
           /\ OnlyRow(c, r) /\ ~rows'[c][r].live
           /\ rows'[c][r].status = IF Active(c, r) THEN "removed" ELSE "declined"
           /\ rows'[c][r].role = rows[c][r].role /\ rows'[c][r].elders = rows[c][r].elders
<1> DEFINE status == IF Active(c, r) THEN "removed" ELSE "declined"
<1>1. rows' = [rows EXCEPT ![c][r] = Ended(rows[c][r], status)]
    BY DEF Decline, Remove, TypeOK, Active
<1>2. rows'[c][r] = Ended(rows[c][r], status) /\ OnlyRow(c, r)
    BY <1>1, OneRow
<1>3. rows[c][r] \in Row
    BY DEF TypeOK
<1>4. /\ Powered(c, a) /\ Live(c, r) /\ r # a /\ Stays
      /\ Active(c, r) => rows[c][r].role # "leader"
      /\ Active(c, r) \/ rows[c][r].status = "pending"
    BY DEF Decline, Remove, Powered, Active, Stays, past
<1>. QED
    BY <1>2, <1>3, <1>4 DEF Ended, Row

LEMMA SetRoleEffect ==
    ASSUME TypeOK, NEW c \in CrewIds, NEW a \in Riders, NEW r \in Riders, NEW role \in Roles,
           SetRole(a, c, r, role)
    PROVE  /\ Powered(c, a) /\ Active(c, r) /\ MayRank(a, c, r, role) /\ Stays
           /\ \A d \in CrewIds, o \in Riders :
                 /\ rows'[d][o].live = rows[d][o].live
                 /\ rows'[d][o].status = rows[d][o].status
                 /\ rows'[d][o].elders = rows[d][o].elders
                 /\ rows'[d][o].role = IF d = c /\ o = r THEN role
                                       ELSE IF d = c /\ o = a THEN HandOver(rows[c][a], role)
                                       ELSE rows[d][o].role
<1> DEFINE stood == [rows EXCEPT ![c][a].role = HandOver(rows[c][a], role)]
<1>1. rows' = [stood EXCEPT ![c][r].role = role]
    BY DEF SetRole, TypeOK
<1>2. \A d \in CrewIds, o \in Riders : rows[d][o] \in Row
    BY DEF TypeOK
<1>3. /\ stood \in [CrewIds -> [Riders -> Row]]
      /\ \A d \in CrewIds, o \in Riders :
            stood[d][o] = IF d = c /\ o = a
                          THEN [rows[c][a] EXCEPT !.role = HandOver(rows[c][a], role)]
                          ELSE rows[d][o]
  <2> DEFINE mine == [rows[c][a] EXCEPT !.role = HandOver(rows[c][a], role)]
  <2>1. rows[c][a] \in Row
    BY DEF TypeOK
  <2>2. mine \in Row
    BY <2>1 DEF Row, HandOver, Roles
  <2>3. stood = [rows EXCEPT ![c][a] = mine]
    BY DEF TypeOK
  <2> HIDE DEF mine, stood
  <2>4. stood \in [CrewIds -> [Riders -> Row]]
    BY <2>2, <2>3 DEF TypeOK
  <2>5. \A d \in CrewIds, o \in Riders :
            stood[d][o] = IF d = c /\ o = a THEN mine ELSE rows[d][o]
    BY <2>3 DEF TypeOK
  <2>. QED
    BY <2>4, <2>5 DEF mine
<1> HIDE DEF stood
<1>4. ASSUME NEW d \in CrewIds, NEW o \in Riders
      PROVE  /\ rows'[d][o].live = rows[d][o].live
             /\ rows'[d][o].status = rows[d][o].status
             /\ rows'[d][o].elders = rows[d][o].elders
             /\ rows'[d][o].role = IF d = c /\ o = r THEN role
                                   ELSE IF d = c /\ o = a THEN HandOver(rows[c][a], role)
                                   ELSE rows[d][o].role
  <2>1. rows'[d][o] = IF d = c /\ o = r THEN [stood[d][o] EXCEPT !.role = role] ELSE stood[d][o]
    BY <1>1, <1>3
  <2>2. rows[d][o] \in Row /\ stood[d][o] \in Row
    BY <1>2, <1>3 DEF Row
  <2>3. /\ stood[d][o].live = rows[d][o].live /\ stood[d][o].status = rows[d][o].status
        /\ stood[d][o].elders = rows[d][o].elders
        /\ stood[d][o].role = IF d = c /\ o = a THEN HandOver(rows[c][a], role)
                              ELSE rows[d][o].role
    BY <1>3, <2>2 DEF Row
  <2>. QED
    BY <2>1, <2>2, <2>3 DEF Row
<1>5. Powered(c, a) /\ Active(c, r) /\ MayRank(a, c, r, role) /\ Stays
    BY DEF SetRole, Stays, past
<1>. QED
    BY <1>4, <1>5

LEMMA ClaimEffect ==
    ASSUME TypeOK, NEW c \in CrewIds, NEW r \in Riders, Claim(r, c)
    PROVE  /\ crew[c] = "living" /\ Stays
           /\ \E leader \in SittingLeader(c) :
              /\ Eligible(c, r, leader)
              /\ \A d \in CrewIds, o \in Riders :
                    /\ rows'[d][o].live = rows[d][o].live
                    /\ rows'[d][o].status = rows[d][o].status
                    /\ rows'[d][o].elders = rows[d][o].elders
                    /\ rows'[d][o].role = IF d = c /\ o = r THEN "leader"
                                          ELSE IF d = c /\ o \in leader THEN "member"
                                          ELSE rows[d][o].role
<1>1. PICK leader \in SittingLeader(c) :
          /\ Eligible(c, r, leader)
          /\ rows' = [rows EXCEPT ![c] = [o \in Riders |->
                CASE o = r -> [rows[c][o] EXCEPT !.role = "leader"]
                  [] o # r /\ o \in leader -> [rows[c][o] EXCEPT !.role = "member"]
                  [] OTHER -> rows[c][o]]]
    BY DEF Claim
<1>2. ASSUME NEW d \in CrewIds, NEW o \in Riders
      PROVE  /\ rows'[d][o].live = rows[d][o].live
             /\ rows'[d][o].status = rows[d][o].status
             /\ rows'[d][o].elders = rows[d][o].elders
             /\ rows'[d][o].role = IF d = c /\ o = r THEN "leader"
                                   ELSE IF d = c /\ o \in leader THEN "member"
                                   ELSE rows[d][o].role
  <2>1. rows[d][o] \in Row
    BY DEF TypeOK
  <2>2. rows'[d][o] = IF d = c /\ o = r THEN [rows[d][o] EXCEPT !.role = "leader"]
                      ELSE IF d = c /\ o \in leader THEN [rows[d][o] EXCEPT !.role = "member"]
                      ELSE rows[d][o]
    BY <1>1 DEF TypeOK
  <2>. QED
    BY <2>1, <2>2 DEF Row
<1>3. crew[c] = "living" /\ Stays
    BY DEF Claim, Stays, past
<1>. QED
    BY <1>1, <1>2, <1>3

LEMMA FoldEffect ==
    ASSUME TypeOK, NEW c \in CrewIds, NEW by, Fold(c, by)
    PROVE  /\ OnlyCrew(c) /\ CrewBecomes(c, "folded")
           /\ \A d \in CrewIds : took'[d] =
                 IF d = c /\ crew[c] # "folded"
                 THEN [members |-> ActiveIn(c), waiting |-> LiveIn(c) \ ActiveIn(c)]
                 ELSE took[d]
           /\ \A o \in Riders :
                 /\ ~rows'[c][o].live
                 /\ rows'[c][o].status = IF ~Live(c, o) THEN rows[c][o].status
                                         ELSE IF o \in by THEN "disbanded_seen" ELSE "disbanded"
                 /\ rows'[c][o].role = rows[c][o].role
                 /\ rows'[c][o].elders = rows[c][o].elders
<1>1. OnlyCrew(c) /\ CrewBecomes(c, "folded")
    BY DEF Fold, OnlyCrew, CrewBecomes, TypeOK
<1>3. \A d \in CrewIds : took'[d] =
         IF d = c /\ crew[c] # "folded"
         THEN [members |-> ActiveIn(c), waiting |-> LiveIn(c) \ ActiveIn(c)]
         ELSE took[d]
    BY DEF Fold, TypeOK
<1>2. ASSUME NEW o \in Riders
      PROVE  /\ ~rows'[c][o].live
             /\ rows'[c][o].status = IF ~Live(c, o) THEN rows[c][o].status
                                     ELSE IF o \in by THEN "disbanded_seen" ELSE "disbanded"
             /\ rows'[c][o].role = rows[c][o].role
             /\ rows'[c][o].elders = rows[c][o].elders
  <2>1. rows[c][o] \in Row
    BY DEF TypeOK
  <2>2. rows'[c][o] = IF ~Live(c, o) THEN rows[c][o]
                      ELSE Ended(rows[c][o], IF o \in by THEN "disbanded_seen" ELSE "disbanded")
    BY DEF Fold, TypeOK
  <2>. QED
    BY <2>1, <2>2 DEF Live, Ended, Row
<1>. QED
    BY <1>1, <1>2, <1>3

\* The three ways in which a crew goes down.
FoldStep(c, by) == crew[c] # "none" /\ Fold(c, by) /\ restored' = restored

LEMMA NoticeSeenEffect ==
    ASSUME TypeOK, NEW c \in CrewIds, NEW r \in Riders, NEW kind \in DOMAIN Seen,
           NoticeSeen(r, c, kind)
    PROVE  /\ Stays /\ OnlyRow(c, r) /\ rows[c][r].status = kind /\ rows'[c][r].status = Seen[kind]
           /\ rows'[c][r].live = rows[c][r].live
           /\ rows'[c][r].role = rows[c][r].role /\ rows'[c][r].elders = rows[c][r].elders
<1>1. rows' = [rows EXCEPT ![c][r] = [rows[c][r] EXCEPT !.status = Seen[kind]]]
    BY DEF NoticeSeen, TypeOK
<1>2. rows'[c][r] = [rows[c][r] EXCEPT !.status = Seen[kind]] /\ OnlyRow(c, r)
    BY <1>1, OneRow
<1>3. rows[c][r] \in Row
    BY DEF TypeOK
<1>. QED
    BY <1>2, <1>3 DEF Row, NoticeSeen, Readable, Stays, past

LEMMA TouchEffect ==
    ASSUME TypeOK, NEW c \in CrewIds, NEW r \in Riders, Touch(r, c)
    PROVE  AllSame
<1>1. rows' = [rows EXCEPT ![c][r] = [rows[c][r] EXCEPT !.seen = 0]]
    BY DEF Touch, TypeOK
<1>2. rows'[c][r] = [rows[c][r] EXCEPT !.seen = 0] /\ OnlyRow(c, r)
    BY <1>1, OneRow
<1>3. rows[c][r] \in Row
    BY DEF TypeOK
<1>. QED
    BY <1>2, <1>3 DEF Row, AllSame, Same, OnlyRow

LEMMA TickEffect ==
    ASSUME TypeOK, Tick
    PROVE  AllSame
<1>1. ASSUME NEW d \in CrewIds, NEW o \in Riders
      PROVE  Same(d, o)
  <2>1. rows[d][o] \in Row
    BY DEF TypeOK
  <2>2. rows'[d][o] = Aged(rows[d][o])
    BY DEF Tick
  <2>. QED
    BY <2>1, <2>2 DEF Same, Aged, Row
<1>. QED
    BY <1>1 DEF AllSame

\* The rows a sweep deletes.
Gone(c) == {r \in Riders : rows[c][r].status \in Spent /\ rows[c][r].left > SpentAfter}

LEMMA SweepEffect ==
    ASSUME TypeOK, Sweep
    PROVE  Stays /\ \A d \in CrewIds :
              /\ \A o \in Gone(d) : rows'[d][o] = NoRow
              /\ \A o \in Riders \ Gone(d) :
                    /\ rows'[d][o].live = rows[d][o].live
                    /\ rows'[d][o].status = rows[d][o].status
                    /\ rows'[d][o].role = rows[d][o].role
                    /\ rows'[d][o].seen = rows[d][o].seen
                    /\ rows'[d][o].elders = rows[d][o].elders \ Gone(d)
<1>1. rows' = [c \in CrewIds |-> [r \in Riders |->
               IF r \in Gone(c) THEN NoRow
               ELSE [rows[c][r] EXCEPT !.elders = @ \ Gone(c)]]]
    BY DEF Sweep, Gone
<1>2. \A d \in CrewIds, o \in Riders : rows[d][o] \in Row
    BY DEF TypeOK
<1>3. \A d \in CrewIds : Gone(d) \subseteq Riders
    BY DEF Gone
<1>4. Stays
    BY DEF Sweep, Stays, past
<1>. QED
    BY <1>1, <1>2, <1>3, <1>4 DEF Row

\* Who is in crew c once a restore has brought back who was coming, and whether
\* somebody leads it then.
There(c) == ActiveIn(c) \cup Coming(c)
Led(c) == \E r \in LiveIn(c) \cup Coming(c) : rows[c][r].role = "leader"

LEMMA RestoreEffect ==
    ASSUME TypeOK, NEW c \in CrewIds, Restore(c)
    PROVE  /\ crew[c] = "folded" \/ (crew[c] = "living" /\ restored[c] > 0)
           /\ CrewBecomes(c, "living")
           /\ \A d \in CrewIds : restored'[d] = IF d = c THEN restored[d] + 1 ELSE restored[d]
           /\ \A d \in CrewIds : took'[d] = IF d = c THEN Nobody ELSE took[d]
           /\ OnlyCrew(c) /\ Coming(c) \subseteq Riders /\ Coming(c) # {}
           /\ \A o \in Riders :
                 /\ rows'[c][o].live <=> Live(c, o) \/ o \in Coming(c)
                 /\ rows'[c][o].status = IF o \in Coming(c) THEN "active" ELSE rows[c][o].status
                 /\ rows'[c][o].elders = rows[c][o].elders
                 /\ rows'[c][o].role = IF ~Led(c) /\ Senior(c, There(c), o)
                                       THEN "leader" ELSE rows[c][o].role
<1> DEFINE back == [r \in Riders |->
               IF r \in Coming(c) THEN Revived(rows[c][r], "active") ELSE rows[c][r]]
           led == \E r \in Riders : back[r].live /\ back[r].role = "leader"
           there == {r \in Riders : back[r].live /\ back[r].status = "active"}
<1>1. /\ OnlyCrew(c)
      /\ \A o \in Riders : rows'[c][o] = IF ~led /\ Senior(c, there, o)
                                         THEN [back[o] EXCEPT !.role = "leader"] ELSE back[o]
    BY DEF Restore, OnlyCrew, TypeOK
<1>2. Coming(c) \subseteq Riders
    BY DEF Coming, FellWith, Marked
<1>3. \A o \in Riders : rows[c][o] \in Row
    BY DEF TypeOK
<1>4. ASSUME NEW o \in Riders
      PROVE  /\ back[o] \in Row
             /\ back[o].live <=> Live(c, o) \/ o \in Coming(c)
             /\ back[o].status = IF o \in Coming(c) THEN "active" ELSE rows[c][o].status
             /\ back[o].elders = rows[c][o].elders
             /\ back[o].role = rows[c][o].role
  <2>1. rows[c][o] \in Row /\ Revived(rows[c][o], "active") \in Row
    BY <1>3, RevivedType, StatusesUsed
  <2>2. back[o] \in Row
    BY <2>1
  <2>. QED
    BY <2>1, <2>2 DEF Live, Row, Revived
<1> HIDE DEF back
<1>5. led <=> Led(c)
    BY <1>2, <1>4 DEF Led, LiveIn
<1>6. there = There(c)
    BY <1>2, <1>4 DEF There, ActiveIn, Active
<1> HIDE DEF led, there
<1>9. /\ crew[c] = "folded" \/ (crew[c] = "living" /\ restored[c] > 0)
      /\ CrewBecomes(c, "living")
      /\ \A d \in CrewIds : restored'[d] = IF d = c THEN restored[d] + 1 ELSE restored[d]
      /\ \A d \in CrewIds : took'[d] = IF d = c THEN Nobody ELSE took[d]
      /\ Coming(c) # {}
  <2>1. /\ crew[c] = "folded" \/ (crew[c] = "living" /\ restored[c] > 0)
        /\ crew' = [crew EXCEPT ![c] = "living"]
        /\ restored' = [restored EXCEPT ![c] = @ + 1]
        /\ took' = [took EXCEPT ![c] = Nobody]
        /\ Coming(c) # {}
    BY DEF Restore
  <2>. QED
    BY <2>1 DEF CrewBecomes, TypeOK
<1>10. ASSUME NEW o \in Riders
       PROVE  /\ rows'[c][o].live <=> Live(c, o) \/ o \in Coming(c)
              /\ rows'[c][o].status = IF o \in Coming(c) THEN "active" ELSE rows[c][o].status
              /\ rows'[c][o].elders = rows[c][o].elders
              /\ rows'[c][o].role = IF ~Led(c) /\ Senior(c, There(c), o)
                                    THEN "leader" ELSE rows[c][o].role
  <2>1. rows'[c][o] = IF ~Led(c) /\ Senior(c, There(c), o)
                      THEN [back[o] EXCEPT !.role = "leader"] ELSE back[o]
    BY <1>1, <1>5, <1>6
  <2>2. back[o] \in Row
    BY <1>4
  <2>3. /\ rows'[c][o].live = back[o].live /\ rows'[c][o].status = back[o].status
        /\ rows'[c][o].elders = back[o].elders
        /\ rows'[c][o].role = IF ~Led(c) /\ Senior(c, There(c), o) THEN "leader" ELSE back[o].role
    BY <2>1, <2>2 DEF Row
  <2>. QED
    BY <2>3, <1>4
<1>11. OnlyCrew(c)
    BY <1>1
<1>. QED
    BY <1>2, <1>9, <1>10, <1>11

-----------------------------------------------------------------------------
(* Every step is one of a few kinds. *)

Idle == AllSame /\ Stays
OfRider(r, c) ==
    \/ Create(r, c) \/ Join(r, c) \/ (Leave(r, c) /\ ~LastOut(c, r)) \/ Claim(r, c)
    \/ \E kind \in DOMAIN Seen : NoticeSeen(r, c, kind)

LEMMA StepKinds ==
    ASSUME TypeOK, [Next]_vars
    PROVE  \/ Idle \/ Sweep
           \/ \E c \in CrewIds, r \in Riders : OfRider(r, c)
           \/ \E c \in CrewIds, a, r \in Riders : RosterStep(a, c, r)
           \/ \E c \in CrewIds, by \in SUBSET Riders : FoldStep(c, by)
           \/ \E c \in CrewIds : Restore(c)
<1>1. CASE UNCHANGED vars
    BY <1>1 DEF vars, Idle, AllSame, Same, Stays
<1>2. ASSUME NEW c \in CrewIds, NEW r \in Riders, RiderStep(r, c)
      PROVE  Idle \/ OfRider(r, c) \/ \E by \in SUBSET Riders : FoldStep(c, by)
  <2>1. CASE Create(r, c) \/ Join(r, c) \/ Claim(r, c)
             \/ \E kind \in DOMAIN Seen : NoticeSeen(r, c, kind)
    BY <2>1 DEF OfRider
  <2>2. CASE Leave(r, c)
    BY <2>2 DEF OfRider, Leave, LastOut, FoldStep
  <2>3. CASE Disband(r, c)
    BY <2>3 DEF Disband, FoldStep, Powered
  <2>4. CASE EditPolicy(r, c)
    BY <2>4 DEF EditPolicy, past, Idle, AllSame, Same, Stays
  <2>5. CASE Touch(r, c)
    BY <2>5, TouchEffect DEF Touch, past, Idle, Stays
  <2>. QED
    BY <1>2, <2>1, <2>2, <2>3, <2>4, <2>5 DEF RiderStep
<1>3. ASSUME NEW c \in CrewIds, AdminDisband(c)
      PROVE  \E by \in SUBSET Riders : FoldStep(c, by)
    BY <1>3 DEF AdminDisband, FoldStep
<1>4. CASE Tick
    BY <1>4, TickEffect DEF Tick, past, Idle, Stays
<1>. QED
    BY <1>1, <1>2, <1>3, <1>4 DEF Next

-----------------------------------------------------------------------------
(* The inductive invariant, part by part. *)

\* What every row satisfies whatever its age.
RowsSound ==
    \A c \in CrewIds, r \in Riders :
        /\ Live(c, r) => rows[c][r].status \in {"active", "pending"}
        /\ Live(c, r) /\ rows[c][r].status = "pending" => rows[c][r].role = "member"
        /\ rows[c][r].status \in Declined => rows[c][r].role = "member"
        /\ crew[c] = "none" => rows[c][r].status = "none"

LEMMA RowsSoundStep ==
    ASSUME TypeOK, RowsSound, [Next]_vars
    PROVE  RowsSound'
<1> USE DEF RowsSound, Live
<1>1. CASE Idle
    BY <1>1 DEF Idle, AllSame, Same, Stays
<1>2. CASE Sweep
  <2>1. ASSUME NEW d \in CrewIds, NEW o \in Gone(d)
        PROVE  rows'[d][o] = NoRow /\ o \in Riders
    BY <1>2, SweepEffect DEF Gone
  <2>2. ASSUME NEW d \in CrewIds, NEW o \in Riders
        PROVE  \/ rows'[d][o] = NoRow
               \/ /\ rows'[d][o].live = rows[d][o].live
                  /\ rows'[d][o].status = rows[d][o].status
                  /\ rows'[d][o].role = rows[d][o].role
    BY <1>2, SweepEffect
  <2>. QED
    BY <2>2, <1>2, SweepEffect DEF NoRow, Stays, Declined
<1>3. ASSUME NEW c \in CrewIds, NEW r \in Riders, OfRider(r, c)
      PROVE  RowsSound'
  <2>1. CASE Create(r, c)
    BY <2>1, CreateEffect DEF OnlyRow, Declined, CrewBecomes
  <2>2. CASE Join(r, c)
    BY <2>2, JoinEffect DEF OnlyCrew, Declined, Stays
  <2>3. CASE Leave(r, c) /\ ~LastOut(c, r)
    BY <2>3, LeaveEffect DEF OnlyRow, Stays
  <2>4. CASE Claim(r, c)
    BY <2>4, ClaimEffect DEF SittingLeader, LeadersIn, Holds, Eligible, Senior, ActiveIn, Active,
                             Stays, Declined
  <2>5. ASSUME NEW kind \in DOMAIN Seen, NoticeSeen(r, c, kind)
        PROVE  RowsSound'
    BY <2>5, NoticeSeenEffect DEF OnlyRow, Seen, Declined, Stays
  <2>. QED
    BY <1>3, <2>1, <2>2, <2>3, <2>4, <2>5 DEF OfRider
<1>4. ASSUME NEW c \in CrewIds, NEW a \in Riders, NEW r \in Riders, RosterStep(a, c, r)
      PROVE  RowsSound'
  <2>1. CASE Accept(a, c, r)
    BY <2>1, AcceptEffect DEF OnlyRow, Stays, Powered, Declined
  <2>2. CASE Decline(a, c, r) \/ Remove(a, c, r)
    BY <2>2, TurnedAwayEffect DEF OnlyRow, Stays, Powered, Active, Declined
  <2>3. ASSUME NEW role \in Roles, SetRole(a, c, r, role)
        PROVE  RowsSound'
    BY <2>3, SetRoleEffect DEF Stays, Powered, Active, Declined
  <2>. QED
    BY <1>4, <2>1, <2>2, <2>3 DEF RosterStep
<1>5. ASSUME NEW c \in CrewIds, NEW by \in SUBSET Riders, FoldStep(c, by)
      PROVE  RowsSound'
  <2>1. /\ CrewBecomes(c, "folded") /\ OnlyCrew(c) /\ crew[c] # "none"
        /\ \A o \in Riders :
              /\ ~rows'[c][o].live
              /\ rows'[c][o].role = rows[c][o].role
              /\ rows'[c][o].status \in {rows[c][o].status, "disbanded", "disbanded_seen"}
    BY <1>5, FoldEffect DEF FoldStep
  <2>. QED
    BY <2>1 DEF OnlyCrew, Declined, CrewBecomes
<1>6. ASSUME NEW c \in CrewIds, Restore(c)
      PROVE  RowsSound'
  <2>1. /\ CrewBecomes(c, "living") /\ OnlyCrew(c)
        /\ \A o \in Riders : \/ /\ Live(c, o)' => Live(c, o)
                                /\ rows'[c][o].status = rows[c][o].status
                                /\ rows'[c][o].role = rows[c][o].role
                             \/ rows'[c][o].status = "active"
    BY <1>6, RestoreEffect DEF There, ActiveIn, Active, Senior
  <2>. QED
    BY <2>1 DEF OnlyCrew, Declined, CrewBecomes
<1>. QED
    BY <1>1, <1>2, <1>3, <1>4, <1>5, <1>6, StepKinds

\* joined_at orders the rows of a crew, and the elders of a row are the rows
\* before it.
ElderOrder ==
    \A c \in CrewIds, r, s \in Riders :
        /\ rows[c][r].elders \subseteq Known(c) \ {r}
        /\ {r, s} \subseteq Known(c) /\ r # s => r \in rows[c][s].elders \/ s \in rows[c][r].elders
        /\ s \in rows[c][r].elders => rows[c][s].elders \subseteq rows[c][r].elders

\* A step that neither adds a row, nor deletes one, nor makes one younger.
SameOrder ==
    \A d \in CrewIds, o \in Riders :
        /\ rows'[d][o].elders = rows[d][o].elders
        /\ rows'[d][o].status = "none" <=> rows[d][o].status = "none"

LEMMA MostKeepOrder ==
    ASSUME TypeOK, RowsSound, [Next]_vars
    PROVE  \/ SameOrder \/ Sweep
           \/ \E c \in CrewIds, r \in Riders : Create(r, c) \/ Join(r, c)
<1> USE DEF SameOrder
<1>1. CASE Idle
    BY <1>1 DEF Idle, AllSame, Same
<1>2. ASSUME NEW c \in CrewIds, NEW r \in Riders, OfRider(r, c), ~Create(r, c), ~Join(r, c)
      PROVE  SameOrder
  <2>1. CASE Leave(r, c) /\ ~LastOut(c, r)
    BY <2>1, LeaveEffect DEF OnlyRow
  <2>2. CASE Claim(r, c)
    BY <2>2, ClaimEffect
  <2>3. ASSUME NEW kind \in DOMAIN Seen, NoticeSeen(r, c, kind)
        PROVE  SameOrder
    BY <2>3, NoticeSeenEffect DEF OnlyRow, Seen
  <2>. QED
    BY <1>2, <2>1, <2>2, <2>3 DEF OfRider
<1>3. ASSUME NEW c \in CrewIds, NEW a \in Riders, NEW r \in Riders, RosterStep(a, c, r)
      PROVE  SameOrder
  <2>1. CASE Accept(a, c, r)
    BY <2>1, AcceptEffect DEF OnlyRow, Reconsider, Declined
  <2>2. CASE Decline(a, c, r) \/ Remove(a, c, r)
    BY <2>2, TurnedAwayEffect DEF OnlyRow, Active
  <2>3. ASSUME NEW role \in Roles, SetRole(a, c, r, role)
        PROVE  SameOrder
    BY <2>3, SetRoleEffect
  <2>. QED
    BY <1>3, <2>1, <2>2, <2>3 DEF RosterStep
<1>4. ASSUME NEW c \in CrewIds, NEW by \in SUBSET Riders, FoldStep(c, by)
      PROVE  SameOrder
  <2>1. OnlyCrew(c)
    BY <1>4, FoldEffect DEF FoldStep
  <2>2. ASSUME NEW o \in Riders
        PROVE  /\ rows'[c][o].elders = rows[c][o].elders
               /\ rows'[c][o].status = "none" <=> rows[c][o].status = "none"
    BY <1>4, FoldEffect DEF FoldStep, RowsSound
  <2>. QED
    BY <2>1, <2>2 DEF OnlyCrew
<1>5. ASSUME NEW c \in CrewIds, Restore(c)
      PROVE  SameOrder
  <2>1. OnlyCrew(c)
    BY <1>5, RestoreEffect
  <2>2. \A o \in Coming(c) : rows[c][o].status # "none"
    BY DEF Coming, FellWith, Marked, Folded, WalkedOut
  <2>3. ASSUME NEW o \in Riders
        PROVE  /\ rows'[c][o].elders = rows[c][o].elders
               /\ rows'[c][o].status = "none" <=> rows[c][o].status = "none"
    BY <1>5, <2>2, RestoreEffect
  <2>. QED
    BY <2>1, <2>3 DEF OnlyCrew
<1>. QED
    BY <1>1, <1>2, <1>3, <1>4, <1>5, StepKinds

LEMMA ElderOrderStep ==
    ASSUME TypeOK, RowsSound, ElderOrder, [Next]_vars
    PROVE  ElderOrder'
<1>1. CASE SameOrder
  <2>1. \A d \in CrewIds : Known(d)' = Known(d)
    BY <1>1 DEF SameOrder, Known
  <2>. QED
    BY <1>1, <2>1 DEF SameOrder, ElderOrder
<1>2. ASSUME NEW c \in CrewIds, NEW r \in Riders, Create(r, c)
      PROVE  ElderOrder'
  <2>1. Known(c)' = {r} /\ \A o \in Riders : rows[c][o].elders = {} /\ rows'[c][o].elders = {}
    BY <1>2, CreateEffect DEF OnlyRow, Known, RowsSound, ElderOrder
  <2>2. \A d \in CrewIds \ {c} : Known(d)' = Known(d)
                                 /\ \A o \in Riders : rows'[d][o] = rows[d][o]
    BY <1>2, CreateEffect DEF OnlyRow, Known
  <2>. QED
    BY <2>1, <2>2 DEF ElderOrder
<1>3. ASSUME NEW c \in CrewIds, NEW r \in Riders, Join(r, c)
      PROVE  ElderOrder'
  <2>1. /\ Known(c)' = Known(c) \cup {r} /\ rows'[c][r].elders = Known(c) \ {r}
        /\ \A o \in Riders \ {r} : rows'[c][o].elders = rows[c][o].elders \ {r}
    BY <1>3, JoinEffect DEF Known
  <2>2. \A d \in CrewIds \ {c} : Known(d)' = Known(d)
                                 /\ \A o \in Riders : rows'[d][o] = rows[d][o]
    BY <1>3, JoinEffect DEF OnlyCrew, Known
  <2>. QED
    BY <2>1, <2>2 DEF ElderOrder
<1>4. CASE Sweep
  <2>1. ASSUME NEW d \in CrewIds
        PROVE  /\ Known(d)' = Known(d) \ Gone(d)
               /\ \A o \in Gone(d) : rows'[d][o].elders = {}
               /\ \A o \in Riders \ Gone(d) : rows'[d][o].elders = rows[d][o].elders \ Gone(d)
    <3>1. \A o \in Gone(d) : rows'[d][o].elders = {} /\ rows'[d][o].status = "none"
      BY <1>4, SweepEffect DEF NoRow
    <3>. QED
      BY <3>1, <1>4, SweepEffect DEF Known
  <2>. QED
    BY <2>1 DEF ElderOrder
<1>. QED
    BY <1>1, <1>2, <1>3, <1>4, MostKeepOrder

\* A crew has finitely many rows, however many riders there are.
FewRows == \A c \in CrewIds : IsFiniteSet(Known(c))

LEMMA FewRowsStep ==
    ASSUME TypeOK, RowsSound, FewRows, [Next]_vars
    PROVE  FewRows'
<1>1. ASSUME NEW d \in CrewIds
      PROVE  \E r : Known(d)' \subseteq Known(d) \cup {r}
  <2>1. CASE SameOrder
    BY <2>1 DEF SameOrder, Known
  <2>2. ASSUME NEW c \in CrewIds, NEW r \in Riders, Create(r, c) \/ Join(r, c)
        PROVE  Known(d)' \subseteq Known(d) \cup {r}
    BY <2>2, CreateEffect, JoinEffect DEF OnlyRow, OnlyCrew, Known
  <2>3. CASE Sweep
    BY <2>3, SweepEffect DEF Known, NoRow
  <2>. QED
    BY <2>1, <2>2, <2>3, MostKeepOrder
<1>2. ASSUME NEW d \in CrewIds
      PROVE  IsFiniteSet(Known(d)')
  <2>1. PICK r : Known(d)' \subseteq Known(d) \cup {r}
    BY <1>1
  <2>2. IsFiniteSet(Known(d) \cup {r})
    BY FS_AddElement DEF FewRows
  <2>. QED
    BY <2>1, <2>2, FS_Subset
<1>. QED
    BY <1>2 DEF FewRows

\* A step that changes nobody's place in any crew, and no crew.
SamePlaces ==
    /\ \A d \in CrewIds : crew'[d] = crew[d]
    /\ \A d \in CrewIds, o \in Riders :
          (Live(d, o)' <=> Live(d, o)) /\ (Active(d, o)' <=> Active(d, o))

LEMMA LivingStep ==
    ASSUME TypeOK, RowsSound, LivingIffManned, [Next]_vars
    PROVE  LivingIffManned'
<1> DEFINE Lively(d) == IF crew[d] = "living" THEN \E o \in Riders : Active(d, o)
                        ELSE \A o \in Riders : ~Live(d, o)
<1>0. /\ \A d \in CrewIds : Lively(d)
      /\ (\A d \in CrewIds : Lively(d)') => LivingIffManned'
    BY DEF LivingIffManned, ActiveIn, LiveIn
<1>a. SamePlaces => LivingIffManned'
    BY <1>0 DEF SamePlaces
<1> USE DEF Live, Active
<1>1. CASE Idle
    BY <1>1, <1>a DEF SamePlaces, Idle, AllSame, Same, Stays
<1>2. CASE Sweep
  <2>1. ASSUME NEW d \in CrewIds, NEW o \in Riders
        PROVE  (Live(d, o)' <=> Live(d, o)) /\ (Active(d, o)' <=> Active(d, o))
    BY <1>2, SweepEffect DEF NoRow, Gone, RowsSound, Spent, Folded, Declined
  <2>. QED
    BY <1>2, <2>1, <1>a, SweepEffect DEF SamePlaces, Stays
<1>3. ASSUME NEW c \in CrewIds, NEW r \in Riders, OfRider(r, c)
      PROVE  LivingIffManned'
  <2>1. CASE Create(r, c)
    BY <2>1, <1>0, CreateEffect DEF OnlyRow, CrewBecomes
  <2>2. CASE Join(r, c)
    BY <2>2, <1>0, JoinEffect DEF OnlyCrew, Stays, HasCrew
  <2>3. CASE Leave(r, c) /\ ~LastOut(c, r)
    <3>1. /\ Live(c, r) /\ Stays /\ OnlyRow(c, r)
          /\ ~(Alone(c, r) /\ crew[c] = "living")
      BY <2>3, LeaveEffect DEF LastOut
    <3>2. crew[c] = "living"
      BY <3>1, <1>0
    <3>3. PICK o \in Riders \ {r} : Active(c, o)
      BY <3>1, <3>2, <1>0 DEF Alone, ActiveIn
    <3>. QED
      BY <3>1, <3>2, <3>3, <1>0 DEF OnlyRow, Stays
  <2>4. CASE Claim(r, c)
    BY <2>4, <1>a, ClaimEffect DEF SamePlaces, Stays
  <2>5. ASSUME NEW kind \in DOMAIN Seen, NoticeSeen(r, c, kind)
        PROVE  LivingIffManned'
    BY <2>5, <1>a, NoticeSeenEffect DEF SamePlaces, OnlyRow, Seen, Stays
  <2>. QED
    BY <1>3, <2>1, <2>2, <2>3, <2>4, <2>5 DEF OfRider
<1>4. ASSUME NEW c \in CrewIds, NEW a \in Riders, NEW r \in Riders, RosterStep(a, c, r)
      PROVE  LivingIffManned'
  <2>1. CASE Accept(a, c, r)
    BY <2>1, <1>0, AcceptEffect DEF OnlyRow, Stays, Powered
  <2>2. CASE Decline(a, c, r) \/ Remove(a, c, r)
    BY <2>2, <1>0, TurnedAwayEffect DEF OnlyRow, Stays, Powered
  <2>3. ASSUME NEW role \in Roles, SetRole(a, c, r, role)
        PROVE  LivingIffManned'
    BY <2>3, <1>a, SetRoleEffect DEF SamePlaces, Stays
  <2>. QED
    BY <1>4, <2>1, <2>2, <2>3 DEF RosterStep
<1>5. ASSUME NEW c \in CrewIds, NEW by \in SUBSET Riders, FoldStep(c, by)
      PROVE  LivingIffManned'
  <2>1. CrewBecomes(c, "folded") /\ OnlyCrew(c) /\ \A o \in Riders : ~rows'[c][o].live
    BY <1>5, FoldEffect DEF FoldStep
  <2>. QED
    BY <2>1, <1>0 DEF OnlyCrew, CrewBecomes
<1>6. ASSUME NEW c \in CrewIds, Restore(c)
      PROVE  LivingIffManned'
  <2>1. /\ CrewBecomes(c, "living") /\ OnlyCrew(c)
        /\ \E o \in Riders : rows'[c][o].live /\ rows'[c][o].status = "active"
    BY <1>6, RestoreEffect
  <2>. QED
    BY <2>1, <1>0 DEF OnlyCrew, CrewBecomes
<1>. QED
    BY <1>1, <1>2, <1>3, <1>4, <1>5, <1>6, StepKinds

-----------------------------------------------------------------------------
\* What a fold leaves behind for the restore: the riders it took are marked
\* until their rows are swept; before the first restore nobody is marked but by
\* the fold, and one leader at most among them.
FoldMarks ==
    \A c \in CrewIds :
        /\ crew[c] = "folded" => \A r \in took[c].members \cup took[c].waiting :
               rows[c][r].status \in Folded \cup {"none"}
        /\ restored[c] = 0 /\ crew[c] # "folded" => Marked(c) = {}
        /\ restored[c] = 0 => \A l, m \in Marked(c) :
               rows[c][l].role = "leader" /\ rows[c][m].role = "leader" => l = m

\* OneLeader without the counting.
SoleLeader ==
    \A c \in CrewIds : restored[c] <= 1 => \A l, m \in LeadersIn(c) : l = m

LEMMA LeadersStay ==
    ASSUME SoleLeader, \A d \in CrewIds : restored'[d] = restored[d],
           \A d \in CrewIds, o \in Riders : Holds(d, o, "leader")' => Holds(d, o, "leader")
    PROVE  SoleLeader'
BY DEF SoleLeader, LeadersIn

LEMMA SoleLeaderStep ==
    ASSUME TypeOK, RowsSound, ElderOrder, FewRows, LivingIffManned, FoldMarks, SoleLeader,
           [Next]_vars
    PROVE  SoleLeader'
<1> USE DEF Holds, Live
<1>1. CASE Idle
    BY <1>1, LeadersStay DEF Idle, AllSame, Same, Stays
<1>2. CASE Sweep
    BY <1>2, LeadersStay, SweepEffect DEF NoRow, Stays
<1>3. ASSUME NEW c \in CrewIds, NEW r \in Riders, OfRider(r, c)
      PROVE  SoleLeader'
  <2>1. CASE Create(r, c)
    BY <2>1, CreateEffect DEF OnlyRow, LivingIffManned, LiveIn, SoleLeader, LeadersIn
  <2>2. CASE Join(r, c)
    BY <2>2, LeadersStay, JoinEffect DEF OnlyCrew, Stays
  <2>3. CASE Leave(r, c) /\ ~LastOut(c, r)
    BY <2>3, LeadersStay, LeaveEffect DEF OnlyRow, Stays
  <2>4. CASE Claim(r, c)
    <3>1. PICK leader \in SittingLeader(c) :
             \A d \in CrewIds, o \in Riders :
                /\ rows'[d][o].live = rows[d][o].live
                /\ rows'[d][o].role = IF d = c /\ o = r THEN "leader"
                                      ELSE IF d = c /\ o \in leader THEN "member"
                                      ELSE rows[d][o].role
      BY <2>4, ClaimEffect
    <3>2. restored[c] <= 1 => LeadersIn(c) \subseteq leader
      BY DEF SittingLeader, SoleLeader
    <3>3. restored[c] <= 1 => LeadersIn(c)' \subseteq {r}
      BY <3>1, <3>2 DEF LeadersIn
    <3>4. \A d \in CrewIds \ {c} : LeadersIn(d)' = LeadersIn(d)
      BY <3>1 DEF LeadersIn
    <3>. QED
      BY <2>4, <3>3, <3>4, ClaimEffect DEF Stays, SoleLeader
  <2>5. ASSUME NEW kind \in DOMAIN Seen, NoticeSeen(r, c, kind)
        PROVE  SoleLeader'
    BY <2>5, LeadersStay, NoticeSeenEffect DEF OnlyRow, Stays
  <2>. QED
    BY <1>3, <2>1, <2>2, <2>3, <2>4, <2>5 DEF OfRider
<1>4. ASSUME NEW c \in CrewIds, NEW a \in Riders, NEW r \in Riders, RosterStep(a, c, r)
      PROVE  SoleLeader'
  <2>1. CASE Accept(a, c, r)
    BY <2>1, LeadersStay, AcceptEffect DEF OnlyRow, Stays, Reconsider, RowsSound
  <2>2. CASE Decline(a, c, r) \/ Remove(a, c, r)
    BY <2>2, LeadersStay, TurnedAwayEffect DEF OnlyRow, Stays
  <2>3. ASSUME NEW role \in Roles, SetRole(a, c, r, role)
        PROVE  SoleLeader'
    <3>1. CASE role # "leader"
      BY <2>3, <3>1, LeadersStay, SetRoleEffect DEF Stays, HandOver
    <3>2. CASE role = "leader"
      <4>1. /\ a \in LeadersIn(c)
            /\ restored' = restored
            /\ \A d \in CrewIds \ {c} : LeadersIn(d)' = LeadersIn(d)
            /\ LeadersIn(c)' \subseteq (LeadersIn(c) \ {a}) \cup {r}
        BY <2>3, <3>2, SetRoleEffect DEF Stays, HandOver, LeadersIn, MayRank, Powered, Active
      <4>. QED
        BY <4>1 DEF SoleLeader
    <3>. QED
      BY <3>1, <3>2
  <2>. QED
    BY <1>4, <2>1, <2>2, <2>3 DEF RosterStep
<1>5. ASSUME NEW c \in CrewIds, NEW by \in SUBSET Riders, FoldStep(c, by)
      PROVE  SoleLeader'
  <2>1. restored' = restored /\ OnlyCrew(c) /\ \A o \in Riders : ~rows'[c][o].live
    BY <1>5, FoldEffect DEF FoldStep
  <2>. QED
    BY <2>1, LeadersStay DEF OnlyCrew
<1>6. ASSUME NEW c \in CrewIds, Restore(c)
      PROVE  SoleLeader'
  <2>1. /\ OnlyCrew(c)
        /\ \A d \in CrewIds \ {c} : restored'[d] = restored[d]
        /\ restored'[c] = restored[c] + 1
    BY <1>6, RestoreEffect
  <2>2. \A d \in CrewIds \ {c} : LeadersIn(d)' = LeadersIn(d)
    BY <2>1 DEF LeadersIn, OnlyCrew
  <2>3. ASSUME restored'[c] <= 1
        PROVE  \A l, m \in LeadersIn(c)' : l = m
    <3>1. restored[c] = 0
      BY <2>1, <2>3 DEF TypeOK
    <3>2. crew[c] = "folded" /\ LiveIn(c) = {}
      BY <3>1, <1>6, RestoreEffect DEF LivingIffManned
    <3>3. There(c) = Coming(c) /\ Coming(c) \subseteq Known(c)
      BY <3>2 DEF There, ActiveIn, LiveIn, Active, Coming, FellWith, Marked, WalkedOut, Known, Folded
    <3>4. \A o \in LeadersIn(c)' : o \in Coming(c)
      BY <1>6, <3>2, RestoreEffect DEF LeadersIn, LiveIn
    <3>5. CASE Led(c)
      <4>1. \A o \in LeadersIn(c)' : rows[c][o].role = "leader"
        BY <1>6, <3>5, RestoreEffect DEF LeadersIn
      <4>2. \A l, m \in Coming(c) : rows[c][l].role = "leader" /\ rows[c][m].role = "leader" => l = m
        <5> DEFINE walked == {r \in Riders : WalkedOut(c, r)}
        <5>1. CASE Marked(c) # {}
          BY <5>1, <3>1 DEF FoldMarks, Coming, FellWith
        <5>2. CASE Marked(c) = {} /\ Cardinality(walked) = 1
          <6>1. Coming(c) \subseteq walked /\ walked \subseteq Known(c)
            BY <5>2 DEF Coming, FellWith, WalkedOut, Known
          <6>2. \E o : walked = {o}
            BY <5>2, <6>1, FS_Subset, FS_Singleton DEF FewRows
          <6>. QED
            BY <6>1, <6>2
        <5>3. CASE Marked(c) = {} /\ Cardinality(walked) # 1
          BY <5>3 DEF Coming, FellWith
        <5>. QED
          BY <5>1, <5>2, <5>3
      <4>. QED
        BY <3>4, <4>1, <4>2
    <3>6. CASE ~Led(c)
      <4>1. \A o \in LeadersIn(c)' : Senior(c, There(c), o)
        BY <1>6, <3>4, <3>6, RestoreEffect DEF LeadersIn, Led
      <4>2. ASSUME NEW l \in LeadersIn(c)', NEW m \in LeadersIn(c)', l # m
            PROVE  FALSE
        <5>1. /\ {l, m} \subseteq Known(c) /\ l \in Riders /\ m \in Riders
              /\ l \in There(c) /\ rows[c][l].elders \cap There(c) = {}
              /\ m \in There(c) /\ rows[c][m].elders \cap There(c) = {}
          BY <3>3, <4>1, <4>2 DEF Senior, Known
        <5>2. l \in rows[c][m].elders \/ m \in rows[c][l].elders
          BY <4>2, <5>1 DEF ElderOrder
        <5>. QED
          BY <5>1, <5>2
      <4>. QED
        BY <4>2
    <3>. QED
      BY <3>5, <3>6
  <2>. QED
    BY <2>1, <2>2, <2>3 DEF SoleLeader
<1>. QED
    BY <1>1, <1>2, <1>3, <1>4, <1>5, <1>6, StepKinds

\* A step that makes nobody a rider the fold took, and no marked rider a leader.
SameMarks ==
    /\ \A d \in CrewIds :
          /\ took'[d] = took[d] /\ restored'[d] = restored[d]
          /\ crew'[d] = "folded" <=> crew[d] = "folded"
    /\ \A d \in CrewIds, o \in Riders :
          /\ rows'[d][o].status \in Folded =>
                rows[d][o].status \in Folded /\ rows'[d][o].role = rows[d][o].role
          /\ crew[d] = "folded" /\ rows[d][o].status \in Folded \cup {"none"} =>
                rows'[d][o].status \in Folded \cup {"none"}

LEMMA SameMarksKeep ==
    ASSUME TypeOK, FoldMarks, SameMarks
    PROVE  FoldMarks'
<1>1. ASSUME NEW c \in CrewIds, NEW r \in took'[c].members \cup took'[c].waiting,
             crew'[c] = "folded"
      PROVE  rows'[c][r].status \in Folded \cup {"none"}
  <2>1. r \in Riders
    BY <1>1 DEF SameMarks, TypeOK
  <2>. QED
    BY <1>1, <2>1 DEF SameMarks, FoldMarks
<1>2. \A c \in CrewIds : Marked(c)' \subseteq Marked(c)
    BY DEF SameMarks, Marked
<1>3. \A c \in CrewIds : restored'[c] = 0 /\ crew'[c] # "folded" => Marked(c)' = {}
    BY <1>2 DEF SameMarks, FoldMarks
<1>4. ASSUME NEW c \in CrewIds, restored'[c] = 0, NEW l \in Marked(c)', NEW m \in Marked(c)',
             rows'[c][l].role = "leader", rows'[c][m].role = "leader"
      PROVE  l = m
  <2>1. rows[c][l].role = "leader" /\ rows[c][m].role = "leader"
    BY <1>4 DEF SameMarks, Marked
  <2>. QED
    BY <1>2, <1>4, <2>1 DEF SameMarks, FoldMarks
<1>. QED
    BY <1>1, <1>3, <1>4 DEF FoldMarks

LEMMA FoldMarksStep ==
    ASSUME TypeOK, RowsSound, LivingIffManned, FoldMarks, SoleLeader, [Next]_vars
    PROVE  FoldMarks'
<1>0. Folded = {"disbanded", "disbanded_seen"} /\ Declined = {"declined", "declined_seen"}
    BY DEF Folded, Declined
<1>a. \A d \in CrewIds, o \in Riders :
         Live(d, o) => crew[d] = "living" /\ rows[d][o].status \notin Folded
    BY <1>0 DEF LivingIffManned, LiveIn, RowsSound
<1> USE DEF SameMarks
<1>1. CASE Idle
    BY <1>1, SameMarksKeep DEF Idle, AllSame, Same, Stays
<1>2. CASE Sweep
    BY <1>0, <1>2, SameMarksKeep, SweepEffect DEF NoRow, Stays
<1>3. ASSUME NEW c \in CrewIds, NEW r \in Riders, OfRider(r, c)
      PROVE  FoldMarks'
  <2>1. CASE Create(r, c)
    <3>1. /\ crew[c] = "none" /\ CrewBecomes(c, "living") /\ restored' = restored /\ took' = took
          /\ OnlyRow(c, r) /\ rows'[c][r].status = "active"
      BY <2>1, CreateEffect
    <3>2. \A o \in Riders : rows[c][o].status = "none"
      BY <3>1 DEF RowsSound
    <3>. QED
      BY <1>0, <3>1, <3>2, SameMarksKeep DEF OnlyRow, CrewBecomes
  <2>2. CASE Join(r, c)
    BY <1>0, <2>2, SameMarksKeep, JoinEffect DEF OnlyCrew, Stays
  <2>3. CASE Leave(r, c) /\ ~LastOut(c, r)
    BY <1>a, <2>3, SameMarksKeep, LeaveEffect DEF OnlyRow, Stays
  <2>4. CASE Claim(r, c)
    <3>1. PICK leader \in SittingLeader(c) :
             /\ Eligible(c, r, leader)
             /\ \A d \in CrewIds, o \in Riders :
                   /\ rows'[d][o].status = rows[d][o].status
                   /\ d # c \/ o \notin leader \cup {r} => rows'[d][o].role = rows[d][o].role
      BY <2>4, ClaimEffect
    <3>2. \A o \in leader \cup {r} : Live(c, o) /\ o \in Riders
      BY <3>1 DEF SittingLeader, LeadersIn, Holds, Eligible, Senior, ActiveIn, Active
    <3>3. \A d \in CrewIds, o \in Riders :
             rows[d][o].status \in Folded => rows'[d][o].role = rows[d][o].role
      BY <1>a, <3>1, <3>2
    <3>. QED
      BY <2>4, <3>1, <3>3, SameMarksKeep, ClaimEffect DEF Stays
  <2>5. ASSUME NEW kind \in DOMAIN Seen, NoticeSeen(r, c, kind)
        PROVE  FoldMarks'
    <3>1. Seen[kind] \in Folded <=> kind \in Folded
      BY <1>0 DEF Seen
    <3>. QED
      BY <1>0, <2>5, <3>1, SameMarksKeep, NoticeSeenEffect DEF OnlyRow, Seen, Stays
  <2>. QED
    BY <1>3, <2>1, <2>2, <2>3, <2>4, <2>5 DEF OfRider
<1>4. ASSUME NEW c \in CrewIds, NEW a \in Riders, NEW r \in Riders, RosterStep(a, c, r)
      PROVE  FoldMarks'
  <2>1. CASE Accept(a, c, r)
    BY <1>0, <2>1, SameMarksKeep, AcceptEffect DEF OnlyRow, Stays, Powered
  <2>2. CASE Decline(a, c, r) \/ Remove(a, c, r)
    BY <1>0, <2>2, SameMarksKeep, TurnedAwayEffect DEF OnlyRow, Stays, Powered
  <2>3. ASSUME NEW role \in Roles, SetRole(a, c, r, role)
        PROVE  FoldMarks'
    BY <1>a, <2>3, SameMarksKeep, SetRoleEffect DEF Stays, Powered, Active
  <2>. QED
    BY <1>4, <2>1, <2>2, <2>3 DEF RosterStep
<1>5. ASSUME NEW c \in CrewIds, NEW by \in SUBSET Riders, FoldStep(c, by)
      PROVE  FoldMarks'
  <2>1. /\ CrewBecomes(c, "folded") /\ OnlyCrew(c) /\ restored' = restored
        /\ \A o \in Riders : rows'[c][o].role = rows[c][o].role
        /\ \A o \in Riders : rows'[c][o].status = IF ~Live(c, o) THEN rows[c][o].status
                                                  ELSE IF o \in by THEN "disbanded_seen"
                                                  ELSE "disbanded"
        /\ \A d \in CrewIds : took'[d] =
              IF d = c /\ crew[c] # "folded"
              THEN [members |-> ActiveIn(c), waiting |-> LiveIn(c) \ ActiveIn(c)]
              ELSE took[d]
    BY <1>5, FoldEffect DEF FoldStep
  <2>2. CASE crew[c] = "folded"
    <3>1. \A o \in Riders : rows'[c][o].status = rows[c][o].status
      BY <1>a, <2>1, <2>2
    <3>. QED
      BY <2>1, <2>2, <3>1, SameMarksKeep DEF OnlyCrew, CrewBecomes
  <2>3. CASE crew[c] # "folded"
    <3>1. \A d \in CrewIds \ {c} : /\ took'[d] = took[d] /\ crew'[d] = crew[d]
                                   /\ Marked(d)' = Marked(d)
                                   /\ \A o \in Riders : rows'[d][o] = rows[d][o]
      BY <2>1 DEF OnlyCrew, CrewBecomes, Marked
    <3>2. \A o \in LiveIn(c) : rows'[c][o].status \in Folded
      BY <1>0, <2>1 DEF LiveIn
    <3>3. took'[c].members \cup took'[c].waiting \subseteq LiveIn(c)
      <4>1. took'[c] = [members |-> ActiveIn(c), waiting |-> LiveIn(c) \ ActiveIn(c)]
        BY <2>1, <2>3
      <4>2. ActiveIn(c) \subseteq LiveIn(c)
        BY DEF ActiveIn, LiveIn, Active
      <4>. QED
        BY <4>1, <4>2
    <3>4. Marked(c)' \subseteq Marked(c) \cup LiveIn(c)
      BY <1>0, <2>1 DEF Marked, LiveIn
    <3>5. ASSUME restored[c] = 0, NEW l \in Marked(c)', NEW m \in Marked(c)',
                 rows'[c][l].role = "leader", rows'[c][m].role = "leader"
          PROVE  l = m
      <4>1. Marked(c) = {}
        BY <2>3, <3>5 DEF FoldMarks
      <4>2. l \in LeadersIn(c) /\ m \in LeadersIn(c)
        BY <2>1, <3>4, <3>5, <4>1 DEF LeadersIn, LiveIn, Holds
      <4>. QED
        BY <3>5, <4>2 DEF SoleLeader
    <3>6. ASSUME NEW d \in CrewIds \ {c}
          PROVE  /\ crew'[d] = "folded" => \A r \in took'[d].members \cup took'[d].waiting :
                      rows'[d][r].status \in Folded \cup {"none"}
                 /\ restored'[d] = 0 /\ crew'[d] # "folded" => Marked(d)' = {}
                 /\ restored'[d] = 0 => \A l, m \in Marked(d)' :
                      rows'[d][l].role = "leader" /\ rows'[d][m].role = "leader" => l = m
      <4>1. \A r \in took[d].members \cup took[d].waiting : r \in Riders
        BY DEF TypeOK
      <4>2. \A r \in Marked(d) : r \in Riders
        BY DEF Marked
      <4>. QED
        BY <2>1, <3>1, <4>1, <4>2 DEF FoldMarks
    <3>7. crew'[c] = "folded"
      BY <2>1 DEF CrewBecomes
    <3>. QED
      BY <2>1, <3>2, <3>3, <3>5, <3>6, <3>7 DEF FoldMarks
  <2>. QED
    BY <2>2, <2>3
<1>6. ASSUME NEW c \in CrewIds, Restore(c)
      PROVE  FoldMarks'
  <2>1. /\ CrewBecomes(c, "living") /\ OnlyCrew(c) /\ restored'[c] # 0
        /\ \A d \in CrewIds \ {c} : restored'[d] = restored[d] /\ took'[d] = took[d]
    BY <1>6, RestoreEffect DEF TypeOK
  <2>2. ASSUME NEW d \in CrewIds \ {c}
        PROVE  /\ crew'[d] = "folded" => \A r \in took'[d].members \cup took'[d].waiting :
                    rows'[d][r].status \in Folded \cup {"none"}
               /\ restored'[d] = 0 /\ crew'[d] # "folded" => Marked(d)' = {}
               /\ restored'[d] = 0 => \A l, m \in Marked(d)' :
                    rows'[d][l].role = "leader" /\ rows'[d][m].role = "leader" => l = m
    <3>1. \A r \in took[d].members \cup took[d].waiting : r \in Riders
      BY DEF TypeOK
    <3>2. crew'[d] = crew[d] /\ Marked(d)' = Marked(d) /\ Marked(d) \subseteq Riders
          /\ \A o \in Riders : rows'[d][o] = rows[d][o]
      BY <2>1 DEF OnlyCrew, CrewBecomes, Marked
    <3>. QED
      BY <2>1, <3>1, <3>2 DEF FoldMarks
  <2>. QED
    BY <2>1, <2>2 DEF FoldMarks, CrewBecomes
<1>. QED
    BY <1>1, <1>2, <1>3, <1>4, <1>5, <1>6, StepKinds

-----------------------------------------------------------------------------
LEMMA ActiveFinite ==
    ASSUME FewRows, NEW c \in CrewIds
    PROVE  IsFiniteSet(ActiveIn(c))
<1>1. ActiveIn(c) \subseteq Known(c)
    BY DEF ActiveIn, Active, Known
<1>. QED
    BY <1>1, FS_Subset DEF FewRows

LEMMA CapHeldStep ==
    ASSUME TypeOK, FewRows, LivingIffManned, CapHeld, [Next]_vars
    PROVE  CapHeld'
<1> DEFINE Below(d) == MaxMembers # 0 /\ restored'[d] = 0 => Cardinality(ActiveIn(d)') <= MaxMembers
<1>a. ASSUME NEW d \in CrewIds, ActiveIn(d)' \subseteq ActiveIn(d), restored'[d] = restored[d]
      PROVE  Below(d)
  <2>1. IsFiniteSet(ActiveIn(d)) /\ Cardinality(ActiveIn(d)') <= Cardinality(ActiveIn(d))
    BY <1>a, ActiveFinite, FS_Subset
  <2>2. Cardinality(ActiveIn(d)) \in Nat /\ Cardinality(ActiveIn(d)') \in Nat
    BY <2>1, <1>a, FS_Subset, FS_CardinalityType
  <2>3. ASSUME MaxMembers # 0, restored'[d] = 0
        PROVE  Cardinality(ActiveIn(d)) <= MaxMembers
    BY <1>a, <2>3 DEF CapHeld
  <2>. QED
    BY <2>1, <2>2, <2>3, NumbersAssumption
<1>b. ASSUME NEW d \in CrewIds, NEW r \in Riders, ActiveIn(d)' \subseteq ActiveIn(d) \cup {r},
             ~Full(d)
      PROVE  Below(d)
  <2>1. IsFiniteSet(ActiveIn(d)) /\ IsFiniteSet(ActiveIn(d) \cup {r})
    BY ActiveFinite, FS_AddElement
  <2>2. /\ Cardinality(ActiveIn(d)) \in Nat /\ Cardinality(ActiveIn(d)') \in Nat
        /\ Cardinality(ActiveIn(d) \cup {r}) \in Nat
        /\ Cardinality(ActiveIn(d)') <= Cardinality(ActiveIn(d) \cup {r})
        /\ Cardinality(ActiveIn(d) \cup {r}) <= Cardinality(ActiveIn(d)) + 1
    BY <2>1, <1>b, FS_AddElement, FS_Subset, FS_CardinalityType
  <2>. QED
    BY <1>b, <2>2, NumbersAssumption DEF Full
<1>c. (\A d \in CrewIds : Below(d)) => CapHeld'
    BY DEF CapHeld
<1>d. ASSUME \A d \in CrewIds : restored'[d] = restored[d],
             \A d \in CrewIds, o \in Riders : Active(d, o)' => Active(d, o)
      PROVE  CapHeld'
    BY <1>a, <1>c, <1>d DEF ActiveIn
<1>e. ASSUME NEW c \in CrewIds, NEW r \in Riders, ~Full(c),
             \A d \in CrewIds : restored'[d] = restored[d],
             \A d \in CrewIds, o \in Riders :
                d # c \/ o # r => (Active(d, o)' => Active(d, o))
      PROVE  CapHeld'
  <2>1. ActiveIn(c)' \subseteq ActiveIn(c) \cup {r}
    BY <1>e DEF ActiveIn
  <2>2. \A d \in CrewIds \ {c} : ActiveIn(d)' \subseteq ActiveIn(d)
    BY <1>e DEF ActiveIn
  <2>. QED
    BY <1>a, <1>b, <1>c, <1>e, <2>1, <2>2
<1> HIDE DEF Below
<1> USE DEF Active, Live
<1>1. CASE Idle
    BY <1>1, <1>d DEF Idle, AllSame, Same, Stays
<1>2. CASE Sweep
    BY <1>2, <1>d, SweepEffect DEF NoRow, Stays
<1>3. ASSUME NEW c \in CrewIds, NEW r \in Riders, OfRider(r, c)
      PROVE  CapHeld'
  <2>1. CASE Create(r, c)
    <3>1. ActiveIn(c) = {}
      BY <2>1, CreateEffect DEF LivingIffManned, LiveIn, ActiveIn
    <3>2. ~Full(c)
      BY <3>1, FS_EmptySet, NumbersAssumption DEF Full
    <3>3. \A d \in CrewIds, o \in Riders : d # c \/ o # r => (Active(d, o)' => Active(d, o))
      BY <2>1, CreateEffect DEF OnlyRow
    <3>. QED
      BY <2>1, <1>e, <3>2, <3>3, CreateEffect
  <2>2. CASE Join(r, c)
    <3>1. \A d \in CrewIds, o \in Riders : d # c \/ o # r => (Active(d, o)' => Active(d, o))
      BY <2>2, JoinEffect DEF OnlyCrew
    <3>. QED
      BY <2>2, <1>e, <3>1, JoinEffect DEF Stays
  <2>3. CASE Leave(r, c) /\ ~LastOut(c, r)
    BY <2>3, <1>d, LeaveEffect DEF OnlyRow, Stays
  <2>4. CASE Claim(r, c)
    BY <2>4, <1>d, ClaimEffect DEF Stays
  <2>5. ASSUME NEW kind \in DOMAIN Seen, NoticeSeen(r, c, kind)
        PROVE  CapHeld'
    BY <2>5, <1>d, NoticeSeenEffect DEF OnlyRow, Seen, Stays
  <2>. QED
    BY <1>3, <2>1, <2>2, <2>3, <2>4, <2>5 DEF OfRider
<1>4. ASSUME NEW c \in CrewIds, NEW a \in Riders, NEW r \in Riders, RosterStep(a, c, r)
      PROVE  CapHeld'
  <2>1. CASE Accept(a, c, r)
    <3>1. \A d \in CrewIds, o \in Riders : d # c \/ o # r => (Active(d, o)' => Active(d, o))
      BY <2>1, AcceptEffect DEF OnlyRow
    <3>. QED
      BY <2>1, <1>e, <3>1, AcceptEffect DEF Stays
  <2>2. CASE Decline(a, c, r) \/ Remove(a, c, r)
    BY <2>2, <1>d, TurnedAwayEffect DEF OnlyRow, Stays
  <2>3. ASSUME NEW role \in Roles, SetRole(a, c, r, role)
        PROVE  CapHeld'
    BY <2>3, <1>d, SetRoleEffect DEF Stays
  <2>. QED
    BY <1>4, <2>1, <2>2, <2>3 DEF RosterStep
<1>5. ASSUME NEW c \in CrewIds, NEW by \in SUBSET Riders, FoldStep(c, by)
      PROVE  CapHeld'
  <2>1. restored' = restored /\ OnlyCrew(c) /\ \A o \in Riders : ~rows'[c][o].live
    BY <1>5, FoldEffect DEF FoldStep
  <2>. QED
    BY <2>1, <1>d DEF OnlyCrew
<1>6. ASSUME NEW c \in CrewIds, Restore(c)
      PROVE  CapHeld'
  <2>1. /\ OnlyCrew(c) /\ restored'[c] # 0
        /\ \A d \in CrewIds \ {c} : restored'[d] = restored[d]
    BY <1>6, RestoreEffect DEF TypeOK
  <2>2. \A d \in CrewIds \ {c} : ActiveIn(d)' \subseteq ActiveIn(d)
    BY <2>1 DEF OnlyCrew, ActiveIn
  <2>3. Below(c)
    BY <2>1 DEF Below
  <2>. QED
    BY <1>a, <1>c, <2>1, <2>2, <2>3
<1>. QED
    BY <1>1, <1>2, <1>3, <1>4, <1>5, <1>6, StepKinds

-----------------------------------------------------------------------------
IInv ==
    /\ TypeOK /\ RowsSound /\ ElderOrder /\ FewRows
    /\ LivingIffManned /\ FoldMarks /\ SoleLeader /\ CapHeld

LEMMA IInvInit == Init => IInv
<1>. SUFFICES ASSUME Init
              PROVE  IInv
    OBVIOUS
<1>1. TypeOK
    BY InitType
<1>2. /\ \A c \in CrewIds : crew[c] = "none" /\ restored[c] = 0
      /\ \A c \in CrewIds, r \in Riders : rows[c][r] = NoRow
    BY DEF Init
<1>3. \A c \in CrewIds, r \in Riders :
         rows[c][r].status = "none" /\ ~rows[c][r].live /\ rows[c][r].elders = {}
    BY <1>2 DEF NoRow
<1>4. RowsSound
    BY <1>3 DEF RowsSound, Live, Declined
<1>5. \A c \in CrewIds : Known(c) = {} /\ Marked(c) = {} /\ LiveIn(c) = {} /\ LeadersIn(c) = {}
                         /\ ActiveIn(c) = {}
    BY <1>3 DEF Known, Marked, Folded, LiveIn, LeadersIn, Holds, Live, ActiveIn, Active
<1>6. ElderOrder
    BY <1>3, <1>5 DEF ElderOrder
<1>7. FewRows /\ CapHeld
    BY <1>5, FS_EmptySet, NumbersAssumption DEF FewRows, CapHeld
<1>8. LivingIffManned /\ FoldMarks /\ SoleLeader
    BY <1>2, <1>5 DEF LivingIffManned, FoldMarks, SoleLeader
<1>. QED
    BY <1>1, <1>4, <1>6, <1>7, <1>8 DEF IInv

LEMMA IInvStep == IInv /\ [Next]_vars => IInv'
BY NextType, RowsSoundStep, ElderOrderStep, FewRowsStep, LivingStep, FoldMarksStep,
   SoleLeaderStep, CapHeldStep DEF IInv

\* The inductive invariant holds in every state the crews reach.
THEOREM CrewsSound == Spec => []IInv
BY IInvInit, IInvStep, PTL DEF Spec

-----------------------------------------------------------------------------
(* What the invariant implies. *)

\* A crew is living exactly while it has members, whoever leaves, is removed,
\* folds it or restores it.
THEOREM LivingCorrect == Spec => []LivingIffManned
<1>1. IInv => LivingIffManned
    BY DEF IInv
<1>. QED
    BY <1>1, CrewsSound, PTL

\* The member cap holds in every crew that was never restored: join and accept
\* both count before they let a rider in.
THEOREM CapCorrect == Spec => []CapHeld
<1>1. IInv => CapHeld
    BY DEF IInv
<1>. QED
    BY <1>1, CrewsSound, PTL

\* A rider who has only asked to join holds no office, so the checks of /edit
\* and /newcode, which read the role and not the status, let no such rider in.
THEOREM PendingCorrect == Spec => []PendingHoldsNoOffice
<1>1. IInv => PendingHoldsNoOffice
    BY DEF IInv, RowsSound, PendingHoldsNoOffice, Active
<1>. QED
    BY <1>1, CrewsSound, PTL

\* A crew has one leader at most until a second restore, whoever hands over,
\* takes over, leaves or comes back.
THEOREM OneLeaderCorrect == Spec => []OneLeader
<1>1. ASSUME IInv, NEW c \in CrewIds, restored[c] <= 1
      PROVE  Cardinality(LeadersIn(c)) <= 1
  <2>1. \A l, m \in LeadersIn(c) : l = m
    BY <1>1 DEF IInv, SoleLeader
  <2>2. LeadersIn(c) = {} \/ \E l : LeadersIn(c) = {l}
    BY <2>1
  <2>3. Cardinality({}) = 0 /\ \A l : Cardinality({l}) = 1
    BY FS_EmptySet, FS_Singleton
  <2>4. LeadersIn(c) = {} => Cardinality(LeadersIn(c)) <= 1
    BY <2>3
  <2>5. ASSUME NEW l, LeadersIn(c) = {l}
        PROVE  Cardinality(LeadersIn(c)) <= 1
    <3>1. Cardinality(LeadersIn(c)) = 1
      BY <2>3, <2>5
    <3>. QED
      BY <3>1
  <2>. QED
    BY <2>2, <2>4, <2>5
<1>2. IInv => OneLeader
    BY <1>1 DEF OneLeader
<1>. QED
    BY <1>2, CrewsSound, PTL

\* Among any of the riders a crew has rows of there is one who joined first.
LEMMA SeniorExists ==
    ASSUME ElderOrder, FewRows, NEW c \in CrewIds, NEW S, S \subseteq Known(c), S # {}
    PROVE  \E r \in S : Senior(c, S, r)
<1> DEFINE older(r) == rows[c][r].elders \cap S
           T == {older(r) : r \in S}
<1>1. IsFiniteSet(S) /\ S \subseteq Riders
    BY FS_Subset DEF FewRows, Known
<1>2. T \subseteq SUBSET S /\ T # {}
    OBVIOUS
<1>3. IsWellFoundedOn(StrictSubsetOrdering(S), SUBSET S)
    BY <1>1, FS_StrictSubsetOrderingWellFounded, FS_FiniteSubsetsOfFinite
<1>4. PICK x \in T : \A y \in T : <<y, x>> \notin StrictSubsetOrdering(S)
    BY <1>2, <1>3, WFMin
<1>5. PICK r \in S : x = older(r)
    BY <1>4
<1>6. ASSUME NEW s \in older(r)
      PROVE  FALSE
  <2>1. s \in S /\ s \in rows[c][r].elders /\ r \in Riders /\ s \in Riders
    BY <1>1, <1>6
  <2>2. rows[c][s].elders \subseteq rows[c][r].elders /\ s \notin rows[c][s].elders
    BY <2>1 DEF ElderOrder
  <2>3. older(s) \subseteq older(r) /\ s \notin older(s) /\ s \in older(r)
    BY <2>1, <2>2
  <2>4. <<older(s), older(r)>> \in StrictSubsetOrdering(S)
    BY <2>3 DEF StrictSubsetOrdering
  <2>. QED
    BY <1>4, <1>5, <2>1, <2>4
<1>. QED
    BY <1>5, <1>6 DEF Senior

\* A living crew that nobody leads, or whose leader has gone quiet, can be taken
\* over by one of its other members, as long as there is any.
THEOREM ClaimCorrect == Spec => []QuietCrewCanBeClaimed
<1>1. ASSUME IInv, NEW c \in CrewIds, restored[c] <= 1, Quiet(c), Others(c) # {}
      PROVE  \E l \in SittingLeader(c), r \in Others(c) : Eligible(c, r, l)
  <2>1. PICK l \in SittingLeader(c) : l = LeadersIn(c)
    <3>1. \A m, n \in LeadersIn(c) : m = n
      BY <1>1 DEF IInv, SoleLeader
    <3>. QED
      BY <3>1 DEF SittingLeader
  <2>2. Others(c) \subseteq Known(c)
    BY DEF Others, ActiveIn, Active, Known
  <2>3. PICK r \in Others(c) : Senior(c, Others(c), r)
    BY <1>1, <2>2, SeniorExists DEF IInv
  <2>4. Eligible(c, r, l)
    BY <1>1, <2>1, <2>3 DEF Eligible, Quiet, Others
  <2>. QED
    BY <2>4
<1>2. IInv => QuietCrewCanBeClaimed
    BY <1>1 DEF QuietCrewCanBeClaimed
<1>. QED
    BY <1>2, CrewsSound, PTL

-----------------------------------------------------------------------------
(* What no step may do. *)

\* The front door, an answer and a claim all respect a running cooldown.
LEMMA CooldownStep ==
    ASSUME TypeOK, [Next]_vars, NEW r \in Riders, NEW c \in CrewIds,
           Live(c, r)', ~Live(c, r), Cooling(r)
    PROVE  restored'[c] = restored[c] + 1
<1> USE DEF Live
<1>1. CASE Idle
    BY <1>1 DEF Idle, AllSame, Same
<1>2. CASE Sweep
    BY <1>2, SweepEffect DEF NoRow
<1>3. ASSUME NEW d \in CrewIds, NEW o \in Riders, OfRider(o, d)
      PROVE  FALSE
  <2>1. ~Create(o, d)
    BY CreateEffect DEF OnlyRow
  <2>2. ~Join(o, d)
    BY JoinEffect DEF OnlyCrew
  <2>3. ~(Leave(o, d) /\ ~LastOut(d, o))
    BY LeaveEffect DEF OnlyRow
  <2>4. ~Claim(o, d)
    BY ClaimEffect
  <2>5. \A kind \in DOMAIN Seen : ~NoticeSeen(o, d, kind)
    BY NoticeSeenEffect DEF OnlyRow
  <2>. QED
    BY <1>3, <2>1, <2>2, <2>3, <2>4, <2>5 DEF OfRider
<1>4. ASSUME NEW d \in CrewIds, NEW a \in Riders, NEW o \in Riders, RosterStep(a, d, o)
      PROVE  FALSE
  <2>1. ~Accept(a, d, o)
    BY AcceptEffect DEF OnlyRow, Reconsider
  <2>2. ~Decline(a, d, o) /\ ~Remove(a, d, o)
    BY TurnedAwayEffect DEF OnlyRow
  <2>3. \A role \in Roles : ~SetRole(a, d, o, role)
    BY SetRoleEffect
  <2>. QED
    BY <1>4, <2>1, <2>2, <2>3 DEF RosterStep
<1>5. ASSUME NEW d \in CrewIds, NEW by \in SUBSET Riders, FoldStep(d, by)
      PROVE  FALSE
  <2>1. OnlyCrew(d) /\ \A o \in Riders : ~rows'[d][o].live
    BY <1>5, FoldEffect DEF FoldStep
  <2>. QED
    BY <2>1 DEF OnlyCrew
<1>6. ASSUME NEW d \in CrewIds, Restore(d)
      PROVE  restored'[c] = restored[c] + 1
    BY <1>6, RestoreEffect DEF OnlyCrew
<1>. QED
    BY <1>1, <1>2, <1>3, <1>4, <1>5, <1>6, StepKinds

\* A rider whose cooldown runs comes into a crew by a restore only.
THEOREM CooldownCorrect == Spec => CooldownServed
<1>1. TypeOK /\ [Next]_vars =>
        \A r \in Riders, c \in CrewIds :
            Live(c, r)' /\ ~Live(c, r) /\ Cooling(r) => restored'[c] = restored[c] + 1
    BY CooldownStep
<1>. QED
    BY <1>1, TypeCorrect, PTL DEF Spec, CooldownServed

\* A restore brings back, or has a reason not to, everybody its fold took.
LEMMA RestoreStep ==
    ASSUME IInv, [Next]_vars, NEW c \in CrewIds, Restored(c), crew[c] = "folded",
           NEW r \in took[c].members \cup took[c].waiting,
           ~HasCrew(r), rows[c][r].status # "none"
    PROVE  Live(c, r)'
<1>1. TypeOK /\ FoldMarks
    BY DEF IInv
<1>2. Restore(c)
  <2>1. restored[c] \in Nat /\ restored' # restored
    BY <1>1 DEF TypeOK, Restored
  <2>2. ~Idle /\ ~Sweep
    BY <1>1, <2>1, SweepEffect DEF Idle, Stays
  <2>3. ASSUME NEW d \in CrewIds, NEW o \in Riders PROVE ~OfRider(o, d)
    BY <1>1, <2>1, CreateEffect, JoinEffect, LeaveEffect, ClaimEffect, NoticeSeenEffect
      DEF OfRider, Stays, LastOut
  <2>4. ASSUME NEW d \in CrewIds, NEW a \in Riders, NEW o \in Riders PROVE ~RosterStep(a, d, o)
    BY <1>1, <2>1, AcceptEffect, TurnedAwayEffect, SetRoleEffect DEF RosterStep, Stays
  <2>5. \A d \in CrewIds, by \in SUBSET Riders : ~FoldStep(d, by)
    BY <2>1 DEF FoldStep
  <2>6. PICK d \in CrewIds : Restore(d)
    BY <1>1, <2>2, <2>3, <2>4, <2>5, StepKinds
  <2>7. d = c
    BY <1>1, <2>1, <2>6, RestoreEffect DEF Restored
  <2>. QED
    BY <2>6, <2>7
<1>3. r \in Riders /\ r \in Marked(c)
    BY <1>1 DEF TypeOK, FoldMarks, Marked
<1>4. r \in Coming(c)
    BY <1>3 DEF Coming, FellWith
<1>. QED
    BY <1>1, <1>2, <1>3, <1>4, RestoreEffect DEF Live

\* A restored crew gets back everybody its fold took, except a rider who is in
\* another crew by then and one whose row was swept.
THEOREM RestoreCorrect == Spec => RestoreIsComplete
<1>1. IInv /\ [Next]_vars =>
        \A c \in CrewIds : Restored(c) /\ crew[c] = "folded" =>
            \A r \in took[c].members \cup took[c].waiting :
                HasCrew(r) \/ rows[c][r].status = "none" \/ Live(c, r)'
    BY RestoreStep
<1>. QED
    BY <1>1, CrewsSound, PTL DEF Spec, RestoreIsComplete

\* A crew that was never restored has marked rows of those its fold took alone.
FirstMarks ==
    \A c \in CrewIds :
        crew[c] = "folded" /\ restored[c] = 0 =>
            Marked(c) \subseteq took[c].members \cup took[c].waiting

\* Nothing but a fold marks a row.
LEMMA MarksShrink ==
    ASSUME TypeOK, RowsSound, [Next]_vars, ~\E c \in CrewIds : Restore(c),
           ~\E c \in CrewIds, by \in SUBSET Riders : FoldStep(c, by)
    PROVE  /\ restored' = restored /\ took' = took
           /\ \A d \in CrewIds : /\ crew'[d] = "folded" => crew[d] = "folded"
                                 /\ Marked(d)' \subseteq Marked(d)
<1>0. Folded = {"disbanded", "disbanded_seen"} /\ Declined = {"declined", "declined_seen"}
    BY DEF Folded, Declined
<1>1. SUFFICES /\ restored' = restored /\ took' = took
               /\ \A d \in CrewIds : crew'[d] = "folded" => crew[d] = "folded"
               /\ \A d \in CrewIds, o \in Riders :
                      rows'[d][o].status \in Folded => rows[d][o].status \in Folded
    BY DEF Marked
<1>2. CASE Idle
    BY <1>2 DEF Idle, AllSame, Same, Stays
<1>3. CASE Sweep
    BY <1>0, <1>3, SweepEffect DEF NoRow, Stays
<1>4. ASSUME NEW c \in CrewIds, NEW r \in Riders, OfRider(r, c)
      PROVE  /\ restored' = restored /\ took' = took
             /\ \A d \in CrewIds : crew'[d] = "folded" => crew[d] = "folded"
             /\ \A d \in CrewIds, o \in Riders :
                    rows'[d][o].status \in Folded => rows[d][o].status \in Folded
  <2>1. CASE Create(r, c)
      BY <1>0, <2>1, CreateEffect DEF OnlyRow, CrewBecomes
  <2>2. CASE Join(r, c)
      BY <1>0, <2>2, JoinEffect DEF OnlyCrew, Stays
  <2>3. CASE Leave(r, c) /\ ~LastOut(c, r)
      BY <2>3, LeaveEffect DEF OnlyRow, Stays
  <2>4. CASE Claim(r, c)
      BY <2>4, ClaimEffect DEF Stays
  <2>5. ASSUME NEW kind \in DOMAIN Seen, NoticeSeen(r, c, kind)
        PROVE  /\ Stays
               /\ \A d \in CrewIds, o \in Riders :
                      rows'[d][o].status \in Folded => rows[d][o].status \in Folded
      BY <1>0, <2>5, NoticeSeenEffect DEF OnlyRow, Seen
  <2>. QED
      BY <1>4, <2>1, <2>2, <2>3, <2>4, <2>5 DEF OfRider, Stays
<1>5. ASSUME NEW c \in CrewIds, NEW a \in Riders, NEW r \in Riders, RosterStep(a, c, r)
      PROVE  /\ Stays
             /\ \A d \in CrewIds, o \in Riders :
                    rows'[d][o].status \in Folded => rows[d][o].status \in Folded
  <2>1. CASE Accept(a, c, r)
      BY <1>0, <2>1, AcceptEffect DEF OnlyRow
  <2>2. CASE Decline(a, c, r) \/ Remove(a, c, r)
      BY <1>0, <2>2, TurnedAwayEffect DEF OnlyRow
  <2>3. ASSUME NEW role \in Roles, SetRole(a, c, r, role)
        PROVE  /\ Stays
               /\ \A d \in CrewIds, o \in Riders :
                      rows'[d][o].status \in Folded => rows[d][o].status \in Folded
      BY <2>3, SetRoleEffect
  <2>. QED
      BY <1>5, <2>1, <2>2, <2>3 DEF RosterStep
<1>. QED
    BY <1>2, <1>3, <1>4, <1>5, StepKinds DEF Stays

LEMMA FirstMarksStep ==
    ASSUME IInv, FirstMarks, [Next]_vars
    PROVE  FirstMarks'
<1>0. TypeOK /\ RowsSound /\ LivingIffManned /\ FoldMarks
    BY DEF IInv
<1>1. CASE /\ ~\E c \in CrewIds : Restore(c)
           /\ ~\E c \in CrewIds, by \in SUBSET Riders : FoldStep(c, by)
    BY <1>0, <1>1, MarksShrink DEF FirstMarks
<1>2. ASSUME NEW c \in CrewIds, Restore(c) PROVE FirstMarks'
  <2>1. CrewBecomes(c, "living") /\ OnlyCrew(c)
        /\ \A d \in CrewIds \ {c} : restored'[d] = restored[d] /\ took'[d] = took[d]
      BY <1>0, <1>2, RestoreEffect
  <2>2. \A d \in CrewIds \ {c} : Marked(d)' = Marked(d)
      BY <2>1 DEF OnlyCrew, Marked
  <2>. QED
      BY <2>1, <2>2 DEF FirstMarks, CrewBecomes
<1>3. ASSUME NEW c \in CrewIds, NEW by \in SUBSET Riders, FoldStep(c, by) PROVE FirstMarks'
  <2>1. /\ CrewBecomes(c, "folded") /\ OnlyCrew(c) /\ restored' = restored
        /\ \A o \in Riders : rows'[c][o].status \in Folded =>
               Live(c, o) \/ rows[c][o].status \in Folded
        /\ \A d \in CrewIds : took'[d] =
              IF d = c /\ crew[c] # "folded"
              THEN [members |-> ActiveIn(c), waiting |-> LiveIn(c) \ ActiveIn(c)]
              ELSE took[d]
      BY <1>0, <1>3, FoldEffect DEF FoldStep
  <2>2. Marked(c)' \subseteq Marked(c) \cup LiveIn(c)
      BY <2>1 DEF Marked, LiveIn
  <2>3. \A d \in CrewIds \ {c} : Marked(d)' = Marked(d)
      BY <2>1 DEF OnlyCrew, Marked
  <2>4. CASE crew[c] = "folded"
    <3>1. LiveIn(c) = {}
        BY <1>0, <2>4 DEF LivingIffManned
    <3>. QED
        BY <2>1, <2>2, <2>3, <2>4, <3>1 DEF FirstMarks, CrewBecomes
  <2>5. CASE crew[c] # "folded"
    <3>1. restored[c] = 0 => Marked(c) = {}
        BY <1>0, <2>5 DEF FoldMarks
    <3>2. LiveIn(c) \subseteq took'[c].members \cup took'[c].waiting
        BY <2>1, <2>5
    <3>. QED
        BY <2>1, <2>2, <2>3, <3>1, <3>2 DEF FirstMarks, CrewBecomes
  <2>. QED
      BY <2>4, <2>5
<1>. QED
    BY <1>1, <1>2, <1>3

\* The first restore of a crew brings back those its fold took "and nobody else",
\* as long as the row of one of them is still there: who comes back otherwise has
\* come by the guess that is made when the sweep has left no marked row.
FirstRestoreIsExact ==
    [][\A c \in CrewIds, r \in Riders :
        BroughtBack(c, r) /\ restored[c] = 0 /\ Marked(c) # {} =>
            r \in took[c].members \cup took[c].waiting]_vars

LEMMA FirstRestoreStep ==
    ASSUME IInv, FirstMarks, [Next]_vars, NEW c \in CrewIds, NEW r \in Riders,
           BroughtBack(c, r), restored[c] = 0, Marked(c) # {}
    PROVE  r \in took[c].members \cup took[c].waiting
<1>0. TypeOK /\ RowsSound /\ LivingIffManned
    BY DEF IInv
<1>1. crew[c] = "folded" /\ restored'[c] # restored[c] /\ rows'[c][r].live
  <2>1. restored[c] \in Nat
      BY <1>0 DEF TypeOK
  <2>. QED
      BY <2>1 DEF BroughtBack, Restored, Live
<1>2. PICK d \in CrewIds : Restore(d)
    BY <1>0, <1>1, MarksShrink DEF FoldStep
<1>3. d = c
    BY <1>0, <1>1, <1>2, RestoreEffect
<1>4. ~Live(c, r)
    BY <1>0, <1>1 DEF LivingIffManned, LiveIn
<1>5. r \in Coming(c)
    BY <1>0, <1>1, <1>2, <1>3, <1>4, RestoreEffect
<1>6. r \in Marked(c)
    BY <1>5 DEF Coming, FellWith
<1>. QED
    BY <1>1, <1>6 DEF FirstMarks

THEOREM FirstRestoreCorrect == Spec => FirstRestoreIsExact
<1>1. Init => FirstMarks
    BY DEF Init, FirstMarks
<1>2. IInv /\ FirstMarks /\ [Next]_vars => FirstMarks'
    BY FirstMarksStep
<1>3. IInv /\ FirstMarks /\ [Next]_vars =>
        \A c \in CrewIds, r \in Riders :
            BroughtBack(c, r) /\ restored[c] = 0 /\ Marked(c) # {} =>
                r \in took[c].members \cup took[c].waiting
    BY FirstRestoreStep
<1>. QED
    BY <1>1, <1>2, <1>3, CrewsSound, PTL DEF Spec, FirstRestoreIsExact

\* A sole leader seen lately who stays in the crew is the leader still, or an
\* officer under the one who was named.
LEMMA LeaderStep ==
    ASSUME IInv, [Next]_vars, NEW c \in CrewIds, NEW l \in Riders,
           LeadersIn(c) = {l}, rows[c][l].seen < IdleLeader, Live(c, l)'
    PROVE  \/ rows'[c][l].role = "leader"
           \/ rows'[c][l].role = "officer" /\ \E r \in Riders \ {l} : Holds(c, r, "leader")'
<1>0. /\ TypeOK /\ RowsSound /\ LivingIffManned
      /\ rows[c][l].live /\ rows[c][l].role = "leader"
      /\ \A r \in Riders : rows[c][r].live /\ rows[c][r].role = "leader" => r = l
    BY DEF IInv, LeadersIn, Holds, Live
<1> USE <1>0 DEF Live
<1>1. CASE Idle
    BY <1>1 DEF Idle, AllSame, Same
<1>2. CASE Sweep
    BY <1>2, SweepEffect DEF NoRow
<1>3. ASSUME NEW d \in CrewIds, NEW r \in Riders, OfRider(r, d)
      PROVE  rows'[c][l].role = "leader"
  <2>1. CASE Create(r, d)
    <3>1. c # d
      BY <2>1, CreateEffect DEF LivingIffManned, LiveIn
    <3>. QED
      BY <2>1, <3>1, CreateEffect DEF OnlyRow
  <2>2. CASE Join(r, d)
    <3>1. r # l
      BY <2>2, JoinEffect DEF HasCrew
    <3>. QED
      BY <2>2, <3>1, JoinEffect DEF OnlyCrew
  <2>3. CASE Leave(r, d) /\ ~LastOut(d, r)
    BY <2>3, LeaveEffect DEF OnlyRow
  <2>4. CASE Claim(r, d)
    <3>1. PICK leader \in SittingLeader(d) :
             /\ Eligible(d, r, leader)
             /\ \A e \in CrewIds, o \in Riders :
                   rows'[e][o].role = IF e = d /\ o = r THEN "leader"
                                      ELSE IF e = d /\ o \in leader THEN "member"
                                      ELSE rows[e][o].role
      BY <2>4, ClaimEffect
    <3>2. c # d
      <4>1. rows[c][l].seen \in Int
        BY DEF TypeOK, Row
      <4>2. d = c => leader = {l}
        BY <3>1 DEF SittingLeader
      <4>. QED
        BY <3>1, <4>1, <4>2, NumbersAssumption DEF Eligible
    <3>. QED
      BY <3>1, <3>2
  <2>5. ASSUME NEW kind \in DOMAIN Seen, NoticeSeen(r, d, kind)
        PROVE  rows'[c][l].role = "leader"
    BY <2>5, NoticeSeenEffect DEF OnlyRow
  <2>. QED
    BY <1>3, <2>1, <2>2, <2>3, <2>4, <2>5 DEF OfRider
<1>4. ASSUME NEW d \in CrewIds, NEW a \in Riders, NEW r \in Riders, RosterStep(a, d, r)
      PROVE  \/ rows'[c][l].role = "leader"
             \/ rows'[c][l].role = "officer" /\ \E o \in Riders \ {l} : Holds(c, o, "leader")'
  <2>1. CASE Accept(a, d, r)
    BY <2>1, AcceptEffect DEF OnlyRow
  <2>2. CASE Decline(a, d, r) \/ Remove(a, d, r)
    BY <2>2, TurnedAwayEffect DEF OnlyRow
  <2>3. ASSUME NEW role \in Roles, SetRole(a, d, r, role)
        PROVE  \/ rows'[c][l].role = "leader"
               \/ rows'[c][l].role = "officer" /\ \E o \in Riders \ {l} : Holds(c, o, "leader")'
    <3>1. CASE d # c \/ (r # l /\ a # l)
      BY <2>3, <3>1, SetRoleEffect
    <3>2. CASE d = c /\ r # l /\ a = l
      <4>1. /\ rows'[c][r].role = role /\ rows'[c][r].live
            /\ rows'[c][l].role = HandOver(rows[c][l], role)
        BY <2>3, <3>2, SetRoleEffect DEF Active
      <4>. QED
        BY <3>2, <4>1 DEF HandOver, Holds
    <3>3. CASE d = c /\ r = l
      <4>1. rows'[c][l].role = role /\ MayRank(a, c, l, role) /\ Powered(c, a)
        BY <2>3, <3>3, SetRoleEffect
      <4>2. role = "leader"
        BY <4>1 DEF MayRank, Powered, Active
      <4>. QED
        BY <4>1, <4>2
    <3>. QED
      BY <3>1, <3>2, <3>3
  <2>. QED
    BY <1>4, <2>1, <2>2, <2>3 DEF RosterStep
<1>5. ASSUME NEW d \in CrewIds, NEW by \in SUBSET Riders, FoldStep(d, by)
      PROVE  rows'[c][l].role = "leader"
  <2>1. OnlyCrew(d) /\ \A o \in Riders : ~rows'[d][o].live
    BY <1>5, FoldEffect DEF FoldStep
  <2>. QED
    BY <2>1 DEF OnlyCrew
<1>6. ASSUME NEW d \in CrewIds, Restore(d)
      PROVE  rows'[c][l].role = "leader"
  <2>1. OnlyCrew(d) /\ \A o \in Riders : rows'[d][o].role \in {"leader", rows[d][o].role}
    BY <1>6, RestoreEffect
  <2>. QED
    BY <2>1 DEF OnlyCrew
<1>. QED
    BY <1>1, <1>2, <1>3, <1>4, <1>5, <1>6, StepKinds

\* Nobody else's request deposes a sole leader who was seen lately.
THEOREM LeaderCorrect == Spec => LeaderNotDeposed
<1>1. IInv /\ [Next]_vars =>
        \A c \in CrewIds, l \in Riders :
            LeadersIn(c) = {l} /\ rows[c][l].seen < IdleLeader /\ Live(c, l)' =>
                \/ rows'[c][l].role = "leader"
                \/ rows'[c][l].role = "officer" /\ \E r \in Riders \ {l} : Holds(c, r, "leader")'
    BY LeaderStep
<1>. QED
    BY <1>1, CrewsSound, PTL DEF Spec, LeaderNotDeposed

-----------------------------------------------------------------------------
LEMMA Standings ==
    ASSUME TypeOK, RowsSound, NEW c \in CrewIds, NEW r \in Riders
    PROVE  /\ Standing(c, r) = "out" <=> ~Live(c, r)
           /\ Standing(c, r) = "asking" <=> Live(c, r) /\ ~Active(c, r)
           /\ Standing(c, r) \in M!Manning <=> Active(c, r)
           /\ Active(c, r) => Standing(c, r) = rows[c][r].role
           /\ Standing(c, r) = "leader" <=> Holds(c, r, "leader")
           /\ Standing(c, r) = "officer" <=> Holds(c, r, "officer")
           /\ Standing(c, r) \in M!Standings
<1>1. rows[c][r].role \in {"leader", "officer", "member"}
    BY DEF TypeOK, Row, Roles
<1>2. Holds(c, r, "leader") \/ Holds(c, r, "officer") => Active(c, r)
    BY DEF RowsSound, Holds, Active, Live
<1>. QED
    BY <1>1, <1>2 DEF Standing, Holds, Active, Live, M!Standings, M!Manning, M!Office

\* The two usual shapes of step: nobody's standing changes, or one rider's does.
LEMMA NobodyMoves ==
    ASSUME crew' = crew, \A d \in CrewIds, o \in Riders : Standing(d, o)' = Standing(d, o)
    PROVE  UNCHANGED M!vars
BY DEF M!vars

LEMMA OneMoves ==
    ASSUME NEW c \in CrewIds, NEW r \in Riders, NEW as, Standing(c, r)' = as,
           \A d \in CrewIds, o \in Riders : d # c \/ o # r => Standing(d, o)' = Standing(d, o)
    PROVE  M!Stands(c, r, as)
BY DEF M!Stands

Places == [c \in CrewIds |-> [r \in Riders |-> Standing(c, r)]]

LEMMA TwoPuts ==
    ASSUME NEW c \in CrewIds, NEW a \in Riders, NEW r \in Riders, NEW was, NEW as,
           Standing(c, r)' = as, a # r => Standing(c, a)' = was,
           \A d \in CrewIds, o \in Riders :
              d # c \/ o \notin {a, r} => Standing(d, o)' = Standing(d, o)
    PROVE  Places' = [Places EXCEPT ![c][a] = was, ![c][r] = as]
<1> DEFINE u == [Places EXCEPT ![c][a] = was]
<1>1. u = [d \in CrewIds |-> [o \in Riders |->
              IF d = c /\ o = a THEN was ELSE Standing(d, o)]]
    BY DEF Places
<1>2. [u EXCEPT ![c][r] = as] = [d \in CrewIds |-> [o \in Riders |->
              IF d = c /\ o = r THEN as ELSE u[d][o]]]
    BY <1>1
<1> HIDE DEF u
<1>3. \A d \in CrewIds, o \in Riders : u[d][o] = IF d = c /\ o = a THEN was ELSE Standing(d, o)
    BY <1>1
<1>4. \A d \in CrewIds, o \in Riders :
         Standing(d, o)' = IF d = c /\ o = r THEN as ELSE u[d][o]
    BY <1>3
<1>5. \A d \in CrewIds : [o \in Riders |-> Standing(d, o)'] =
                         [o \in Riders |-> IF d = c /\ o = r THEN as ELSE u[d][o]]
    BY <1>4
<1>6. Places' = [u EXCEPT ![c][r] = as]
    BY <1>2, <1>5 DEF Places
<1>. QED
    BY <1>6 DEF u

LEMMA FreeIs ==
    ASSUME TypeOK, RowsSound, NEW r \in Riders
    PROVE  M!Free(r) <=> ~HasCrew(r)
BY Standings DEF M!Free, HasCrew

LEMMA SameRowSameStanding ==
    ASSUME NEW d \in CrewIds, NEW o \in Riders, rows'[d][o].live = rows[d][o].live,
           rows'[d][o].status = rows[d][o].status, rows'[d][o].role = rows[d][o].role
    PROVE  Standing(d, o)' = Standing(d, o)
BY DEF Standing, Active, Live

-----------------------------------------------------------------------------
(* One lemma per kind of step. *)

LEMMA CreateFounds ==
    ASSUME TypeOK, RowsSound, NEW c \in CrewIds, NEW r \in Riders, Create(r, c)
    PROVE  M!Found(c, r)
<1>1. crew[c] = "none" /\ M!Free(r)
    BY CreateEffect, FreeIs
<1>2. crew' = [crew EXCEPT ![c] = "living"]
    BY DEF Create
<1>3. Standing(c, r)' = "leader"
    BY CreateEffect DEF Standing, Active, Live
<1>4. \A d \in CrewIds, o \in Riders : d # c \/ o # r => Standing(d, o)' = Standing(d, o)
    BY CreateEffect DEF OnlyRow, Standing, Active, Live
<1>. QED
    BY <1>1, <1>2, <1>3, <1>4, OneMoves DEF M!Found

LEMMA JoinEnters ==
    ASSUME TypeOK, RowsSound, NEW c \in CrewIds, NEW r \in Riders, Join(r, c)
    PROVE  M!Enter(c, r)
<1>1. crew[c] = "living" /\ M!Free(r) /\ crew' = crew
    BY JoinEffect, FreeIs DEF Stays
<1>2. Standing(c, r)' \in {"asking", "member"}
    BY JoinEffect DEF Standing, Active, Live
<1>3. \A d \in CrewIds, o \in Riders : d # c \/ o # r => Standing(d, o)' = Standing(d, o)
    BY JoinEffect DEF OnlyCrew, Standing, Active, Live
<1>. QED
    BY <1>1, <1>2, <1>3, OneMoves DEF M!Enter

LEMMA AcceptEnters ==
    ASSUME TypeOK, RowsSound, NEW c \in CrewIds, NEW a \in Riders, NEW r \in Riders,
           Accept(a, c, r)
    PROVE  M!Enter(c, r)
<1>1. crew[c] = "living" /\ crew' = crew /\ Standing(c, a) \in M!Office
    BY AcceptEffect, Standings DEF Stays, Powered, M!Office
<1>2. rows[c][r].role = "member"
    BY AcceptEffect DEF RowsSound, Reconsider
<1>3. Standing(c, r)' = "member"
    BY <1>2, AcceptEffect DEF Standing, Active, Live
<1>4. \A d \in CrewIds, o \in Riders : d # c \/ o # r => Standing(d, o)' = Standing(d, o)
    BY AcceptEffect DEF OnlyRow, Standing, Active, Live
<1>5. Standing(c, r) = "asking" \/ M!Free(r)
    BY AcceptEffect, Standings, FreeIs DEF Reconsider, Active
<1>6. M!Stands(c, r, "member")
    BY <1>3, <1>4, OneMoves
<1>. QED
    BY <1>1, <1>5, <1>6 DEF M!Enter

LEMMA TurnedAwayDeparts ==
    ASSUME TypeOK, RowsSound, NEW c \in CrewIds, NEW a \in Riders, NEW r \in Riders,
           Decline(a, c, r) \/ Remove(a, c, r)
    PROVE  M!Depart(c, r)
<1>1. a \in Riders \ {r} /\ Standing(c, a) \in M!Manning /\ crew' = crew
    BY TurnedAwayEffect, Standings DEF Stays, Powered
<1>2. Standing(c, r) # "out" /\ Standing(c, r) # "leader"
    BY TurnedAwayEffect, Standings DEF Holds, RowsSound
<1>3. Standing(c, r)' = "out"
    BY TurnedAwayEffect DEF Standing, Live
<1>4. \A d \in CrewIds, o \in Riders : d # c \/ o # r => Standing(d, o)' = Standing(d, o)
    BY TurnedAwayEffect DEF OnlyRow, Standing, Active, Live
<1>. QED
    BY <1>1, <1>2, <1>3, <1>4, OneMoves DEF M!Depart

\* Two riders of a set make it count more than one.
LEMMA TwoCount ==
    ASSUME NEW S, IsFiniteSet(S), NEW x \in S, NEW y \in S, x # y
    PROVE  Cardinality(S) > 1
<1>1. IsFiniteSet({x}) /\ Cardinality({x}) = 1
    BY FS_Singleton
<1>2. Cardinality({x} \cup {y}) = 2
    BY <1>1, FS_AddElement
<1>3. {x} \cup {y} \subseteq S
    OBVIOUS
<1>4. Cardinality({x} \cup {y}) <= Cardinality(S) /\ Cardinality(S) \in Nat
    BY <1>3, FS_Subset, FS_CardinalityType
<1>. QED
    BY <1>2, <1>4

LEMMA LeaveDeparts ==
    ASSUME TypeOK, RowsSound, FewRows, LivingIffManned,
           NEW c \in CrewIds, NEW r \in Riders, Leave(r, c), ~LastOut(c, r)
    PROVE  M!Depart(c, r)
<1>1. Live(c, r) /\ crew' = crew /\ crew[c] = "living"
    BY LeaveEffect DEF Stays, LivingIffManned, LiveIn
<1>2. PICK o \in Riders \ {r} : Active(c, o)
    BY <1>1 DEF LastOut, Alone, LivingIffManned, ActiveIn
<1>3. Standing(c, r) # "out" /\ Standing(c, o) \in M!Manning
    BY <1>1, <1>2, Standings
<1>4. ASSUME Standing(c, r) = "leader"
      PROVE  \E p \in Riders : Standing(c, p) = "officer"
  <2>1. Holds(c, r, "leader") /\ Active(c, r)
    BY <1>4, Standings DEF RowsSound, Holds, Active
  <2>2. Cardinality(ActiveIn(c)) > 1
    BY <1>2, <2>1, TwoCount, ActiveFinite DEF ActiveIn
  <2>3. OfficersIn(c) # {}
    BY <2>1, <2>2 DEF Leave
  <2>. QED
    BY <2>3, Standings DEF OfficersIn, ActiveIn, Active, Holds
<1>5. Standing(c, r)' = "out"
    BY LeaveEffect DEF Standing, Live
<1>6. \A d \in CrewIds, p \in Riders : d # c \/ p # r => Standing(d, p)' = Standing(d, p)
    BY LeaveEffect DEF OnlyRow, Standing, Active, Live
<1>. QED
    BY <1>1, <1>2, <1>3, <1>4, <1>5, <1>6, OneMoves DEF M!Depart

LEMMA SetRoleRanks ==
    ASSUME TypeOK, RowsSound, NEW c \in CrewIds, NEW a \in Riders, NEW r \in Riders,
           NEW role \in Roles, SetRole(a, c, r, role)
    PROVE  M!Rank(c, a, r)
<1> DEFINE was == IF role = "leader" THEN "officer" ELSE Standing(c, a)
<1>1. Powered(c, a) /\ Active(c, r) /\ MayRank(a, c, r, role) /\ crew' = crew
    BY SetRoleEffect DEF Stays
<1>2. /\ Active(c, a) /\ rows[c][a].role \in {"leader", "officer"}
      /\ Standing(c, a) = rows[c][a].role /\ Standing(c, r) = rows[c][r].role
    BY <1>1, Standings DEF Powered
<1>3. Standing(c, a) \in M!Office /\ Standing(c, r) \in M!Manning /\ role \in M!Manning
    BY <1>1, <1>2, Standings DEF M!Office, M!Manning, Roles
<1>4. /\ Standing(c, a) = "officer" => role # "leader" /\ (Standing(c, r) \in M!Office => r = a)
      /\ a = r /\ Standing(c, a) = "leader" => role = "leader"
    BY <1>1, <1>2 DEF MayRank, M!Office
<1>5. Standing(c, r)' = role
    BY <1>1, SetRoleEffect DEF Standing, Active, Live
<1>6. a # r => Standing(c, a)' = was
    BY <1>2, SetRoleEffect DEF Standing, Active, Live, HandOver
<1>7. \A d \in CrewIds, o \in Riders :
         d # c \/ o \notin {a, r} => Standing(d, o)' = Standing(d, o)
    BY SetRoleEffect DEF Standing, Active, Live
<1> HIDE DEF was
<1>8. Places' = [Places EXCEPT ![c][a] = was, ![c][r] = role]
    BY <1>5, <1>6, <1>7, TwoPuts
<1>9. Places[c][a] = Standing(c, a)
    BY DEF Places
<1>. QED
    BY <1>1, <1>3, <1>4, <1>8, <1>9 DEF M!Rank, Places, was

LEMMA ClaimTakesOver ==
    ASSUME TypeOK, RowsSound, NEW c \in CrewIds, NEW r \in Riders, Claim(r, c)
    PROVE  M!TakeOver(c, r) \/ \E l \in Riders : M!Rank(c, r, l)
<1>1. crew[c] = "living" /\ crew' = crew
    BY ClaimEffect DEF Stays
<1>2. PICK leader \in SittingLeader(c) :
          /\ Eligible(c, r, leader)
          /\ \A d \in CrewIds, o \in Riders :
                /\ rows'[d][o].live = rows[d][o].live
                /\ rows'[d][o].status = rows[d][o].status
                /\ rows'[d][o].role = IF d = c /\ o = r THEN "leader"
                                      ELSE IF d = c /\ o \in leader THEN "member"
                                      ELSE rows[d][o].role
    BY ClaimEffect
<1>3. Active(c, r) /\ r \notin leader
    BY <1>2 DEF Eligible, Senior, ActiveIn
<1>4. Standing(c, r)' = "leader" /\ Standing(c, r) \in M!Manning
    BY <1>2, <1>3, Standings DEF Standing, Active, Live
<1>5. \A d \in CrewIds, o \in Riders :
         d # c \/ o \notin leader \cup {r} => Standing(d, o)' = Standing(d, o)
    BY <1>2 DEF Standing, Active, Live
<1>6. CASE leader = {} /\ LeadersIn(c) = {}
  <2>1. Standing(c, r) \in {"member", "officer"}
    BY <1>4, <1>6, Standings DEF LeadersIn, M!Manning, M!Office
  <2>2. M!Leaders(c) = {}
    BY <1>6, Standings DEF LeadersIn, M!Leaders
  <2>3. M!Stands(c, r, "leader")
    BY <1>4, <1>5, <1>6, OneMoves
  <2>. QED
    BY <1>1, <2>1, <2>2, <2>3 DEF M!TakeOver
<1>7. ASSUME NEW l \in LeadersIn(c), leader = {l}
      PROVE  M!TakeOver(c, r) \/ M!Rank(c, r, l)
  <2>1. l \in Riders /\ l # r /\ Holds(c, l, "leader")
    BY <1>3, <1>7 DEF LeadersIn
  <2>2. Standing(c, l) = "leader" /\ Standing(c, l)' = "member"
    BY <1>2, <1>7, <2>1, Standings DEF Standing, Active, Live, Holds, RowsSound
  <2>3. CASE Standing(c, r) # "leader"
    <3>1. Standing(c, r) \in {"member", "officer"} /\ l \in M!Leaders(c)
      BY <1>4, <2>1, <2>2, <2>3 DEF M!Manning, M!Office, M!Leaders
    <3>2. Places' = [Places EXCEPT ![c][l] = "member", ![c][r] = "leader"]
      BY <1>4, <1>5, <1>7, <2>1, <2>2, TwoPuts
    <3>. QED
      BY <1>1, <3>1, <3>2 DEF M!TakeOver, Places
  <2>4. CASE Standing(c, r) = "leader"
    <3>1. Places' = [Places EXCEPT ![c][r] = "leader", ![c][l] = "member"]
      BY <1>4, <1>5, <1>7, <2>1, <2>2, TwoPuts
    <3>2. "member" \in M!Manning /\ Standing(c, r) \in M!Office /\ Standing(c, l) \in M!Manning
      BY <2>2, <2>4 DEF M!Manning, M!Office
    <3>. QED
      BY <1>1, <2>1, <2>4, <3>1, <3>2 DEF M!Rank, Places
  <2>. QED
    BY <2>3, <2>4
<1>. QED
    BY <1>6, <1>7 DEF SittingLeader, LeadersIn

LEMMA FoldCloses ==
    ASSUME TypeOK, RowsSound, NEW c \in CrewIds, NEW by \in SUBSET Riders, FoldStep(c, by)
    PROVE  M!Close(c)
<1>1. crew[c] # "none" /\ crew' = [crew EXCEPT ![c] = "folded"]
    BY DEF FoldStep, Fold
<1>2. OnlyCrew(c) /\ \A o \in Riders : ~rows'[c][o].live
    BY FoldEffect DEF FoldStep
<1>3. \A o \in Riders : Standing(c, o)' = "out"
    BY <1>2 DEF Standing, Live
<1>4. \A d \in CrewIds \ {c}, o \in Riders : Standing(d, o)' = Standing(d, o)
    BY <1>2 DEF OnlyCrew, Standing, Active, Live
<1>. QED
    BY <1>1, <1>3, <1>4 DEF M!Close

LEMMA RestoreReopens ==
    ASSUME TypeOK, RowsSound, ElderOrder, FewRows, NEW c \in CrewIds, Restore(c)
    PROVE  M!Reopen(c)
<1> DEFINE now == [o \in Riders |-> Standing(c, o)']
<1>0. /\ OnlyCrew(c) /\ Coming(c) \subseteq Riders /\ Coming(c) # {}
      /\ \A o \in Riders :
            /\ rows'[c][o].live <=> Live(c, o) \/ o \in Coming(c)
            /\ rows'[c][o].status = IF o \in Coming(c) THEN "active" ELSE rows[c][o].status
            /\ rows'[c][o].role = IF ~Led(c) /\ Senior(c, There(c), o)
                                  THEN "leader" ELSE rows[c][o].role
    BY RestoreEffect
<1>1. crew[c] # "none" /\ crew' = [crew EXCEPT ![c] = "living"]
    BY DEF Restore
<1>2. RowsSound' /\ TypeOK'
    BY RowsSoundStep, NextType DEF Next
<1>3. ASSUME NEW o \in Riders
      PROVE  \/ Standing(c, o)' = Standing(c, o)
             \/ M!Free(o) /\ Standing(c, o)' \in M!Manning
             \/ M!Leaders(c) = {} /\ o \in M!Members(c) /\ Standing(c, o)' = "leader"
  <2>1. CASE o \in Coming(c)
    <3>1. M!Free(o)
      BY <2>1, FreeIs DEF Coming
    <3>2. rows'[c][o].role \in {"leader", "officer", "member"}
      BY <1>2 DEF TypeOK, Row, Roles
    <3>3. Standing(c, o)' \in M!Manning
      BY <1>0, <2>1, <3>2 DEF Standing, Active, Live, M!Manning, M!Office
    <3>. QED
      BY <3>1, <3>3
  <2>2. CASE o \notin Coming(c) /\ ~(~Led(c) /\ Senior(c, There(c), o))
    BY <1>0, <2>2 DEF Standing, Active, Live
  <2>3. CASE o \notin Coming(c) /\ ~Led(c) /\ Senior(c, There(c), o)
    <3>1. Active(c, o)
      BY <2>3 DEF Senior, There, ActiveIn
    <3>2. o \in M!Members(c)
      BY <3>1, Standings DEF M!Members
    <3>3. M!Leaders(c) = {}
      BY <2>3, Standings DEF M!Leaders, Led, LiveIn, Holds
    <3>4. Standing(c, o)' = "leader"
      BY <1>0, <2>3, <3>1 DEF Standing, Active, Live
    <3>. QED
      BY <3>2, <3>3, <3>4
  <2>. QED
    BY <2>1, <2>2, <2>3
<1>4. \E o \in Riders : Standing(c, o)' = "leader"
  <2>1. CASE Led(c)
    <3>1. PICK o \in LiveIn(c) \cup Coming(c) : rows[c][o].role = "leader"
      BY <2>1 DEF Led
    <3>2. o \in Riders /\ rows'[c][o].live /\ rows'[c][o].role = "leader"
      BY <1>0, <2>1, <3>1 DEF LiveIn
    <3>3. rows'[c][o].status = "active"
      BY <1>2, <3>2 DEF RowsSound, Live
    <3>. QED
      BY <3>2, <3>3 DEF Standing, Active, Live
  <2>2. CASE ~Led(c)
    <3>1. There(c) \subseteq Known(c) /\ There(c) # {}
      BY <1>0 DEF There, ActiveIn, Active, Known, Coming, FellWith, Marked, Folded, WalkedOut
    <3>2. PICK o \in There(c) : Senior(c, There(c), o)
      BY <3>1, SeniorExists
    <3>3. o \in Riders /\ (Active(c, o) \/ o \in Coming(c))
      BY <1>0, <3>2 DEF There, ActiveIn
    <3>4. rows'[c][o].live /\ rows'[c][o].status = "active" /\ rows'[c][o].role = "leader"
      BY <1>0, <2>2, <3>2, <3>3 DEF Active
    <3>. QED
      BY <3>3, <3>4 DEF Standing, Active, Live
  <2>. QED
    BY <2>1, <2>2
<1>5. now \in [Riders -> M!Standings]
  <2>1. \A o \in Riders : Standing(c, o)' \in M!Standings
    <3>1. \A o \in Riders : rows'[c][o].role \in {"leader", "officer", "member"}
      BY <1>2 DEF TypeOK, Row, Roles
    <3>. QED
      BY <3>1 DEF Standing, Active, Live, M!Standings, M!Manning, M!Office
  <2>. QED
    BY <2>1
<1>6. \A d \in CrewIds \ {c}, o \in Riders : Standing(d, o)' = Standing(d, o)
    BY <1>0 DEF OnlyCrew, Standing, Active, Live
<1>7. [d \in CrewIds |-> [o \in Riders |-> Standing(d, o)]]' =
         [[d \in CrewIds |-> [o \in Riders |-> Standing(d, o)]] EXCEPT ![c] = now]
    BY <1>6
<1>8. \A o \in Riders : now[o] = Standing(c, o)'
    OBVIOUS
<1> HIDE DEF now
<1>. QED
    BY <1>1, <1>3, <1>4, <1>5, <1>7, <1>8 DEF M!Reopen

-----------------------------------------------------------------------------
LEMMA StepRefines == IInv /\ [Next]_vars => [M!Next]_(M!vars)
<1>. SUFFICES ASSUME TypeOK, RowsSound, ElderOrder, FewRows, LivingIffManned, [Next]_vars
              PROVE  [M!Next]_(M!vars)
    BY DEF IInv
<1>1. CASE Idle
    BY <1>1, SameRowSameStanding, NobodyMoves DEF Idle, AllSame, Same, Stays
<1>2. CASE Sweep
  <2>1. ASSUME NEW d \in CrewIds, NEW o \in Riders
        PROVE  Standing(d, o)' = Standing(d, o)
    <3>1. o \in Gone(d) => ~Live(d, o)
      BY DEF Gone, RowsSound, Spent, Folded, Declined
    <3>. QED
      BY <1>2, <3>1, SweepEffect DEF NoRow, Standing, Active, Live
  <2>. QED
    BY <1>2, <2>1, NobodyMoves, SweepEffect DEF Stays
<1>3. ASSUME NEW c \in CrewIds, NEW r \in Riders, OfRider(r, c)
      PROVE  [M!Next]_(M!vars)
  <2>1. CASE Create(r, c)
    BY <2>1, CreateFounds DEF M!Next
  <2>2. CASE Join(r, c)
    BY <2>2, JoinEnters DEF M!Next
  <2>3. CASE Leave(r, c) /\ ~LastOut(c, r)
    BY <2>3, LeaveDeparts DEF M!Next
  <2>4. CASE Claim(r, c)
    BY <2>4, ClaimTakesOver DEF M!Next
  <2>5. ASSUME NEW kind \in DOMAIN Seen, NoticeSeen(r, c, kind)
        PROVE  UNCHANGED M!vars
    <3>1. ~Live(c, r)
      BY <2>5, NoticeSeenEffect DEF RowsSound, Seen
    <3>2. \A d \in CrewIds, o \in Riders : Standing(d, o)' = Standing(d, o)
      BY <2>5, <3>1, NoticeSeenEffect DEF OnlyRow, Standing, Active, Live
    <3>. QED
      BY <2>5, <3>2, NobodyMoves, NoticeSeenEffect DEF Stays
  <2>. QED
    BY <1>3, <2>1, <2>2, <2>3, <2>4, <2>5 DEF OfRider
<1>4. ASSUME NEW c \in CrewIds, NEW a \in Riders, NEW r \in Riders, RosterStep(a, c, r)
      PROVE  [M!Next]_(M!vars)
  <2>1. CASE Accept(a, c, r)
    BY <2>1, AcceptEnters DEF M!Next
  <2>2. CASE Decline(a, c, r) \/ Remove(a, c, r)
    BY <2>2, TurnedAwayDeparts DEF M!Next
  <2>3. ASSUME NEW role \in Roles, SetRole(a, c, r, role)
        PROVE  M!Next
    BY <2>3, SetRoleRanks DEF M!Next
  <2>. QED
    BY <1>4, <2>1, <2>2, <2>3 DEF RosterStep
<1>5. ASSUME NEW c \in CrewIds, NEW by \in SUBSET Riders, FoldStep(c, by)
      PROVE  M!Next
    BY <1>5, FoldCloses DEF M!Next
<1>6. ASSUME NEW c \in CrewIds, Restore(c)
      PROVE  M!Next
    BY <1>6, RestoreReopens DEF M!Next
<1>. QED
    BY <1>1, <1>2, <1>3, <1>4, <1>5, <1>6, StepKinds

\* The rows of the crew tables behave as Membership: every request, admin action
\* and loop pass is one of its changes of standing, or none.
THEOREM CrewsRefine == Spec => ImplementsMembership
<1>1. Init => M!Init
    BY DEF Init, NoRow, Standing, Live, M!Init
<1>. QED
    BY <1>1, StepRefines, CrewsSound, PTL DEF Spec, ImplementsMembership, M!Spec
=============================================================================
