-------------------------- MODULE MembershipProofs --------------------------
(***************************************************************************)
(* What the abstract membership tables keep, for any crews and riders: the *)
(* promises every request of Crews is measured against.                    *)
(***************************************************************************)
EXTENDS Membership, TLAPS

LEMMA StandingsAre ==
    /\ Office \subseteq Manning /\ Manning \subseteq Standings
    /\ "out" \in Standings \ Manning /\ "asking" \in Standings \ Manning
    /\ "leader" \in Office /\ "officer" \in Office /\ "member" \in Manning
BY DEF Office, Manning, Standings

\* A rider who is put somewhere leaves everybody else where they were.
LEMMA StandsTypes ==
    ASSUME TypeOK, NEW c \in CrewIds, NEW r \in Riders, NEW as \in Standings, Stands(c, r, as)
    PROVE  /\ standing' \in [CrewIds -> [Riders -> Standings]]
           /\ standing'[c][r] = as
           /\ \A d \in CrewIds, s \in Riders :
                 d # c \/ s # r => standing'[d][s] = standing[d][s]
BY DEF TypeOK, Stands

\* The tables keep their types.
LEMMA TypeStep == ASSUME TypeOK, [Next]_vars PROVE TypeOK'
<1>1. ASSUME NEW c \in CrewIds, NEW r \in Riders, Found(c, r) PROVE TypeOK'
  <2>1. Stands(c, r, "leader") /\ crew' = [crew EXCEPT ![c] = "living"]
    BY <1>1 DEF Found
  <2>2. standing' \in [CrewIds -> [Riders -> Standings]]
    BY <2>1, StandsTypes, StandingsAre
  <2> QED BY <2>1, <2>2 DEF TypeOK
<1>2. ASSUME NEW c \in CrewIds, NEW r \in Riders, Enter(c, r) PROVE TypeOK'
  <2>1. PICK as \in Standings : Stands(c, r, as)
    BY <1>2, StandingsAre DEF Enter
  <2>2. standing' \in [CrewIds -> [Riders -> Standings]]
    BY <2>1, StandsTypes
  <2> QED BY <1>2, <2>2 DEF TypeOK, Enter
<1>3. ASSUME NEW c \in CrewIds, NEW r \in Riders, Depart(c, r) PROVE TypeOK'
  <2>1. standing' \in [CrewIds -> [Riders -> Standings]]
    BY <1>3, StandsTypes, StandingsAre DEF Depart
  <2> QED BY <1>3, <2>1 DEF TypeOK, Depart
<1>4. ASSUME NEW c \in CrewIds, NEW a \in Riders, NEW r \in Riders, Rank(c, a, r) PROVE TypeOK'
  <2>1. PICK as \in Manning : standing' = [standing EXCEPT
                ![c][a] = IF as = "leader" THEN "officer" ELSE @, ![c][r] = as]
    BY <1>4 DEF Rank
  <2> DEFINE was == IF as = "leader" THEN "officer" ELSE standing[c][a]
  <2>2. was \in Standings /\ as \in Standings
    BY StandingsAre DEF TypeOK
  <2>3. standing' \in [CrewIds -> [Riders -> Standings]]
    BY <2>1, <2>2 DEF TypeOK
  <2> QED BY <1>4, <2>3 DEF TypeOK, Rank
<1>5. ASSUME NEW c \in CrewIds, NEW r \in Riders, TakeOver(c, r) PROVE TypeOK'
  <2>1. CASE Stands(c, r, "leader")
    BY <1>5, <2>1, StandsTypes, StandingsAre DEF TypeOK, TakeOver
  <2>2. CASE \E l \in Leaders(c) :
          standing' = [standing EXCEPT ![c][l] = "member", ![c][r] = "leader"]
    BY <1>5, <2>2, StandingsAre DEF TypeOK, TakeOver, Leaders
  <2> QED BY <1>5, <2>1, <2>2 DEF TakeOver
<1>6. ASSUME NEW c \in CrewIds, Close(c) PROVE TypeOK'
  BY <1>6, StandingsAre DEF TypeOK, Close
<1>7. ASSUME NEW c \in CrewIds, Reopen(c) PROVE TypeOK'
  BY <1>7 DEF TypeOK, Reopen
<1>8. CASE UNCHANGED vars
  BY <1>8 DEF TypeOK, vars
<1> QED BY <1>1, <1>2, <1>3, <1>4, <1>5, <1>6, <1>7, <1>8 DEF Next

\* Every member of every crew, but one rider of one crew, was one before.
LEMMA NobodyElseEnters ==
    ASSUME TypeOK, OneCrew, NEW c \in CrewIds,
           \A d \in CrewIds, r \in Riders : standing'[d][r] # "out" =>
              standing[d][r] # "out" \/ (d = c /\ Free(r))
    PROVE  OneCrew'
BY DEF OneCrew, Free, TypeOK

LEMMA OneCrewStep == ASSUME TypeOK, OneCrew, [Next]_vars PROVE OneCrew'
<1> DEFINE Only(c) ==
      \A d \in CrewIds, s \in Riders : standing'[d][s] # "out" =>
          standing[d][s] # "out" \/ (d = c /\ Free(s))
<1>0. ASSUME NEW c \in CrewIds, Only(c) PROVE OneCrew'
  BY <1>0, NobodyElseEnters
<1> HIDE DEF Only
<1>1. ASSUME NEW c \in CrewIds, NEW r \in Riders, Found(c, r) PROVE OneCrew'
  <2>1. Stands(c, r, "leader") /\ Free(r)
    BY <1>1 DEF Found
  <2>2. "leader" \in Standings
    BY StandingsAre
  <2>3. \A d \in CrewIds, s \in Riders : d # c \/ s # r => standing'[d][s] = standing[d][s]
    BY <2>1, <2>2, StandsTypes
  <2> QED BY <2>1, <2>3, <1>0 DEF Only
<1>2. ASSUME NEW c \in CrewIds, NEW r \in Riders, Enter(c, r) PROVE OneCrew'
  <2>1. PICK as \in Standings : Stands(c, r, as) /\ (Free(r) \/ standing[c][r] = "asking")
    BY <1>2, StandingsAre DEF Enter
  <2>2. \A d \in CrewIds, s \in Riders : d # c \/ s # r => standing'[d][s] = standing[d][s]
    BY <2>1, StandsTypes
  <2> QED BY <2>1, <2>2, <1>0 DEF Only
<1>3. ASSUME NEW c \in CrewIds, NEW r \in Riders, Depart(c, r) PROVE OneCrew'
  <2>1. Stands(c, r, "out") /\ standing[c][r] # "out"
    BY <1>3 DEF Depart
  <2>2. "out" \in Standings
    BY StandingsAre
  <2>3. \A d \in CrewIds, s \in Riders : d # c \/ s # r => standing'[d][s] = standing[d][s]
    BY <2>1, <2>2, StandsTypes
  <2> QED BY <2>1, <2>3, <1>0 DEF Only
<1>4. ASSUME NEW c \in CrewIds, NEW a \in Riders, NEW r \in Riders, Rank(c, a, r) PROVE OneCrew'
  <2>1. standing[c][a] # "out" /\ standing[c][r] # "out"
    BY <1>4 DEF Rank, Office, Manning
  <2>2. PICK as \in Manning : standing' = [standing EXCEPT
                ![c][a] = IF as = "leader" THEN "officer" ELSE @, ![c][r] = as]
    BY <1>4 DEF Rank
  <2>3. \A d \in CrewIds, s \in Riders :
           standing'[d][s] = standing[d][s] \/ (d = c /\ s \in {a, r})
    BY <2>2 DEF TypeOK
  <2> QED BY <2>1, <2>3, <1>0 DEF Only
<1>5. ASSUME NEW c \in CrewIds, NEW r \in Riders, TakeOver(c, r) PROVE OneCrew'
  <2>1. standing[c][r] # "out"
    BY <1>5 DEF TakeOver
  <2>2. CASE Stands(c, r, "leader")
    <3>1. \A d \in CrewIds, s \in Riders : standing'[d][s] = standing[d][s] \/ (d = c /\ s = r)
      BY <2>2 DEF Stands, TypeOK
    <3> QED BY <2>1, <3>1, <1>0 DEF Only
  <2>3. ASSUME NEW l \in Leaders(c),
               standing' = [standing EXCEPT ![c][l] = "member", ![c][r] = "leader"]
        PROVE  OneCrew'
    <3>1. \A d \in CrewIds, s \in Riders :
             standing'[d][s] = standing[d][s] \/ (d = c /\ s \in {l, r})
      BY <2>3 DEF TypeOK
    <3>2. standing[c][l] # "out"
      BY DEF Leaders
    <3> QED BY <2>1, <3>1, <3>2, <1>0 DEF Only
  <2> QED BY <1>5, <2>2, <2>3 DEF TakeOver
<1>6. ASSUME NEW c \in CrewIds, Close(c) PROVE OneCrew'
  <2>1. \A d \in CrewIds, s \in Riders : standing'[d][s] # "out" => standing[d][s] # "out"
    BY <1>6 DEF Close, TypeOK
  <2> QED BY <2>1, <1>0 DEF Only
<1>7. ASSUME NEW c \in CrewIds, Reopen(c) PROVE OneCrew'
  <2>1. PICK now \in [Riders -> Standings] :
          /\ \A r \in Riders :
                \/ now[r] = standing[c][r]
                \/ Free(r)
                \/ standing[c][r] # "out"
          /\ standing' = [standing EXCEPT ![c] = now]
    BY <1>7 DEF Reopen, Members, Manning, Office
  <2>2. \A d \in CrewIds, s \in Riders :
           standing'[d][s] = standing[d][s] \/ (d = c /\ standing'[d][s] = now[s])
    BY <2>1 DEF TypeOK
  <2> QED BY <2>1, <2>2, <1>0 DEF Only
<1>8. CASE UNCHANGED vars
  BY <1>8 DEF vars, OneCrew
<1> QED BY <1>1, <1>2, <1>3, <1>4, <1>5, <1>6, <1>7, <1>8 DEF Next

\* A step about one crew, after which that crew is as it should be, leaves every
\* crew so.
LEMMA MannedElsewhere ==
    ASSUME TypeOK, Manned, NEW c \in CrewIds,
           \A d \in CrewIds \ {c} : crew'[d] = crew[d] /\ standing'[d] = standing[d],
           IF crew'[c] = "living" THEN Members(c)' # {}
           ELSE \A r \in Riders : standing'[c][r] = "out"
    PROVE  Manned'
BY DEF Manned, Members

\* Where somebody who was in a crew mans it after a step that leaves the crews
\* as they are, every crew stays manned.
LEMMA MannedStays ==
    ASSUME TypeOK, Manned, NEW c \in CrewIds, NEW o \in Riders, crew' = crew,
           standing[c][o] # "out", standing'[c][o] \in Manning,
           \A d \in CrewIds \ {c} : standing'[d] = standing[d]
    PROVE  Manned'
<1>1. crew[c] = "living"
  BY DEF Manned
<1>2. Members(c)' # {}
  BY DEF Members
<1> QED BY <1>1, <1>2, MannedElsewhere

LEMMA MannedStep == ASSUME TypeOK, Manned, [Next]_vars PROVE Manned'
<1>1. ASSUME NEW c \in CrewIds, NEW r \in Riders, Found(c, r) PROVE Manned'
  <2>1. standing'[c][r] = "leader" /\ crew'[c] = "living"
        /\ \A d \in CrewIds \ {c} : crew'[d] = crew[d] /\ standing'[d] = standing[d]
    BY <1>1 DEF Found, Stands, TypeOK
  <2>2. Members(c)' # {}
    BY <2>1 DEF Members, Manning, Office
  <2> QED BY <2>1, <2>2, MannedElsewhere
<1>2. ASSUME NEW c \in CrewIds, NEW r \in Riders, Enter(c, r) PROVE Manned'
  <2>1. PICK as \in {"asking", "member"} : Stands(c, r, as) /\ standing[c][r] \in {"out", "asking"}
    BY <1>2 DEF Enter, Free
  <2>2. PICK o \in Riders : standing[c][o] \in Manning
    BY <1>2 DEF Enter, Manned, Members
  <2>3. standing[c][o] # "out" /\ o # r
    BY <2>1, <2>2 DEF Manning, Office
  <2>4. standing'[c][o] \in Manning /\ \A d \in CrewIds \ {c} : standing'[d] = standing[d]
    BY <2>1, <2>2, <2>3 DEF Stands, TypeOK
  <2> QED BY <1>2, <2>3, <2>4, MannedStays DEF Enter
<1>3. ASSUME NEW c \in CrewIds, NEW r \in Riders, Depart(c, r) PROVE Manned'
  <2>1. PICK o \in Riders \ {r} : standing[c][o] \in Manning
    BY <1>3 DEF Depart
  <2>2. standing[c][o] # "out"
    BY <2>1 DEF Manning, Office
  <2>3. standing'[c][o] \in Manning /\ \A d \in CrewIds \ {c} : standing'[d] = standing[d]
    BY <1>3, <2>1 DEF Depart, Stands, TypeOK
  <2> QED BY <1>3, <2>2, <2>3, MannedStays DEF Depart
<1>4. ASSUME NEW c \in CrewIds, NEW a \in Riders, NEW r \in Riders, Rank(c, a, r) PROVE Manned'
  <2>1. PICK as \in Manning : standing' = [standing EXCEPT
                ![c][a] = IF as = "leader" THEN "officer" ELSE @, ![c][r] = as]
    BY <1>4 DEF Rank
  <2>2. standing[c][r] # "out"
    BY <1>4 DEF Rank, Manning, Office
  <2>3. standing'[c][r] \in Manning /\ \A d \in CrewIds \ {c} : standing'[d] = standing[d]
    BY <2>1 DEF TypeOK
  <2> QED BY <1>4, <2>2, <2>3, MannedStays DEF Rank
<1>5. ASSUME NEW c \in CrewIds, NEW r \in Riders, TakeOver(c, r) PROVE Manned'
  <2>1. standing[c][r] # "out" /\ "leader" \in Manning
    BY <1>5 DEF TakeOver, Manning, Office
  <2> DEFINE Led ==
        standing'[c][r] = "leader" /\ \A d \in CrewIds \ {c} : standing'[d] = standing[d]
  <2>2. ASSUME Stands(c, r, "leader") PROVE Led
    BY <2>2 DEF Stands, TypeOK
  <2>3. ASSUME NEW l \in Riders,
               standing' = [standing EXCEPT ![c][l] = "member", ![c][r] = "leader"]
        PROVE  Led
    BY <2>3 DEF TypeOK
  <2>4. Led
    BY <1>5, <2>2, <2>3 DEF TakeOver, Leaders
  <2> QED BY <1>5, <2>1, <2>4, MannedStays DEF TakeOver
<1>6. ASSUME NEW c \in CrewIds, Close(c) PROVE Manned'
  <2>1. crew'[c] = "folded" /\ \A r \in Riders : standing'[c][r] = "out"
    BY <1>6 DEF Close, TypeOK
  <2>2. \A d \in CrewIds \ {c} : crew'[d] = crew[d] /\ standing'[d] = standing[d]
    BY <1>6 DEF Close, TypeOK
  <2> QED BY <2>1, <2>2, MannedElsewhere
<1>7. ASSUME NEW c \in CrewIds, Reopen(c) PROVE Manned'
  <2>1. PICK now \in [Riders -> Standings] :
          (\E r \in Riders : now[r] = "leader") /\ standing' = [standing EXCEPT ![c] = now]
    BY <1>7 DEF Reopen
  <2>2. crew'[c] = "living" /\ standing'[c] = now
        /\ \A d \in CrewIds \ {c} : crew'[d] = crew[d] /\ standing'[d] = standing[d]
    BY <1>7, <2>1 DEF Reopen, TypeOK
  <2>3. Members(c)' # {}
    BY <2>1, <2>2 DEF Members, Manning, Office
  <2> QED BY <2>2, <2>3, MannedElsewhere
<1>8. CASE UNCHANGED vars
  BY <1>8 DEF vars, Manned, Members
<1> QED BY <1>1, <1>2, <1>3, <1>4, <1>5, <1>6, <1>7, <1>8 DEF Next

-----------------------------------------------------------------------------
\* Whatever the requests of any riders do, the abstract tables are well-typed,
\* a rider stands in one crew at most, and a living crew is manned while nobody
\* stands in any other.
THEOREM MembershipCorrect == Spec => [](TypeOK /\ OneCrew /\ Manned)
<1>1. Init => TypeOK /\ OneCrew /\ Manned
  BY StandingsAre DEF Init, TypeOK, OneCrew, Manned
<1>2. TypeOK /\ OneCrew /\ Manned /\ [Next]_vars => (TypeOK /\ OneCrew /\ Manned)'
  BY TypeStep, OneCrewStep, MannedStep
<1> QED BY <1>1, <1>2, PTL DEF Spec
=============================================================================
