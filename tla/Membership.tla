----------------------------- MODULE Membership -----------------------------
(***************************************************************************)
(* What the crew tables promise, with nothing about rows, notices, ages or *)
(* windows: where each rider stands in each crew, and the few ways in      *)
(* which that changes.  Crews implements this module.                      *)
(***************************************************************************)
EXTENDS FiniteSets

CONSTANTS CrewIds, Riders

VARIABLES
    crew,       \* crew[c]: "none", "living" or "folded"
    standing    \* standing[c][r]: where rider r stands in crew c

vars == <<crew, standing>>

Office == {"officer", "leader"}
Manning == Office \cup {"member"}
Standings == Manning \cup {"out", "asking"}

Free(r) == \A c \in CrewIds : standing[c][r] = "out"
Members(c) == {r \in Riders : standing[c][r] \in Manning}
Leaders(c) == {r \in Riders : standing[c][r] = "leader"}

Stands(c, r, as) == standing' = [standing EXCEPT ![c][r] = as]

Init ==
    /\ crew = [c \in CrewIds |-> "none"]
    /\ standing = [c \in CrewIds |-> [r \in Riders |-> "out"]]

\* The founder leads.
Found(c, r) ==
    /\ crew[c] = "none" /\ Free(r)
    /\ crew' = [crew EXCEPT ![c] = "living"]
    /\ Stands(c, r, "leader")

\* From the front door nobody comes in higher than a member.
Enter(c, r) ==
    /\ crew[c] = "living"
    /\ \/ Free(r) /\ \E as \in {"asking", "member"} : Stands(c, r, as)
       \/ /\ standing[c][r] = "asking"
          /\ \E a \in Riders : standing[c][a] \in Office
          /\ Stands(c, r, "member")
    /\ UNCHANGED crew

\* Whoever goes leaves somebody there; a leader leaves an officer.
Depart(c, r) ==
    /\ standing[c][r] # "out"
    /\ \E o \in Riders \ {r} : standing[c][o] \in Manning
    /\ standing[c][r] = "leader" => \E o \in Riders : standing[c][o] = "officer"
    /\ Stands(c, r, "out")
    /\ UNCHANGED crew

\* A leader ranks anybody and may hand over; an officer ranks members, up to
\* officer, and may step down.
Rank(c, a, r) ==
    /\ standing[c][a] \in Office /\ standing[c][r] \in Manning
    /\ \E as \in Manning :
          /\ standing[c][a] = "officer" =>
                as # "leader" /\ (standing[c][r] \in Office => r = a)
          /\ a = r /\ standing[c][a] = "leader" => as = "leader"
          /\ standing' = [standing EXCEPT
                ![c][a] = IF as = "leader" THEN "officer" ELSE @,
                ![c][r] = as]
    /\ UNCHANGED crew

\* A member takes the lead from the one who has it, or from nobody.
TakeOver(c, r) ==
    /\ crew[c] = "living" /\ standing[c][r] \in {"member", "officer"}
    /\ \/ Leaders(c) = {} /\ Stands(c, r, "leader")
       \/ \E l \in Leaders(c) :
            standing' = [standing EXCEPT ![c][l] = "member", ![c][r] = "leader"]
    /\ UNCHANGED crew

\* A crew goes down with everybody in it.
Close(c) ==
    /\ crew[c] # "none"
    /\ crew' = [crew EXCEPT ![c] = "folded"]
    /\ standing' = [standing EXCEPT ![c] = [r \in Riders |-> "out"]]

\* Riders who are in no crew come back into this one, and it has a leader.
Reopen(c) ==
    /\ crew[c] # "none"
    /\ crew' = [crew EXCEPT ![c] = "living"]
    /\ \E now \in [Riders -> Standings] :
          /\ \A r \in Riders :
                \/ now[r] = standing[c][r]
                \/ Free(r) /\ now[r] \in Manning
                \/ Leaders(c) = {} /\ r \in Members(c) /\ now[r] = "leader"
          /\ \E r \in Riders : now[r] = "leader"
          /\ standing' = [standing EXCEPT ![c] = now]

Next ==
    \/ \E c \in CrewIds, r \in Riders :
          Found(c, r) \/ Enter(c, r) \/ Depart(c, r) \/ TakeOver(c, r)
    \/ \E c \in CrewIds, a, r \in Riders : Rank(c, a, r)
    \/ \E c \in CrewIds : Close(c) \/ Reopen(c)

Spec == Init /\ [][Next]_vars

-----------------------------------------------------------------------------
TypeOK ==
    /\ crew \in [CrewIds -> {"none", "living", "folded"}]
    /\ standing \in [CrewIds -> [Riders -> Standings]]

\* A rider stands in one crew at most, asking included.
OneCrew ==
    \A r \in Riders, c, d \in CrewIds :
        standing[c][r] # "out" /\ standing[d][r] # "out" => c = d

\* A living crew is manned, and nobody stands in any other.
Manned ==
    \A c \in CrewIds :
        IF crew[c] = "living" THEN Members(c) # {}
        ELSE \A r \in Riders : standing[c][r] = "out"
=============================================================================
