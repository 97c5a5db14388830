----------------------------- MODULE CrewsRace -----------------------------
(***************************************************************************)
(* Membership requests that run in parallel.  Handlers run in a pool of    *)
(* threads over sessions that do not flush by themselves, so a request     *)
(* reads and decides before its transaction begins, and writes in one      *)
(* commit; what it read may be out of date by then.                        *)
(*                                                                         *)
(* One request at a time is slow: it decides, as Crews has it, on a draft  *)
(* of the tables and commits later.  Requests that are quick, any number   *)
(* of them, are the steps of Crews and come in between.  Two requests that *)
(* both decide before either commits are a quick one inside a slow one.    *)
(***************************************************************************)
EXTENDS Crews

VARIABLES
    slow,       \* a request has decided and not committed
    base,       \* the tables as it read them
    draftCrew, draftAsks, draftRows,    \* the tables as it leaves them
    draftRestored, draftTook

draft == <<draftCrew, draftAsks, draftRows, draftRestored, draftTook>>
raceVars == <<vars, slow, base, draft>>

S == INSTANCE Crews WITH
        crew <- draftCrew, asks <- draftAsks, rows <- draftRows,
        restored <- draftRestored, took <- draftTook

Tables == [crew |-> crew, asks |-> asks, rows |-> rows, took |-> took]

\* While no request is slow, base and draft follow the tables.
RaceInit == /\ Init /\ slow = FALSE
            /\ base = Tables
            /\ draftCrew = crew /\ draftAsks = asks /\ draftRows = rows
            /\ draftRestored = restored /\ draftTook = took
Follow ==
    /\ base' = Tables'
    /\ draftCrew' = crew' /\ draftAsks' = asks' /\ draftRows' = rows'
    /\ draftRestored' = restored' /\ draftTook' = took'

-----------------------------------------------------------------------------
\* A request takes no days, so time stands while one is slow.
QuickStep ==
    /\ \/ \E c \in CrewIds, r \in Riders : RiderStep(r, c)
       \/ \E c \in CrewIds, a, r \in Riders : RosterStep(a, c, r)
       \/ \E c \in CrewIds : AdminDisband(c) \/ Restore(c)
       \/ Sweep
       \/ ~slow /\ Tick
    /\ UNCHANGED slow
    /\ IF slow THEN UNCHANGED <<base, draft>> ELSE Follow

\* A restore flushes half-way and holds the write lock from there: it is quick.
Decide ==
    /\ ~slow /\ slow' = TRUE
    /\ \/ \E c \in CrewIds, r \in Riders : S!RiderStep(r, c)
       \/ \E c \in CrewIds, a, r \in Riders : S!RosterStep(a, c, r)
       \/ \E c \in CrewIds : S!AdminDisband(c)
    /\ UNCHANGED <<vars, base>>

\* A commit writes the columns the request has changed and no others.
Written(now, read, want) == IF want = read THEN now ELSE want
WrittenSet(now, read, want) == (now \cup (want \ read)) \ (read \ want)
RowWritten(now, read, want) ==
    [f \in DOMAIN now |->
        IF f = "elders" THEN WrittenSet(now.elders, read.elders, want.elders)
        ELSE Written(now[f], read[f], want[f])]

\* A row that was to be inserted is there by now, or one to be updated is gone:
\* the commit raises and nothing is written.
Refused ==
    \E c \in CrewIds, r \in Riders :
        /\ [draftRows[c][r] EXCEPT !.elders = {}] # [base.rows[c][r] EXCEPT !.elders = {}]
        /\ (base.rows[c][r].status = "none") # (rows[c][r].status = "none")

Commit ==
    /\ slow /\ slow' = FALSE
    /\ IF Refused THEN UNCHANGED vars
       ELSE /\ crew' = [c \in CrewIds |-> Written(crew[c], base.crew[c], draftCrew[c])]
            /\ asks' = WrittenSet(asks, base.asks, draftAsks)
            /\ rows' = [c \in CrewIds |-> [r \in Riders |->
                    RowWritten(rows[c][r], base.rows[c][r], draftRows[c][r])]]
            /\ took' = [c \in CrewIds |-> Written(took[c], base.took[c], draftTook[c])]
            /\ UNCHANGED restored
    /\ Follow

RaceNext == QuickStep \/ Decide \/ Commit

RaceSpec == RaceInit /\ [][RaceNext]_raceVars
=============================================================================
