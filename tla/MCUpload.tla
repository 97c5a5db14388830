----------------------------- MODULE MCUpload -----------------------------
(* What becomes of an upload, for TLC: its summary, its place in the sums   *)
(* and the crew it counts for share no state here, so a behaviour moves one *)
(* of them and the others rest where they begin.                            *)
EXTENDS MCAggregation, Telemetry, Credit

VARIABLE moving

At(wheel, gps, load) == [wheel |-> wheel, gps |-> gps, load |-> load]
Readings5 == {At(0, 0, 0), At(30, 30, 9), At(30, 0, 5), At(50, 45, 4), At(30, Absent, 2)}
Gaps3 == {0, 2, 7}

RiddenByAnn == t1 :> ann

uploadVars == <<vars, telemetryVars, creditVars, moving>>

UploadInit ==
    /\ Init /\ TelemetryInit /\ CreditInit
    /\ moving \in {"jobs", "summary", "credit"}

JobsMove == moving = "jobs" /\ Next /\ UNCHANGED <<telemetryVars, creditVars, moving>>
SummaryMoves ==
    moving = "summary" /\ TelemetryNext /\ UNCHANGED <<vars, creditVars, moving>>
CreditMoves ==
    moving = "credit" /\ CreditNext /\ UNCHANGED <<vars, telemetryVars, moving>>

UploadNext == JobsMove \/ SummaryMoves \/ CreditMoves

UploadSpec == UploadInit /\ [][UploadNext]_uploadVars

\* The jobs, the passes of a summary and the credits keep their types.
UploadTypeOK == TypeOK /\ TelemetryTypeOK /\ CreditTypeOK
=============================================================================
