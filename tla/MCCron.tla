------------------------------ MODULE MCCron ------------------------------
(* What scripts/run_jobs.py runs beside, for TLC: the sums it reconciles    *)
(* and the snapshots it takes and rotates share no state, so a behaviour    *)
(* moves one of them and the other rests where it begins.                   *)
EXTENDS MCAggregation, Datasets

VARIABLE moving

cronVars == <<vars, datasetVars, moving>>

CronInit == moving \in {"sums", "snapshots"} /\ Init /\ DatasetsInit

SumsMove == moving = "sums" /\ Next /\ UNCHANGED <<datasetVars, moving>>
SnapshotsMove == moving = "snapshots" /\ DatasetsNext /\ UNCHANGED <<vars, moving>>

CronNext == SumsMove \/ SnapshotsMove

\* The fairness of Aggregation's FairSpec, where the sums are what moves.
CronFairness ==
    \A w \in Workers :
        WF_vars(moving = "sums" /\ Step(w)) /\ SF_vars(moving = "sums" /\ Reconcile(w))

CronSpec == CronInit /\ [][CronNext]_cronVars /\ CronFairness

\* The jobs, and the files and manifest of the snapshots, keep their types.
CronTypeOK == TypeOK /\ DatasetsTypeOK
=============================================================================
