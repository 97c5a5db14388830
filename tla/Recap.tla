------------------------------- MODULE Recap -------------------------------
(***************************************************************************)
(* The daily recap (services/telegram.py: run_daily_if_due, the loop of    *)
(* main.py that calls it, and the settings page that writes the same       *)
(* file): the recap of yesterday is posted after the hour, and the day is  *)
(* marked in data/telegram.json by a read and a write without a lock.      *)
(***************************************************************************)
EXTENDS Integers

CONSTANTS
    LastDay,        \* bound: the days are 0..LastDay
    MaxMishaps      \* bound: crashes and saves of the settings

ASSUME RecapAssumption == LastDay \in Nat /\ MaxMishaps \in Nat

VARIABLES
    today,      \* the local date, and whether summary_time has passed
    settingsFile,   \* telegram.json: the switch, the day last recapped
    loop,       \* run_daily_if_due() on its thread
    form,       \* an admin's save of the settings: the file as it was read
    mishaps     \* crashes and saves of the settings

recapVars == <<today, settingsFile, loop, form, mishaps>>

NoForm == [open |-> FALSE, on |-> FALSE, last |-> -1]
Resting == [at |-> "idle", day |-> -1, on |-> FALSE]

RecapInit ==
    /\ today = [date |-> 0, late |-> FALSE]
    /\ settingsFile = [on |-> TRUE, last |-> -1]
    /\ loop = Resting /\ form = NoForm
    /\ mishaps = 0

-----------------------------------------------------------------------------
\* Time passes, and stands still at the end of the last day.
Clock ==
    /\ today' = IF ~today.late THEN [today EXCEPT !.late = TRUE]
                ELSE IF today.date < LastDay THEN [date |-> today.date + 1, late |-> FALSE]
                ELSE today
    /\ UNCHANGED <<settingsFile, loop, form, mishaps>>

\* run_daily_if_due(): after the hour, and yesterday is not the day of the mark.
IsDue == settingsFile.on /\ today.late /\ settingsFile.last # today.date - 1

BadLookAtClock ==
    /\ loop.at = "idle" /\ IsDue /\ today.date > 0
    /\ loop' = [Resting EXCEPT !.at = "post", !.day = today.date]
    /\ UNCHANGED <<today, settingsFile, form, mishaps>>
LookAtClock ==
    /\ loop.at = "idle" /\ IsDue /\ today.date > 0
    /\ loop' = [Resting EXCEPT !.at = "post", !.day = today.date - 1]
    /\ UNCHANGED <<today, settingsFile, form, mishaps>>

\* The recap is posted, or the day was silent and there is none.
PostRecap ==
    /\ loop.at = "post"
    /\ loop' = [loop EXCEPT !.at = "load"]
    /\ UNCHANGED <<today, settingsFile, form, mishaps>>

\* update_config() reads the file again, and writes what it has read but for
\* the day of the mark.
LoadMark ==
    /\ loop.at = "load"
    /\ loop' = [loop EXCEPT !.at = "save", !.on = settingsFile.on]
    /\ UNCHANGED <<today, settingsFile, form, mishaps>>

BadMarked == [on |-> loop.on, last |-> settingsFile.last]
Marked == [on |-> loop.on, last |-> loop.day]
SaveMark ==
    /\ loop.at = "save"
    /\ settingsFile' = Marked
    /\ loop' = Resting
    /\ UNCHANGED <<today, form, mishaps>>

\* An admin's save of the settings is the same, and may come in between.
OpenForm ==
    /\ ~form.open /\ mishaps < MaxMishaps /\ mishaps' = mishaps + 1
    /\ form' = [open |-> TRUE, on |-> settingsFile.on, last |-> settingsFile.last]
    /\ UNCHANGED <<today, settingsFile, loop>>
SaveForm ==
    /\ form.open /\ form' = NoForm
    /\ \E on \in BOOLEAN : settingsFile' = [on |-> on, last |-> form.last]
    /\ UNCHANGED <<today, loop, mishaps>>

\* The process dies.
CrashRecap ==
    /\ mishaps < MaxMishaps /\ mishaps' = mishaps + 1
    /\ loop' = Resting /\ form' = NoForm
    /\ UNCHANGED <<today, settingsFile>>

RecapStep == LookAtClock \/ PostRecap \/ LoadMark \/ SaveMark

RecapNext ==
    \/ RecapStep \/ Clock \/ OpenForm \/ SaveForm \/ CrashRecap

\* The loop comes round every five minutes and its thread runs to its end.
RecapFairness == WF_recapVars(RecapStep)

RecapSpec == RecapInit /\ [][RecapNext]_recapVars /\ RecapFairness

-----------------------------------------------------------------------------
\* The mark is never ahead of yesterday.
RecapTypeOK ==
    /\ today \in [date : 0..LastDay, late : BOOLEAN]
    /\ settingsFile \in [on : BOOLEAN, last : -1..LastDay]
    /\ loop \in [at : {"idle", "post", "load", "save"}, day : -1..LastDay, on : BOOLEAN]
    /\ form \in [open : BOOLEAN, on : BOOLEAN, last : -1..LastDay]
    /\ mishaps \in 0..MaxMishaps
    /\ settingsFile.last < today.date

\* However saves of the settings and crashes cut across it, a day that stays and
\* has the recap on is marked in the end, and stays marked: the loop does not
\* post it over and over.
RecapSettles ==
    <>[](settingsFile.on /\ today.late /\ today.date > 0)
        => <>[](settingsFile.last = today.date - 1)
=============================================================================
