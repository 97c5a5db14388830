------------------------------ MODULE Telemetry ------------------------------
(***************************************************************************)
(* The passes of ingest/summary.py over a ride's samples that make the     *)
(* records: top speed, sustained load, launch and stop times.  Each pass   *)
(* keeps a few variables and reads the log once; the action NextSample is  *)
(* one turn of each of their loops.  The properties say what a pass        *)
(* promises of the whole log, in terms of the log alone.                   *)
(*                                                                         *)
(* Times are whole seconds and speeds whole km/h; a figure the code        *)
(* interpolates or averages is a fraction <<numerator, denominator>>.      *)
(***************************************************************************)
EXTENDS Integers, FiniteSets, Sequences, SequencesExt, FiniteSetsExt

CONSTANTS
    Readings,       \* what a sample may read: [wheel, gps, load]
    Gaps,           \* seconds between samples; 0 where the clock is coarse
    MaxSamples,     \* bound: samples of a log
    Accel, AccelGap,            \* max_accel, accel_gap_max_s
    Window, MoveKmh,            \* window_s, MOVE_KMH
    NearStop, Target, LaunchGap,    \* start_kmh, target_kmh, max_gap_s
    DipNum, DipDen,             \* dip_frac, a fraction
    LeastS, MostS,  \* the launch times that count: LeastS is the larger of
                    \* min_s and the time that max_g allows
    StopFrom, StopTo, MaxDecel  \* from_kmh, to_kmh, max_decel of _fastest_stop

Absent == -1

ASSUME TelemetryAssumption ==
    /\ Readings \subseteq [wheel: Nat \cup {Absent}, gps: Nat \cup {Absent}, load: Nat]
    /\ Gaps \subseteq Nat
    /\ {Accel, AccelGap, Window, MoveKmh, NearStop, Target, LaunchGap, DipNum, DipDen,
        LeastS, MostS, StopFrom, StopTo, MaxDecel} \subseteq Nat
    /\ NearStop < Target /\ StopTo < StopFrom /\ DipNum <= DipDen
    /\ MaxSamples \in Nat \ {0}

VARIABLES
    log,        \* the samples read so far, each with its time t
    track,      \* _speeds: plausible, prev_t, realistic
    held,       \* _sustained_max: left, ssum, best
    launch,     \* _fastest_0_40: start, runmax, prev, best
    braking     \* _fastest_stop: start_t, start_v, best

telemetryVars == <<log, track, held, launch, braking>>

None == <<>>        \* no figure
Less(a, b) == a[1] * b[2] < b[1] * a[2]
Greater(a, b) == Less(b, a)
Higher(a, b) == IF a = None THEN b ELSE IF b # None /\ Less(a, b) THEN b ELSE a
Lower(a, b) == IF a = None THEN b ELSE IF b # None /\ Less(b, a) THEN b ELSE a
Least(a, b) == IF a < b THEN a ELSE b
Most(a, b) == IF a < b THEN b ELSE a

\* The lower of wheel and GPS, the wheel where there is no GPS.
CorrobSpeed(s) ==
    IF s.wheel = Absent \/ s.gps = Absent THEN s.wheel ELSE Least(s.wheel, s.gps)

\* The movement gate of the sustained figures.
IsMoving(s) == CorrobSpeed(s) >= MoveKmh

-----------------------------------------------------------------------------
\* _speeds(): the speed may fall at once and rise only as fast as a wheel can;
\* a gap in the log allows no more than AccelGap seconds of rise.
Allowance(dt) == Accel * Least(dt, AccelGap)

BadTrackStep(k, s) ==
    LET v == CorrobSpeed(s)
        p == IF k.plausible = Absent \/ v <= k.plausible THEN v
             ELSE Least(v, k.plausible + Accel * (s.t - k.at))
    IN  IF v = Absent THEN k
        ELSE [plausible |-> p, at |-> s.t, realistic |-> Most(k.realistic, p)]

TrackStep(k, s) ==
    LET v == CorrobSpeed(s)
        p == IF k.plausible = Absent \/ v <= k.plausible THEN v
             ELSE Least(v, k.plausible + Allowance(s.t - k.at))
    IN  IF v = Absent THEN k
        ELSE [plausible |-> p, at |-> s.t, realistic |-> Most(k.realistic, p)]

\* _sustained_max() over the samples that pass the gate, told by their places in
\* the log: a window that slides, its sum kept by adding and taking away, begun
\* afresh after a hole.
Points(samples) == {i \in 1..Len(samples) : IsMoving(samples[i])}
Before(P, k) == Max({j \in P : j < k})
LoadOf(samples, P) == SumFunction([i \in P |-> samples[i].load])

BadHeldStep(h, samples) ==
    LET right == Len(samples)
        points == Points(samples)
        Late(k) == samples[right].t - samples[k].t > Window
        left == CHOOSE l \in points :
                    h.left <= l /\ ~Late(l) /\ \A k \in points : h.left <= k /\ k < l => Late(k)
        sum == h.sum + samples[right].load
               - LoadOf(samples, {k \in points : h.left <= k /\ k < left})
    IN  [left |-> left, sum |-> sum,
         best |-> Higher(h.best, <<sum, Cardinality({k \in points : left <= k})>>)]

HeldStep(h, samples) ==
    LET right == Len(samples)
        points == Points(samples)
        Late(k) == samples[right].t - samples[k].t > Window
        hole == points # {right} /\ Late(Before(points, right))
        from == IF hole THEN right ELSE h.left
        left == CHOOSE l \in points :
                    from <= l /\ ~Late(l) /\ \A k \in points : from <= k /\ k < l => Late(k)
        sum == (IF hole THEN 0 ELSE h.sum) + samples[right].load
               - LoadOf(samples, {k \in points : from <= k /\ k < left})
        counts == left < right /\ 2 * (samples[right].t - samples[left].t) >= Window
    IN  [left |-> left, sum |-> sum,
         best |-> IF counts
                  THEN Higher(h.best, <<sum, Cardinality({k \in points : left <= k})>>)
                  ELSE h.best]

\* _fastest_0_40(): the seconds from the start to the moment the target is
\* crossed, on the line from the last sample to this one.
Crossing(start, t0, v0, t1, v1) ==
    <<(t0 - start) * (v1 - v0) + (t1 - t0) * (Target - v0), v1 - v0>>
Counted(time) ==
    IF Less(time, <<LeastS, 1>>) \/ Less(<<MostS, 1>>, time) THEN None ELSE time

BadUnarmed(a) == [a EXCEPT !.peak = 0]

Unarmed(a) == [a EXCEPT !.start = Absent, !.peak = 0]

Attempt(a, s) ==
    LET v == CorrobSpeed(s)
    IN  IF v <= NearStop /\ s.wheel <= NearStop
        THEN [a EXCEPT !.start = s.t, !.peak = v]
        ELSE IF a.start = Absent THEN a
        ELSE IF v * DipDen < a.peak * DipNum THEN Unarmed(a)
        ELSE IF v < Target THEN [a EXCEPT !.peak = Most(@, v)]
        ELSE [Unarmed(a) EXCEPT !.best =
                  Lower(@, Counted(Crossing(a.start, a.at, a.v, s.t, v)))]

LaunchStep(a, s) ==
    IF s.wheel = Absent \/ s.gps = Absent THEN [Unarmed(a) EXCEPT !.at = Absent]
    ELSE [Attempt(IF a.at # Absent /\ s.t - a.at > LaunchGap THEN Unarmed(a) ELSE a, s)
             EXCEPT !.at = s.t, !.v = CorrobSpeed(s)]

BadStopStep(b, s) ==
    LET v == CorrobSpeed(s)
    IN  IF v = Absent THEN b
        ELSE IF v >= StopFrom /\ b.at = Absent THEN [b EXCEPT !.at = s.t, !.v = v]
        ELSE IF v <= StopTo /\ b.at # Absent
        THEN [at |-> Absent, v |-> 0, best |-> Lower(b.best, <<s.t - b.at, 1>>)]
        ELSE b

\* _fastest_stop(): from the latest moment at the entry speed to a standstill.
StopStep(b, s) ==
    LET v == CorrobSpeed(s)
        dt == s.t - b.at
        physical == dt > 0 /\ b.v - v <= MaxDecel * dt
    IN  IF v = Absent THEN b
        ELSE IF v >= StopFrom THEN [b EXCEPT !.at = s.t, !.v = v]
        ELSE IF v <= StopTo /\ b.at # Absent
        THEN [at |-> Absent, v |-> 0,
              best |-> IF physical THEN Lower(b.best, <<dt, 1>>) ELSE b.best]
        ELSE b

-----------------------------------------------------------------------------
NoTrack == [plausible |-> Absent, at |-> Absent, realistic |-> Absent]
NoneHeld == [left |-> 1, sum |-> 0, best |-> None]
NoLaunch == [start |-> Absent, peak |-> 0, at |-> Absent, v |-> 0, best |-> None]
NoStop == [at |-> Absent, v |-> 0, best |-> None]

TelemetryInit ==
    log = <<>> /\ track = NoTrack /\ held = NoneHeld /\ launch = NoLaunch /\ braking = NoStop

\* The next sample of the log, a row of the uploaded file in its order.
NextSample(reading, gap) ==
    /\ Len(log) < MaxSamples
    /\ LET s == [wheel |-> reading.wheel, gps |-> reading.gps, load |-> reading.load,
                 t |-> IF log = <<>> THEN 0 ELSE log[Len(log)].t + gap]
       IN  /\ log' = Append(log, s)
           /\ track' = TrackStep(track, s)
           /\ held' = IF IsMoving(s) THEN HeldStep(held, log') ELSE held
           /\ launch' = LaunchStep(launch, s)
           /\ braking' = StopStep(braking, s)

\* The log is summarised; the next upload brings another.
NextUpload ==
    /\ Len(log) = MaxSamples
    /\ log' = <<>> /\ track' = NoTrack /\ held' = NoneHeld
    /\ launch' = NoLaunch /\ braking' = NoStop

TelemetryNext ==
    \/ \E reading \in Readings, gap \in Gaps : NextSample(reading, gap)
    \/ NextUpload

TelemetrySpec == TelemetryInit /\ [][TelemetryNext]_telemetryVars

-----------------------------------------------------------------------------
Rational == {None} \cup (Int \X (Nat \ {0}))

TelemetryTypeOK ==
    /\ Len(log) <= MaxSamples
    /\ \A i \in 1..Len(log) : log[i].t \in Nat /\ (i > 1 => log[i - 1].t <= log[i].t)
    /\ {track.plausible, track.realistic} \subseteq Nat \cup {Absent}
    /\ held.left \in 1..MaxSamples /\ held.sum \in Nat
    /\ {held.best, launch.best, braking.best} \subseteq Rational

\* "A real top speed must be reached through believable acceleration": the
\* realistic top speed is the highest that some sample could have been reached
\* at from every sample before it, rising no faster than Accel.
Paced == {i \in 1..Len(log) : CorrobSpeed(log[i]) # Absent}
Rise(P, i, k) ==
    SumFunction([m \in {m \in P : i < m /\ m <= k} |->
                    Allowance(log[m].t - log[Before(P, m)].t)])
Reached(P, k) == Min({CorrobSpeed(log[i]) + Rise(P, i, k) : i \in {i \in P : i <= k}})
TopSpeed(P) == IF P = {} THEN Absent ELSE Max({Reached(P, k) : k \in P})
TopSpeedIsReached == track.realistic = TopSpeed(Paced)

\* "A window only counts as evidence that a value was HELD when it actually
\* covers the period": the sustained figure is the best average over a window
\* of two points or more, without a hole, that covers half the period; the
\* running sum never drifts from what it stands for.
Trailing(points, right) ==
    {l \in points :
        /\ l <= right /\ log[right].t - log[l].t <= Window
        /\ \A k \in points :
              l < k /\ k <= right => log[k].t - log[Before(points, k)].t <= Window}
Averages(points) ==
    {<<LoadOf(log, Trailing(points, right)), Cardinality(Trailing(points, right))>> :
        right \in {r \in points :
            \E l \in Trailing(points, r) : l < r /\ 2 * (log[r].t - log[l].t) >= Window}}
IsBest(best, figures, Beats(_, _)) ==
    IF figures = {} THEN best = None
    ELSE \E f \in figures : /\ best # None /\ ~Less(f, best) /\ ~Less(best, f)
                            /\ \A g \in figures : ~Beats(g, f)
SustainedIsHeld == IsBest(held.best, Averages(Points(log)), Greater)

\* "A launch only counts when it is a real, continuous run": from the last
\* sample at which wheel and GPS both stand, without a pause, a sample the GPS
\* does not vouch for or a dip, to the first that reaches the target.
GenuineLaunch(i, j) ==
    /\ i < j
    /\ \A k \in i..j : log[k].wheel # Absent /\ log[k].gps # Absent
    /\ \A k \in (i + 1)..j : log[k].t - log[k - 1].t <= LaunchGap
    /\ log[i].wheel <= NearStop
    /\ \A k \in (i + 1)..j : log[k].wheel > NearStop
    /\ \A k \in (i + 1)..(j - 1) : CorrobSpeed(log[k]) < Target
    /\ CorrobSpeed(log[j]) >= Target
    /\ \A k \in i..j : \A m \in i..k :
          CorrobSpeed(log[k]) * DipDen >= CorrobSpeed(log[m]) * DipNum
LaunchTimes ==
    {Crossing(log[p[1]].t, log[p[2] - 1].t, CorrobSpeed(log[p[2] - 1]),
              log[p[2]].t, CorrobSpeed(log[p[2]])) :
        p \in {q \in (1..Len(log)) \X (1..Len(log)) : GenuineLaunch(q[1], q[2])}}
LaunchIsGenuine == IsBest(launch.best, {Counted(x) : x \in LaunchTimes} \ {None}, Less)

\* "You must really be going fast, then really stop": a stop is timed from the
\* last sample at the entry speed to the first standstill after it, and is left
\* out when no tyre could have made it.
Stops ==
    {p \in (1..Len(log)) \X (1..Len(log)) :
        /\ p[1] < p[2] /\ log[p[1]].t < log[p[2]].t
        /\ CorrobSpeed(log[p[1]]) >= StopFrom
        /\ CorrobSpeed(log[p[2]]) \in 0..StopTo
        /\ \A k \in (p[1] + 1)..(p[2] - 1) :
              CorrobSpeed(log[k]) \notin 0..StopTo /\ CorrobSpeed(log[k]) < StopFrom
        /\ CorrobSpeed(log[p[1]]) - CorrobSpeed(log[p[2]])
              <= MaxDecel * (log[p[2]].t - log[p[1]].t)}
StopIsReal ==
    IsBest(braking.best, {<<log[p[2]].t - log[p[1]].t, 1>> : p \in Stops}, Less)
=============================================================================
