----------------------------- MODULE Territory -----------------------------
(***************************************************************************)
(* Crew territory: how services/territory.py turns the rides of a window   *)
(* into ground, and how the clan_cells table carries the last map into the *)
(* next one.                                                               *)
(*                                                                         *)
(* A ride is a route, which says what it counts for in each square once    *)
(* the weekly cap and the scaling to the odometer are applied.  Its weight *)
(* halves with every tick, the half-life, and it leaves the window after   *)
(* Window ticks.  The operators take the names and the arguments of the    *)
(* functions they translate: acc is what accumulate() returns, prev the    *)
(* map of the last rebuild, live the crews not folded.                     *)
(*                                                                         *)
(* The grid is below eight squares a side, where no ring encloses more     *)
(* squares than it has itself, so the cap on enclosed ground never bites.  *)
(* Rankings, warnings, targets and the file the map is drawn from are left *)
(* out.  A definition named Bad... is a mistake the code could make in the *)
(* definition after it.                                                    *)
(***************************************************************************)
EXTENDS Integers, SequencesExt

CONSTANTS
    Crews,          \* clan ids, whose order the rebuild follows
    Width, Height,  \* squares of the grid
    Routes, Km,     \* Km[route][square]: the square's share of a fresh ride
    Floor,          \* min_lead_km
    Window,         \* age in ticks of a ride that has left the window
    Outings,        \* bound: the routes a crew rides, <<crew, route>>
    MaxRides,       \* bound: rides in the window at a time
    MayFold         \* bound: crews that fold and come back

ASSUME GridAssumption == Width \in 1..7 /\ Height \in 1..7
ASSUME RoutesAssumption ==
    IsFiniteSet(Routes) /\ Km \in [Routes -> [(1..Width) \X (1..Height) -> Nat]]
ASSUME NumbersAssumption == Floor \in Nat \ {0} /\ Window \in Nat \ {0} /\ MaxRides \in Nat
ASSUME CrewsAssumption == Crews \subseteq Nat /\ IsFiniteSet(Crews)

VARIABLES
    rides,      \* rides[c][route]: age of the crew's ride there, Window for none
    live,       \* crews that are founded and not folded
    cells       \* the clan_cells rows: <<square, crew>>

vars == <<rides, live, cells>>

-----------------------------------------------------------------------------
Squares == (1..Width) \X (1..Height)
Around == (0..(Width + 1)) \X (0..(Height + 1))
Edge == Around \ Squares

Sides(s) == {<<s[1] + 1, s[2]>>, <<s[1] - 1, s[2]>>, <<s[1], s[2] + 1>>, <<s[1], s[2] - 1>>}
Corners(s) == {s[1] - 1, s[1] + 1} \X {s[2] - 1, s[2] + 1}
Block(s) == {s[1], s[1] + 1} \X {s[2], s[2] + 1}

\* A map is a set of <<square, crew>>; Of is the ground of one crew on it.
Of(map, c) == {s \in Squares : <<s, c>> \in map}
On(map) == {claim[1] : claim \in map}

Beside(S) == UNION {Sides(s) : s \in S}

\* What can be reached from S inside H, square by square over the edges.
Flood(S, H) ==
    LET more[reached \in SUBSET H] ==
            LET next == reached \cup (Beside(reached) \cap H)
            IN  IF next = reached THEN reached ELSE more[next]
    IN  more[S \cap H]

\* The patch of one of the squares that are left.
Part(left) == Flood({CHOOSE s \in left : TRUE}, left)

\* regions(): the patches H falls into.
Regions(H) ==
    LET parts[left \in SUBSET H] ==
            IF left = {} THEN {}
            ELSE LET part == Part(left)
                 IN  {part} \cup parts[left \ part]
    IN  parts[H]

-----------------------------------------------------------------------------
Decayed(km, age) ==
    LET halved[n \in 0..Window] == IF n = 0 THEN km ELSE halved[n - 1] \div 2
    IN  IF age >= Window THEN 0 ELSE halved[age]

\* accumulate(): kilometres per crew and square, decayed.
Accumulate ==
    [c \in Crews |-> [s \in Squares |->
        SumFunction([r \in Routes |-> Decayed(Km[r][s], rides[c][r])])]]

\* defender_mult(), in sixteenths: holding all four sides is worth a quarter.
Score(acc, prev, s, c) ==
    acc[c][s] * (16 + Cardinality({t \in Sides(s) : <<t, c>> \in prev}))

Met(first, c, d) == c = first \/ (d # first /\ c < d)

BadBeats(acc, prev, first, s, c, d) ==
    \/ <<s, c>> \in prev
    \/ <<s, d>> \notin prev /\ Score(acc, prev, s, c) > Score(acc, prev, s, d)

\* A tie goes to the holder: the recency that was to come first is
\* max(0, -age), the same for everybody.  Without a holder it goes to the crew
\* that is met first in the square, the one whose newest ride there is the
\* newer; a rebuild takes any crew for it.
Beats(acc, prev, first, s, c, d) ==
    LET mine == Score(acc, prev, s, c)
        theirs == Score(acc, prev, s, d)
    IN  \/ mine > theirs
        \/ mine = theirs /\ (<<s, c>> \in prev \/ (<<s, d>> \notin prev /\ Met(first, c, d)))

InLine(acc, blocked, s) == {c \in Crews : acc[c][s] >= Floor /\ <<s, c>> \notin blocked}

BadStanding(prev, blocked, s) == {}

\* Where nobody is above the floor the holder keeps the square.
Standing(prev, blocked, s) == {c \in Crews : <<s, c>> \in prev \ blocked}

\* winners(): nobody or one crew per square.
Winner(acc, prev, first, blocked, s) ==
    LET line == InLine(acc, blocked, s)
    IN  IF line = {} THEN Standing(prev, blocked, s)
        ELSE {c \in line : \A d \in line \ {c} : Beats(acc, prev, first, s, c, d)}
Winners(acc, prev, first, blocked) ==
    UNION {{s} \X Winner(acc, prev, first, blocked, s) : s \in Squares}

BadSeeds(H) == H

\* seeded(): a crew draws what hangs together with a full block of its own.
Seeds(H) == UNION {Block(s) : s \in {s \in H : Block(s) \subseteq H}}
Seeded(H) == Flood(Seeds(H), H)
Drawable(won, alive) == UNION {Seeded(Of(won, c)) \X {c} : c \in alive}

\* A claim that cannot be drawn passes on to the others in line, if there are any.
Withdrawn(acc, won, kept, blocked) ==
    {claim \in won \ kept : InLine(acc, blocked, claim[1]) \ {claim[2]} # {}}

Rounds == 8

\* The loop of award(): the number of the round, and the claims withdrawn so far.
Awarded(acc, alive, prev, first) ==
    LET round[at \in (1..Rounds) \X SUBSET (Squares \X Crews)] ==
            LET blocked == at[2]
                won == Winners(acc, prev, first, blocked)
                kept == Drawable(won, alive)
                out == Withdrawn(acc, won, kept, blocked)
            IN  IF out = {} \/ at[1] = Rounds THEN kept
                ELSE round[<<at[1] + 1, blocked \cup out>>]
    IN  round[<<1, {}>>]

-----------------------------------------------------------------------------
\* The squares beside the corner of s and t that may join crew c's ground there:
\* held by nobody, with no rival in the gap, and ridden by nobody harder.
Gap(s, t) == {<<s[1], t[2]>>, <<t[1], s[2]>>}
Joins(acc, map, c, s, t) ==
    IF Gap(s, t) \cap On(map) \subseteq Of(map, c)
    THEN {g \in Gap(s, t) \ On(map) :
            acc[c][g] > 0 /\ \A d \in Crews : acc[d][g] <= acc[c][g]}
    ELSE {}
Further(acc, c, g, h) ==
    \/ acc[c][g] > acc[c][h]
    \/ acc[c][g] = acc[c][h] /\ (g[1] < h[1] \/ (g[1] = h[1] /\ g[2] < h[2]))
Best(acc, c, G) == {g \in G : \A h \in G \ {g} : Further(acc, c, g, h)}

\* Where two patches of a crew's ground touch at a corner.
Meetings(mine) ==
    LET patches == Regions(mine)
    IN  {p \in mine \X mine :
            p[2] \in Corners(p[1]) /\ ~\E patch \in patches : {p[1], p[2]} \subseteq patch}

Pass(acc, map, c) ==
    map \cup UNION {Best(acc, c, Joins(acc, map, c, p[1], p[2])) \X {c} :
                     p \in Meetings(Of(map, c))}

Passes(acc, map, c) == Pass(acc, Pass(acc, Pass(acc, map, c), c), c)

\* _bridge(): crew after crew, three passes each.
Bridge(map, acc) ==
    MapThenFoldSet(LAMBDA c, m : Passes(acc, m, c), map, LAMBDA c : c, Max, Crews)

BadTaken(map, closed, comp) == {}

\* What a region may not swallow: other ground on the map, and what was closed.
Taken(map, closed, comp) == (On(map) \ comp) \cup On(closed \ map)

BadFillEnclosed(comp, taken) ==
    Around \ (comp \cup Flood({<<1, 1>>}, Around \ comp) \cup taken)

\* fill_enclosed(): what cannot be reached from outside and nobody else holds.
FillEnclosed(comp, taken) == Squares \ (comp \cup Flood(Edge, Around \ comp) \cup taken)

Closing(map, closed, c) ==
    closed \cup UNION {FillEnclosed(comp, Taken(map, closed, comp)) \X {c} :
                        comp \in Regions(Of(map, c))}

\* _close_holes(): crew after crew, region after region.
CloseHoles(map) ==
    MapThenFoldSet(LAMBDA c, m : Closing(map, m, c), map, LAMBDA c : c, Max, Crews)

Award(acc, alive, prev, first) == CloseHoles(Bridge(Awarded(acc, alive, prev, first), acc))

-----------------------------------------------------------------------------
Init ==
    /\ rides = [c \in Crews |-> [r \in Routes |-> Window]]
    /\ live = Crews
    /\ cells = {}

InWindow == {p \in Crews \X Routes : rides[p[1]][p[2]] < Window}

\* A validated ride, stamped with the crew; it may be older than its upload.
Ride(c, r, age) ==
    /\ c \in live /\ <<c, r>> \in Outings /\ rides[c][r] = Window
    /\ Cardinality(InWindow) < MaxRides
    /\ rides' = [rides EXCEPT ![c][r] = age]
    /\ UNCHANGED <<live, cells>>

Tick ==
    /\ rides' = [c \in Crews |-> [r \in Routes |->
            IF rides[c][r] < Window THEN rides[c][r] + 1 ELSE Window]]
    /\ UNCHANGED <<live, cells>>

\* disband() and the admin's, who may press it for a crew that has folded: the
\* rows go with the crew.
Disband(c) ==
    /\ c \in MayFold
    /\ live' = live \ {c}
    /\ cells' = cells \ (Squares \X {c})
    /\ UNCHANGED rides

\* leave() by the last one in: the rows stay.
LastOneOut(c) ==
    /\ c \in live \cap MayFold
    /\ live' = live \ {c}
    /\ UNCHANGED <<rides, cells>>

Restore(c) ==
    /\ c \notin live
    /\ live' = live \cup {c}
    /\ UNCHANGED <<rides, cells>>

Rebuild ==
    /\ \E acc \in {Accumulate}, first \in Crews : cells' = Award(acc, live, cells, first)
    /\ UNCHANGED <<rides, live>>

Next ==
    \/ \E c \in Crews, r \in Routes, age \in 0..(Window - 1) : Ride(c, r, age)
    \/ \E c \in Crews : Disband(c) \/ LastOneOut(c) \/ Restore(c)
    \/ Tick \/ Rebuild

Spec == Init /\ [][Next]_vars

-----------------------------------------------------------------------------
TypeOK ==
    /\ rides \in [Crews -> [Routes -> 0..Window]]
    /\ live \subseteq Crews
    /\ cells \subseteq Squares \X Crews

\* No square is drawn for two crews, whatever was bridged and enclosed.
DrawnOnce == \A p, q \in cells : p[1] = q[1] => p = q

\* Whatever else changes the map than a rebuild folds a crew, or folds it again.
Redrawn == UNCHANGED <<rides, live>> /\ ~\E c \in Crews : Disband(c)

Planted(patch) == \E s \in patch : Block(s) \subseteq patch

\* Each patch that a rebuild draws has a full block in it, bridged and filled as
\* it is, or it is a hole within a hole: a gap that other crews' ground closes
\* on every side, inside a ring of the crew's own.
PatchesArePlanted ==
    [][Redrawn => \A c \in Crews : \A patch \in Regions(Of(cells', c)) :
        \/ Planted(patch)
        \/ \A s \in patch : Sides(s) \subseteq On(cells')]_vars

\* winners() promises that ground is lost to somebody and never to nobody: a
\* patch of a living crew with a block in it, where no other crew is above the
\* floor, outlives the rebuild whole, however long ago it was ridden.
NothingLostToNobody ==
    [][Redrawn => LET acc == Accumulate IN
        \A c \in live : \A patch \in Regions(Of(cells, c)) :
            Planted(patch) /\ (\A s \in patch, d \in Crews \ {c} : acc[d][s] < Floor)
                => patch \X {c} \subseteq cells']_vars

\* A living crew that out-rides everybody, the holder's edge included, in every
\* square of a block draws the block, whatever the withdrawn claims of others do.
OutriddenBlockChangesHands ==
    [][Redrawn => LET acc == Accumulate IN
        \A c \in live : \A s \in Squares :
            /\ Block(s) \subseteq Squares
            /\ \A b \in Block(s) :
                  /\ acc[c][b] >= Floor
                  /\ \A d \in Crews \ {c} : 16 * acc[c][b] > 20 * acc[d][b]
            => Block(s) \X {c} \subseteq cells']_vars
=============================================================================
