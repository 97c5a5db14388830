--------------------------- MODULE Announcements ---------------------------
(***************************************************************************)
(* What the site tells its Telegram group of its own accord                *)
(* (services/telegram.py): the crew milestones read off the map after a    *)
(* redraw, measured against a snapshot of the redraw before.  Redraws are  *)
(* taken one at a time; Redraw has the ones that overlap.                  *)
(*                                                                         *)
(* A crew's ground is a number: 0 for none, 1 for a patch below the first  *)
(* rung of the ladder, n + 1 for a patch on rung n.                        *)
(***************************************************************************)
EXTENDS Integers, Sequences, SequencesExt, FiniteSets

CONSTANTS
    Told,           \* the crews
    Names,          \* the slugs crews can have; not 0
    Rungs,          \* the number of _SQUARE_RUNGS
    MaxShuffles     \* bound: crews founded, folded or restored, switches turned,
                    \* crashes

ASSUME AnnouncementsAssumption ==
    Rungs \in Nat \ {0} /\ 0 \notin Names /\ IsFiniteSet(Told)

VARIABLES
    slugOf,     \* slugOf[c]: the slug of a crew that is alive, 0 otherwise
    hadSlug,    \* the slug a folded crew would return to, 0 before it is founded
    ground,     \* terr_tiles and terr_best_tiles of a crew, as above
    toggles,    \* which of crew_first and crew_squares are on
    posting,    \* enabled, and configured
    snapshot,   \* tg_crew_state: slug -> ground and high-water rung
    outbox,     \* messages whose snapshot is committed, <<slug, rung>>
    shuffles,
    spoken,     \* history: spoken[s], the highest rung told of the crew on slug s
    before,     \* history: before[s], the ground on slug s at the redraw before
    unwatched   \* history: a redraw has gone by while nothing was switched on

tgCrewVars == <<slugOf, hadSlug, ground, toggles, posting, snapshot, outbox, shuffles>>
tgCrewHistory == <<spoken, before, unwatched>>

tgVars == <<tgCrewVars, tgCrewHistory>>

Grounds == 0..(Rungs + 1)
Rung(g) == IF g > 0 THEN g - 1 ELSE 0
Unseen == [seen |-> FALSE, patch |-> FALSE, rung |-> 0]
Toggles == {"first", "squares"}
CrewOn(s) == CHOOSE c \in Told : slugOf[c] = s
Alive == {c \in Told : slugOf[c] # 0}
SlugTaken(s) == \E c \in Told : slugOf[c] = s

TgInit ==
    /\ slugOf = [c \in Told |-> 0] /\ hadSlug = [c \in Told |-> 0]
    /\ ground = [c \in Told |-> 0]
    /\ toggles = Toggles /\ posting = TRUE
    /\ snapshot = [s \in Names |-> Unseen] /\ outbox = <<>> /\ shuffles = 0
    /\ spoken = [s \in Names |-> 0] /\ before = [s \in Names |-> 0] /\ unwatched = FALSE

-----------------------------------------------------------------------------
\* The life of a crew, as far as its slug: a fold frees it, a return takes it
\* back unless another crew has it by then.
Shuffle == shuffles < MaxShuffles /\ shuffles' = shuffles + 1
TellFound(c) ==
    /\ Shuffle /\ hadSlug[c] = 0
    /\ \E s \in Names : /\ ~SlugTaken(s)
                        /\ slugOf' = [slugOf EXCEPT ![c] = s]
                        /\ hadSlug' = [hadSlug EXCEPT ![c] = s]
    /\ UNCHANGED <<ground, toggles, posting, snapshot, outbox, tgCrewHistory>>

TellFold(c) ==
    /\ Shuffle /\ slugOf[c] # 0
    /\ slugOf' = [slugOf EXCEPT ![c] = 0]
    /\ UNCHANGED <<hadSlug, ground, toggles, posting, snapshot, outbox, tgCrewHistory>>

TellReturn(c) ==
    /\ Shuffle /\ slugOf[c] = 0 /\ hadSlug[c] # 0
    /\ \E s \in Names :
          /\ IF SlugTaken(hadSlug[c]) THEN ~SlugTaken(s) ELSE s = hadSlug[c]
          /\ slugOf' = [slugOf EXCEPT ![c] = s]
          /\ hadSlug' = [hadSlug EXCEPT ![c] = s]
    /\ UNCHANGED <<ground, toggles, posting, snapshot, outbox, tgCrewHistory>>

TurnSwitch ==
    /\ Shuffle
    /\ \/ posting' = ~posting /\ UNCHANGED toggles
       \/ UNCHANGED posting /\ \E t \in Toggles :
             toggles' = IF t \in toggles THEN toggles \ {t} ELSE toggles \cup {t}
    /\ UNCHANGED <<slugOf, hadSlug, ground, snapshot, outbox, tgCrewHistory>>

-----------------------------------------------------------------------------
\* The part of check_crew_events() that says what is stored of one crew: its
\* rung is a high-water mark.
BadReached(s, g) == Rung(g)
Reached(s, g) == IF Rung(g) > snapshot[s].rung THEN Rung(g) ELSE snapshot[s].rung

FirstPatch(s, g) ==
    "first" \in toggles /\ snapshot[s].seen /\ ~snapshot[s].patch /\ g > 0
NewRung(s, g) ==
    "squares" \in toggles /\ snapshot[s].seen /\ ~FirstPatch(s, g)
        /\ Reached(s, g) > snapshot[s].rung

BadEntry(s, new) ==
    [seen |-> TRUE, patch |-> new[CrewOn(s)] > 0,
     rung |-> IF "squares" \in toggles THEN Reached(s, new[CrewOn(s)]) ELSE snapshot[s].rung]
Entry(s, new) ==
    [seen |-> TRUE, patch |-> new[CrewOn(s)] > 0, rung |-> Reached(s, new[CrewOn(s)])]

\* A redraw: the crews' figures are written, then the milestones are read off
\* them.  The snapshot has the living crews and nobody else, and is committed
\* before anything is sent: first patches, then rungs.  A crew told of its
\* first patch is not told of a rung with it.
RedrawTold ==
    /\ outbox = <<>>
    /\ \E new \in [Told -> Grounds] :
          /\ \A c \in Told \ Alive : new[c] = 0
          /\ ground' = new
          /\ before' = [s \in Names |-> IF SlugTaken(s) THEN new[CrewOn(s)] ELSE 0]
          /\ IF posting /\ toggles # {}
             THEN LET held(s) == new[CrewOn(s)]
                      firsts == SetToSeq({s \in Names : SlugTaken(s) /\ FirstPatch(s, held(s))})
                      rungs == SetToSeq({s \in Names : SlugTaken(s) /\ NewRung(s, held(s))})
                  IN  /\ snapshot' = [s \in Names |-> IF SlugTaken(s) THEN Entry(s, new) ELSE Unseen]
                      /\ outbox' = [i \in DOMAIN firsts |-> <<firsts[i], 0>>]
                            \o [i \in DOMAIN rungs |-> <<rungs[i], Reached(rungs[i], held(rungs[i]))>>]
                      /\ spoken' = [s \in Names |-> IF SlugTaken(s) THEN spoken[s] ELSE 0]
                      /\ UNCHANGED unwatched
             ELSE unwatched' = TRUE /\ UNCHANGED <<snapshot, outbox, spoken>>
    /\ UNCHANGED <<slugOf, hadSlug, toggles, posting, shuffles>>

\* A message goes out, or fails to: nobody looks.
SendMessage ==
    /\ outbox # <<>> /\ outbox' = Tail(outbox)
    /\ LET s == Head(outbox)[1] r == Head(outbox)[2]
       IN  spoken' = [spoken EXCEPT ![s] = IF r > 0 THEN r ELSE @]
    /\ UNCHANGED <<slugOf, hadSlug, ground, toggles, posting, snapshot, shuffles, before,
                   unwatched>>

\* The process dies: what is committed and not sent is never sent.
CrashTold ==
    /\ outbox # <<>> /\ Shuffle /\ outbox' = <<>>
    /\ UNCHANGED <<slugOf, hadSlug, ground, toggles, posting, snapshot, tgCrewHistory>>

TgNext ==
    \/ \E c \in Told : TellFound(c) \/ TellFold(c) \/ TellReturn(c)
    \/ TurnSwitch \/ RedrawTold \/ SendMessage \/ CrashTold

TgSpec == TgInit /\ [][TgNext]_tgVars

-----------------------------------------------------------------------------
TgTypeOK ==
    /\ slugOf \in [Told -> Names \cup {0}] /\ hadSlug \in [Told -> Names \cup {0}]
    /\ \A s \in Names : Cardinality({c \in Told : slugOf[c] = s}) <= 1
    /\ ground \in [Told -> Grounds] /\ toggles \subseteq Toggles /\ posting \in BOOLEAN
    /\ snapshot \in [Names -> [seen : BOOLEAN, patch : BOOLEAN, rung : 0..Rungs]]
    /\ ToSet(outbox) \subseteq Names \X (0..Rungs)

\* "Once announced, a rung is spent": a rung that is told is above every rung
\* told of its slug before, however the ground comes and goes, and what was told
\* is forgotten only when a redraw that is watched finds no crew on the slug.
RungSpent ==
    [][/\ SendMessage =>
             LET s == Head(outbox)[1] r == Head(outbox)[2] IN r > 0 => spoken[s] < r
       /\ \A s \in Names : spoken'[s] < spoken[s] => ~SlugTaken(s) /\ ~snapshot'[s].seen]_tgVars

\* "Switching one on does not announce the history that came before it": a rung
\* that is told was reached by this redraw and not held at the one before, unless
\* a redraw has gone by with every switch off and the snapshot has grown old.
NewsIsNew ==
    [][~unwatched => \A i \in DOMAIN outbox' \ DOMAIN outbox :
          LET s == outbox'[i][1] IN outbox'[i][2] > 0 => Rung(before[s]) < outbox'[i][2]]_tgVars
=============================================================================
