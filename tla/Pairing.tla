------------------------------ MODULE Pairing ------------------------------
(***************************************************************************)
(* Signing a browser in through a phone: services/pairing.py, the /pair    *)
(* and /crews/signout routes of web/crews_api.py, and the panel's polling  *)
(* timer.                                                                  *)
(*                                                                         *)
(* A confirm and a poll read the token, then write in a commit of their    *)
(* own, so each is two steps and others may come between.  The panel polls *)
(* every two seconds whether or not the last poll has been answered; while *)
(* a territory rebuild holds the write lock, several are under way.        *)
(*                                                                         *)
(* A code names one token: two starts drawing the same code of 32^6 are    *)
(* left out.  Time is relative, in ticks: a token carries its age, a       *)
(* session the age of last_used and the time since it was really used.     *)
(* Admin pairings, the rate limits and the kill switch are left out.       *)
(*                                                                         *)
(* A definition named Bad... is no part of the model: it is a mistake the  *)
(* code could make in the definition after it, to show that the properties *)
(* notice.                                                                 *)
(***************************************************************************)
EXTENDS Naturals, FiniteSets

CONSTANTS
    Riders, Browsers, NoRider, NoToken, NoSession,
    Tokens,         \* rows pair_tokens will ever hold
    Sessions,       \* rows web_sessions will ever hold
    CodeTTL, SessionTTL,
    Renewal,        \* last_used is rewritten once it is older than this
    MaxPolls        \* bound: polls of one token under way at once

ASSUME NamesAssumption ==
    NoRider \notin Riders /\ NoToken \notin Tokens /\ NoSession \notin Sessions
ASSUME TimesAssumption ==
    /\ CodeTTL \in Nat /\ SessionTTL \in Nat /\ Renewal \in Nat
    /\ Renewal < SessionTTL /\ MaxPolls \in Nat

VARIABLES
    pair,       \* pair_tokens
    web,        \* web_sessions
    closed,     \* riders whose account is closed
    approving,  \* confirms that have read their token: <<token, rider>>
    polling,    \* polls that have read a confirmed token
    holding,    \* the token a browser polls with
    cookie,     \* the session a browser holds
    vouched     \* history: the confirms answered "ok", <<token, rider>>

vars == <<pair, web, closed, approving, polling, holding, cookie, vouched>>

-----------------------------------------------------------------------------
\* state is "none" before the insert and "gone" after the delete.
Token == [state: {"none", "waiting", "used", "gone"}, rider: Riders \cup {NoRider},
          age: 0..(CodeTTL + 1)]
Session == [state: {"none", "live", "gone"}, rider: Riders \cup {NoRider},
            from: Tokens \cup {NoToken}, idle: 0..(SessionTTL + 1), away: 0..(SessionTTL + 1)]
NewToken == [state |-> "none", rider |-> NoRider, age |-> 0]
NewSession == [state |-> "none", rider |-> NoRider, from |-> NoToken, idle |-> 0, away |-> 0]

Approvable(t) == pair[t].state = "waiting" /\ pair[t].age <= CodeTTL
Expired(s) == web[s].idle > SessionTTL

Init ==
    /\ pair = [t \in Tokens |-> NewToken]
    /\ web = [s \in Sessions |-> NewSession]
    /\ closed = {} /\ approving = {} /\ polling = {} /\ vouched = {}
    /\ holding = [b \in Browsers |-> NoToken]
    /\ cookie = [b \in Browsers |-> NoSession]

SignedIn(b) == cookie[b] # NoSession /\ web[cookie[b]].state = "live"

\* The panel starts over when a code runs out or a poll is refused.
Start(b, t) ==
    /\ pair[t].state = "none" /\ ~SignedIn(b)
    /\ pair' = [pair EXCEPT ![t].state = "waiting"]
    /\ holding' = [holding EXCEPT ![b] = t]
    /\ UNCHANGED <<web, closed, approving, polling, cookie, vouched>>

ConfirmRead(t, r) ==
    /\ Approvable(t) /\ r \notin closed
    /\ approving' = approving \cup {<<t, r>>}
    /\ UNCHANGED <<pair, web, closed, polling, holding, cookie, vouched>>

\* The update goes by primary key; a row deleted meanwhile is an error.
ConfirmWrite(t, r) ==
    /\ <<t, r>> \in approving
    /\ approving' = approving \ {<<t, r>>}
    /\ IF pair[t].state = "gone"
       THEN UNCHANGED <<pair, vouched>>
       ELSE /\ pair' = [pair EXCEPT ![t].state = "used", ![t].rider = r]
            /\ vouched' = vouched \cup {<<t, r>>}
    /\ UNCHANGED <<web, closed, polling, holding, cookie>>

BadReady(t) == pair[t].state \in {"waiting", "used"}
Ready(t) == pair[t].state = "used"

\* A poll of a token nobody has confirmed changes nothing.
PollRead(b, n) ==
    /\ holding[b] # NoToken /\ Ready(holding[b])
    /\ \A q \in polling : q.browser = b => q.slot # n
    /\ polling' = polling \cup {[slot |-> n, browser |-> b, token |-> holding[b],
                                  rider |-> pair[holding[b]].rider]}
    /\ UNCHANGED <<pair, web, closed, approving, holding, cookie, vouched>>

\* Deleting a row that is gone already is not an error.  The answer, with the
\* cookie in it, may be lost on its way.
PollMint(q, s) ==
    /\ q \in polling /\ web[s].state = "none"
    /\ polling' = polling \ {q}
    /\ web' = [web EXCEPT ![s] =
            [NewSession EXCEPT !.state = "live", !.rider = q.rider, !.from = q.token]]
    /\ pair' = [pair EXCEPT ![q.token].state = "gone"]
    /\ \/ UNCHANGED <<holding, cookie>>
       \/ /\ cookie' = [cookie EXCEPT ![q.browser] = s]
          /\ holding' = [holding EXCEPT ![q.browser] = NoToken]
    /\ UNCHANGED <<closed, approving, vouched>>

-----------------------------------------------------------------------------
BadRenewed(row) == row

\* last_used is written at most once per Renewal.
Renewed(row) == IF row.idle > Renewal THEN [row EXCEPT !.idle = 0] ELSE row

\* session(): a dead session is deleted by the request that finds it.
Use(b) ==
    /\ SignedIn(b)
    /\ web' = [web EXCEPT ![cookie[b]] =
            IF Expired(cookie[b]) \/ @.rider \in closed
            THEN [@ EXCEPT !.state = "gone"]
            ELSE [Renewed(@) EXCEPT !.away = 0]]
    /\ UNCHANGED <<pair, closed, approving, polling, holding, cookie, vouched>>

SignOut(b) ==
    /\ cookie[b] # NoSession
    /\ web' = [web EXCEPT ![cookie[b]].state = "gone"]
    /\ cookie' = [cookie EXCEPT ![b] = NoSession]
    /\ UNCHANGED <<pair, closed, approving, polling, holding, vouched>>

RevokeAll(r) ==
    /\ web' = [s \in Sessions |->
            IF web[s].rider = r /\ web[s].state = "live"
            THEN [web[s] EXCEPT !.state = "gone"] ELSE web[s]]
    /\ UNCHANGED <<pair, closed, approving, polling, holding, cookie, vouched>>

CloseAccount(r) ==
    /\ closed' = closed \cup {r}
    /\ UNCHANGED <<pair, web, approving, polling, holding, cookie, vouched>>

BadSpent(row) == row.state = "waiting" /\ row.age > CodeTTL

\* sweep() goes by age alone: a confirmed token nobody collected goes as well.
Spent(row) == row.state \in {"waiting", "used"} /\ row.age > CodeTTL

BadLapsed(s) == Expired(s) /\ \E b \in Browsers : cookie[b] = s

\* A session is swept whether or not a browser holds it.
Lapsed(s) == Expired(s)
Sweep ==
    /\ pair' = [t \in Tokens |->
            IF Spent(pair[t]) THEN [pair[t] EXCEPT !.state = "gone"] ELSE pair[t]]
    /\ web' = [s \in Sessions |->
            IF web[s].state = "live" /\ Lapsed(s)
            THEN [web[s] EXCEPT !.state = "gone"] ELSE web[s]]
    /\ UNCHANGED <<closed, approving, polling, holding, cookie, vouched>>

Older(age, limit) == IF age > limit THEN age ELSE age + 1
Tick ==
    /\ pair' = [t \in Tokens |->
            IF pair[t].state \in {"waiting", "used"}
            THEN [pair[t] EXCEPT !.age = Older(@, CodeTTL)] ELSE pair[t]]
    /\ web' = [s \in Sessions |->
            IF web[s].state = "live"
            THEN [web[s] EXCEPT !.idle = Older(@, SessionTTL), !.away = Older(@, SessionTTL)]
            ELSE web[s]]
    /\ UNCHANGED <<closed, approving, polling, holding, cookie, vouched>>

Pair ==
    \/ \E b \in Browsers, t \in Tokens : Start(b, t)
    \/ \E t \in Tokens, r \in Riders : ConfirmRead(t, r) \/ ConfirmWrite(t, r)
    \/ \E b \in Browsers, n \in 1..MaxPolls : PollRead(b, n)
    \/ \E q \in polling, s \in Sessions : PollMint(q, s)
Next ==
    \/ Pair
    \/ \E b \in Browsers : Use(b) \/ SignOut(b)
    \/ \E r \in Riders : RevokeAll(r) \/ CloseAccount(r)
    \/ Sweep \/ Tick

Spec == Init /\ [][Next]_vars

\* The retention loop sweeps again and again, and time passes.
FairSpec == Spec /\ WF_vars(Sweep) /\ WF_vars(Tick)

-----------------------------------------------------------------------------
TypeOK ==
    /\ pair \in [Tokens -> Token]
    /\ web \in [Sessions -> Session]
    /\ closed \subseteq Riders
    /\ approving \subseteq Tokens \X Riders
    /\ polling \subseteq [slot: 1..MaxPolls, browser: Browsers, token: Tokens, rider: Riders]
    /\ holding \in [Browsers -> Tokens \cup {NoToken}]
    /\ cookie \in [Browsers -> Sessions \cup {NoSession}]
    /\ vouched \subseteq Tokens \X Riders

\* A session acts for a rider whose phone was told that its confirm of that
\* very token went through, however confirms and polls of it overlap.
SessionVouchedFor ==
    \A s \in Sessions : web[s].state # "none" => <<web[s].from, web[s].rider>> \in vouched

\* The lifetime slides with use although last_used lags behind: what a request
\* or the sweep ends was unused for all but Renewal of SessionTTL, unless its
\* account was closed, and no request is served after SessionTTL unused.
SessionSlides ==
    [][\A s \in Sessions : web[s].state = "live" =>
        /\ (Sweep \/ \E b \in Browsers : Use(b)) /\ web'[s].state = "gone"
             => web[s].rider \in closed \/ web[s].away > SessionTTL - Renewal
        /\ (\E b \in Browsers : cookie[b] = s /\ Use(b)) /\ web[s].away > SessionTTL
             => web'[s].state = "gone"]_vars

\* No token stays confirmed for ever: the poll that answers it deletes it, and
\* the sweep takes those nobody polls.
UsedTokensGo ==
    \A t \in Tokens : pair[t].state = "used" ~> pair[t].state = "gone"

\* A session that no browser holds, because the answer with its cookie was lost
\* or a later sign-in took its place, cannot be signed out by anybody who knows
\* of it; all of them come to an end.
Unheld(s) == web[s].state = "live" /\ \A b \in Browsers : cookie[b] # s
UnheldSessionsEnd == <>[](\A s \in Sessions : ~Unheld(s))
=============================================================================
