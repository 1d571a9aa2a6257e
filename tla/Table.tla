------------------------------- MODULE Table -------------------------------
(***************************************************************************)
(* A live table: game_service.go and game_service_actions.go around the     *)
(* engine.  Every handler and every timer callback runs under table.mu, so  *)
(* each is one step here, with every call it makes: the wallet movement,    *)
(* the engine, the timers and the write to the database.                    *)
(*                                                                          *)
(* A time.AfterFunc callback waits for table.mu like everyone else, and     *)
(* Timer.Stop does not reach a callback that has already fired, so stopping *)
(* a timer leaves behind, or not, a loose callback that will still run, up  *)
(* to MaxLate of them at a time and one of each kind.  Dropping the handle  *)
(* of a running timer makes it loose as well.                               *)
(***************************************************************************)
EXTENDS HandPayout

CONSTANTS
  Users,          \* the people; a user's name is his id
  BuyIn,          \* ActiveTable.BuyIn
  MaxPlayers,     \* ActiveTable.MaxPlayers
  InitialWallet,  \* users.wallet before anyone sat down
  Refills,        \* the amounts asked of Refill
  ManualStart,    \* a private table, whose host may start hands
  MaxLate,        \* bound: callbacks that were stopped too late, at a time
  Restarts        \* the process may be restarted

ASSUME TableAssumption ==
  /\ BuyIn \in Nat \ {0} /\ MaxPlayers \in Nat /\ InitialWallet \in Nat
  /\ Refills \subseteq Nat
  /\ {ManualStart, Restarts} \subseteq BOOLEAN
  /\ MaxLate \in Nat
  /\ House \notin Users
  \* A user's name is not taken for one of the table's own timers.
  /\ {"turn", "countdown", "intermission"} \cap Users = {}

VARIABLES
  game,      \* table.Engine
  userMap,   \* table.UserMap: the seat of every seated user
  wallet,    \* users.wallet, the house account's included
  timers,    \* TurnTimer, CountdownTimer, IntermissionTimer and SitOutTimers
  saved      \* the table's rows in the database

vars == <<game, userMap, wallet, timers, saved>>

\* The eviction timer of a sat-out user goes by his name.
Kinds == {"turn", "countdown", "intermission"} \cup Users
NoTimers == [armed |-> {}, loose |-> {}]

(***************************************************************************)
(* Timers: "armed" ones can be stopped through their handle.                *)
(***************************************************************************)
Start(tm, x) == [tm EXCEPT !.armed = @ \cup {x}]

Stop(tm, x) ==
  IF x \notin tm.armed THEN {tm}
  ELSE {[armed |-> tm.armed \ {x}, loose |-> tm.loose \cup late] :
          late \in IF Cardinality(tm.loose) < MaxLate THEN {{}, {x}} ELSE {{}}}

\* The two ways a callback comes to run: its timer fires, or it is a loose one.
Fired(tm, x) == [tm EXCEPT !.armed = @ \ {x}]
RanLoose(tm, x) == [tm EXCEPT !.loose = @ \ {x}]

Callbacks(tm, x) ==
  {after \in {Fired(tm, x), RanLoose(tm, x)} : after # tm}

\* "table.CountdownTimer = nil": a running timer nobody holds any more.
Drop(tm, x) ==
  IF x \notin tm.armed THEN tm
  ELSE [armed |-> tm.armed \ {x}, loose |-> tm.loose \cup {x}]

StopAll(tms, x) == UNION {Stop(tm, x) : tm \in tms}

(***************************************************************************)
(* The table.                                                               *)
(***************************************************************************)
Seated == DOMAIN userMap
Name(g, i) == g.seats[i].name
CanAct(g, i) == ~g.seats[i].folded /\ ~g.seats[i].allIn

\* What resetTurnTimer asks before it arms the turn clock.
ClockDue(g) ==
  g.started /\ ~g.intermission /\ g.seats # <<>> /\ CanAct(g, TurnSeat(g))

\* Mutant: the old clock is stopped and no new one started.
ResetTurnTimerOnlyStops(tms, g) == StopAll(tms, "turn")

ResetTurnTimer(tms, g) ==
  {IF ClockDue(g) THEN Start(tm, "turn") ELSE tm : tm \in StopAll(tms, "turn")}

\* Mutant: two players are too few.
EvaluateCountdownOffByOne(tm, g) ==
  LET count == Cardinality(DealtInSeats(g))
  IN  IF g.started \/ g.intermission THEN {tm}
      ELSE IF count <= 2 THEN Stop(tm, "countdown")
      ELSE {Start(tm, "countdown")}

EvaluateCountdown(tm, g) ==
  LET count == Cardinality(DealtInSeats(g))
  IN  IF g.started \/ g.intermission THEN {tm}
      ELSE IF count < 2 THEN Stop(tm, "countdown")
      ELSE IF count >= MaxPlayers
           THEN {Start(t, "countdown") : t \in Stop(tm, "countdown")}
           ELSE {Start(tm, "countdown")}

\* What SaveGame writes of a game and loadByTableID reads back.  The engine's
\* own turn, HasActed and Payouts have no column, the phase comes back from its
\* name, and the empty winner that is stored for "none" comes back as a winner.
Stored(g) ==
  [g EXCEPT !.turn = 0, !.payouts = {}, !.lastWinner = TRUE,
            !.seats = SeatsBy(g, LAMBDA i : [g.seats[i] EXCEPT !.hasActed = FALSE])]

Save(g) == saved' = Stored(g)
-----------------------------------------------------------------------------
Init ==
  /\ game = NewGame
  /\ userMap = <<>>
  /\ wallet = [u \in Users \cup {House} |-> IF u = House THEN 0 ELSE InitialWallet]
  /\ timers = NoTimers
  /\ saved = Stored(NewGame)

(***************************************************************************)
(* Coming and going.                                                        *)
(***************************************************************************)
JoinTable(u) ==
  LET g == [game EXCEPT !.seats = Append(@, NewPlayer(u, BuyIn))]
  IN  /\ u \notin Seated
      /\ ~game.started \/ game.intermission
      /\ Len(game.seats) < MaxPlayers
      /\ wallet[u] >= BuyIn
      /\ wallet' = [wallet EXCEPT ![u] = @ - BuyIn]
      /\ game' = g
      /\ userMap' = [v \in Seated \cup {u} |->
                       IF v = u THEN Len(game.seats) + 1 ELSE userMap[v]]
      /\ timers' \in EvaluateCountdown(timers, g)
      /\ Save(g)

\* The seat falls out of engine.Players, whatever is going on at the table,
\* and the seats after it move up; the turn stays the number it was.
WithoutSeat(g, s) ==
  [g EXCEPT !.seats = SubSeq(@, 1, s - 1) \o SubSeq(@, s + 1, Len(@)),
            !.started = @ /\ Len(g.seats) > 2]

\* Mutants: the map keeps the seats of before the departure; seats are
\* numbered from 0.
SeatsByUserStale(g) == [u \in {Name(g, i) : i \in Seats(g)} |-> userMap[u]]

SeatsByUserFromZero(g) ==
  [u \in {Name(g, i) : i \in Seats(g)} |-> (CHOOSE i \in Seats(g) : Name(g, i) = u) - 1]

SeatsByUser(g) ==
  [u \in {Name(g, i) : i \in Seats(g)} |-> CHOOSE i \in Seats(g) : Name(g, i) = u]

LeaveWith(u, tms) ==
  LET s == userMap[u]
      g == WithoutSeat(game, s)
  IN  /\ u \in Seated
      /\ game' = g
      /\ userMap' = SeatsByUser(g)
      /\ wallet' = [wallet EXCEPT ![u] = @ + game.seats[s].chips]
      /\ timers' \in LET unevicted == StopAll(tms, u)
                     IN  IF Len(g.seats) >= 2 THEN unevicted
                         ELSE StopAll(StopAll(StopAll(unevicted, "turn"),
                                              "intermission"), "countdown")
      /\ Save(g)

LeaveTable(u) == LeaveWith(u, {timers})

\* The eviction callback: LeaveTable on behalf of whoever never came back.
SitOutEviction(u) ==
  \E tm \in Callbacks(timers, u) :
    \/ LeaveWith(u, {tm})
    \/ u \notin Seated /\ timers' = tm /\ UNCHANGED <<game, userMap, wallet, saved>>

(***************************************************************************)
(* Coming back, and bringing more chips.                                    *)
(***************************************************************************)
SitIn(u) ==
  LET s == userMap[u]
      g == [game EXCEPT !.seats[s].sittingOut = FALSE]
  IN  /\ u \in Seated
      /\ game.seats[s].chips > 0
      /\ game.seats[s].sittingOut
      /\ game' = g
      /\ timers' \in UNION {EvaluateCountdown(tm, g) : tm \in Stop(timers, u)}
      /\ Save(g)
      /\ UNCHANGED <<userMap, wallet>>

\* Mutant: the condition on having folded is the wrong way round.
InLiveHandOnceFolded(g, i) == g.started /\ ~g.intermission /\ g.seats[i].folded

InLiveHand(g, i) == g.started /\ ~g.intermission /\ ~g.seats[i].folded

Refill(u, amount) ==
  LET s == userMap[u]
      p == game.seats[s]
      g == [game EXCEPT !.seats[s] = [p EXCEPT !.chips = @ + amount,
                                               !.sittingOut = FALSE]]
  IN  /\ u \in Seated
      /\ amount >= BigBlind
      /\ ~InLiveHand(game, s)
      /\ wallet[u] >= amount
      /\ wallet' = [wallet EXCEPT ![u] = @ - amount]
      /\ game' = g
      /\ timers' \in UNION {EvaluateCountdown(tm, g) :
                            tm \in IF p.sittingOut THEN Stop(timers, u) ELSE {timers}}
      /\ Save(g)
      /\ UNCHANGED userMap

(***************************************************************************)
(* Dealing.  "tms" is what the caller has left of the timers.               *)
(***************************************************************************)
DealWith(tms) ==
  \E g \in StartHand([game EXCEPT !.intermission = FALSE]) :
    /\ game' = g
    /\ timers' \in ResetTurnTimer(tms, g)
    /\ saved' = IF CanStartHand(game) THEN Stored(g) ELSE saved
    /\ UNCHANGED <<userMap, wallet>>

OnlyTimers(tms) ==
  timers' \in tms /\ UNCHANGED <<game, userMap, wallet, saved>>

FireCountdown ==
  \E after \in Callbacks(timers, "countdown") :
    LET tm == Drop(after, "countdown")
    IN  IF Len(game.seats) < 2 \/ game.started THEN OnlyTimers({tm})
        ELSE DealWith({tm})

\* With too few to deal to, the table goes back to waiting.
FireNextHand ==
  \E after \in Callbacks(timers, "intermission") :
    LET tm == Drop(after, "intermission")
        g  == [game EXCEPT !.intermission = FALSE, !.started = FALSE]
    IN  IF ~game.intermission \/ Len(game.seats) < 2 THEN OnlyTimers({tm})
        ELSE IF CanStartHand(game) THEN DealWith({tm})
        ELSE /\ game' = g
             /\ timers' = tm
             /\ Save(g)
             /\ UNCHANGED <<userMap, wallet>>

\* Nothing asks whether a hand is running.
StartHandManually ==
  /\ ManualStart
  /\ Len(game.seats) >= 2
  /\ DealWith(StopAll(Stop(timers, "countdown"), "intermission"))

(***************************************************************************)
(* Playing.  "g" is the game as HumanAction left it, "out" the seats to sit *)
(* out, "tm" the timers so far.  A hand that ended is raked, and those it   *)
(* broke are sat out; the database has the game as the engine saved it,     *)
(* before that.                                                             *)
(***************************************************************************)
SatOut(g, out) ==
  [g EXCEPT !.seats = SeatsBy(g, LAMBDA i :
                        [g.seats[i] EXCEPT !.sittingOut = @ \/ i \in out])]

Broke(g) == {i \in Seats(g) : g.seats[i].chips <= 0 /\ ~g.seats[i].sittingOut}

\* Mutant: only one player's eviction clock is started.
StartOneEviction(tm, names) ==
  {[tm EXCEPT !.armed = @ \cup IF names = {} THEN {} ELSE {CHOOSE u \in names : TRUE}]}

\* startSitOutEviction for everyone in "names".
StartEvictions(tm, names) ==
  {[armed |-> tm.armed \cup names, loose |-> tm.loose \cup late] :
     late \in {l \in SUBSET (tm.armed \cap names) :
                 Cardinality(tm.loose) + Cardinality(l) <= MaxLate}}

AfterAction(g, timedOut, tm) ==
  LET ended == g.intermission /\ g.lastWinner
      idle  == {i \in timedOut : ~g.seats[i].sittingOut}
      paid  == IF ended THEN Raked(SatOut(g, idle)) ELSE SatOut(g, idle)
      broke == IF ended THEN Broke(paid) ELSE {}
      final == SatOut(paid, broke)
  IN  /\ game' = final
      /\ wallet' = IF ended
                   THEN [a \in DOMAIN wallet |->
                           wallet[a] + CommissionTo(a, g.payouts)]
                   ELSE wallet
      /\ timers' \in
           ResetTurnTimer(
             UNION {IF ended THEN {Start(t, "intermission") :
                                     t \in Stop(started, "intermission")}
                             ELSE {started} :
                      started \in StartEvictions(tm, {Name(g, i) : i \in idle \cup broke})},
             final)
      /\ Save(g)
      /\ UNCHANGED userMap

SubmitAction(u, action) ==
  /\ game.started
  /\ u \in Seated
  /\ Name(game, TurnSeat(game)) = u
  /\ MayAct(game, TurnSeat(game), action)
  /\ \E g \in HumanAction(game, TurnSeat(game), action, 0) :
       AfterAction(g, {}, timers)

HandleTurnTimeout ==
  \E tm \in Callbacks(timers, "turn") :
    IF ~ClockDue(game) THEN OnlyTimers({tm})
    ELSE LET i == TurnSeat(game)
             action == IF game.seats[i].roundBet >= game.currentBet
                       THEN "check" ELSE "fold"
         IN  \E g \in HumanAction(game, i, action, 0) : AfterAction(g, {i}, tm)

(***************************************************************************)
(* A restart loses everything in memory; the first request for the table    *)
(* loads it again (GetOrCreateTable).                                       *)
(***************************************************************************)
Restart ==
  /\ Restarts
  /\ game' = saved
  /\ userMap' = SeatsByUser(saved)
  /\ timers' \in
       IF Len(saved.seats) < 2 THEN {NoTimers}
       ELSE IF saved.intermission THEN {Start(NoTimers, "intermission")}
       ELSE IF saved.started THEN ResetTurnTimer({NoTimers}, saved)
       ELSE EvaluateCountdown(NoTimers, saved)
  /\ UNCHANGED <<wallet, saved>>

Next ==
  \/ \E u \in Users : JoinTable(u) \/ LeaveTable(u) \/ SitOutEviction(u) \/ SitIn(u)
  \/ \E u \in Users, amount \in Refills : Refill(u, amount)
  \/ FireCountdown \/ FireNextHand \/ StartHandManually
  \/ \E u \in Users, action \in Decisions : SubmitAction(u, action)
  \/ HandleTurnTimeout
  \/ Restart

Spec == Init /\ [][Next]_vars
-----------------------------------------------------------------------------
\* The handlers' data: stacks and wallets are never negative.
TypeOK ==
  /\ game.started \in BOOLEAN /\ game.intermission \in BOOLEAN
  /\ game.pot \in Nat /\ game.turn \in Nat
  /\ Len(game.seats) <= MaxPlayers
  /\ \A i \in Seats(game) : game.seats[i].name \in Users /\ game.seats[i].chips \in Nat
  /\ wallet \in [Users \cup {House} -> Nat]
  /\ timers \in [armed : SUBSET Kinds, loose : SUBSET Kinds]

(***************************************************************************)
(* table.UserMap leads every seated user to the seat that bears his name,   *)
(* and to nobody else's, however seats are taken and given up in between    *)
(* (JoinTable, LeaveTable, GetOrCreateTable): the money of a seat goes to   *)
(* the wallet of the user the map finds there.                              *)
(***************************************************************************)
SeatMapOK ==
  /\ \A u \in Seated : userMap[u] \in Seats(game) /\ Name(game, userMap[u]) = u
  /\ \A i \in Seats(game) : Name(game, i) \in Seated /\ userMap[Name(game, i)] = i

\* All the money there is: wallets, stacks, and the pot of a running hand.
Money ==
    SumOver(DOMAIN wallet, LAMBDA a : wallet[a])
  + SumOver(Seats(game), LAMBDA i : game.seats[i].chips)
  + IF game.started THEN game.pot ELSE 0

(***************************************************************************)
(* No handler and no callback creates money, the rake and the duplicated    *)
(* shares of a tie included (LeaveTable, Refill, handlePotCommission,       *)
(* ProcessHandPayout, resolveSidePots), as long as a restart after a raked  *)
(* hand does not bring its stacks back as they were before the rake.        *)
(***************************************************************************)
NoMoneyCreated == [][Money' <= Money]_vars

InHand(g, u) == g.started /\ \E i \in Seats(g) : Name(g, i) = u /\ ~g.seats[i].folded

Stake(g, u) ==
  LET i == CHOOSE j \in Seats(g) : Name(g, j) = u
  IN  g.seats[i].chips + g.seats[i].totalBet

(***************************************************************************)
(* A stack does not change under a hand its player is in: until the hand    *)
(* ends, another is dealt or he folds, what he has and has bet is constant  *)
(* (inLiveHand, Refill, SitIn, LeaveTable, applyDecision).  Every deal      *)
(* moves the button's orbit on.                                             *)
(***************************************************************************)
StakesAreFixed ==
  [][ \A u \in Users :
        InHand(game, u) /\ InHand(game', u) /\ game'.orbit = game.orbit
        => Stake(game', u) = Stake(game, u) ]_vars

(***************************************************************************)
(* Whoever is sat out is on an eviction clock, so that his seat cannot be   *)
(* held for ever (handleTurnTimeout, sitOutBustedPlayers, Refill, SitIn).   *)
(***************************************************************************)
SatOutIsOnTheClock ==
  \A i \in Seats(game) :
    game.seats[i].sittingOut => Name(game, i) \in timers.armed \cup timers.loose

Due(tm, x) == x \in tm.armed \cup tm.loose

(***************************************************************************)
(* A table with two players it could deal to and no hand running is waiting *)
(* for a timer that deals (evaluateCountdown, startIntermissionTimer).      *)
(***************************************************************************)
TableDealsByItself ==
  CanStartHand(game) /\ ~game.started
  => Due(timers, "countdown") \/ Due(timers, "intermission")

\* A running hand has two players left and is on the clock of one who can
\* act; the pause after it is on the clock of the next deal, with two seats to
\* deal to; and a waiting table that could deal counts down.
KeepsGoing(g, tm) ==
  IF g.intermission THEN Len(g.seats) >= 2 /\ Due(tm, "intermission")
  ELSE IF g.started
       THEN ClockDue(g) /\ Cardinality(ActiveSeats(g)) >= 2 /\ Due(tm, "turn")
       ELSE CanStartHand(g) => Due(tm, "countdown")

(***************************************************************************)
(* Of all steps only two can stop a table that keeps going: a departure     *)
(* during a hand or the pause after it, and a deal whose hand is over at    *)
(* once, which nobody pays out: its Payouts stay.  Late callbacks, refills, *)
(* sitting out and manual starts cannot (resetTurnTimer, fireNextHand,      *)
(* evaluateCountdown, handleTurnTimeout).  A restart may: see the README.   *)
(***************************************************************************)
OnlyTwoThingsStopTheTable ==
  [][ KeepsGoing(game, timers)
      => \/ KeepsGoing(game', timers') \/ Restart
         \/ (game.started \/ game.intermission) /\ DOMAIN userMap' # Seated
         \/ game'.intermission /\ game'.payouts # {} ]_vars
=============================================================================
