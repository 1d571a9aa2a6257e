-------------------------------- MODULE Hand --------------------------------
(***************************************************************************)
(* The engine driven hand after hand: whoever calls it deals when no hand   *)
(* is running and passes on one decision of the player on turn at a time.   *)
(* Clocks, seats coming and going and the wallets are Table.tla's.          *)
(***************************************************************************)
EXTENDS GameEngine

CONSTANTS
  Tables,      \* the tables to start from: sequences of [chips, sittingOut]
  Amounts      \* the amounts a client may send with a call or a raise

ASSUME HandAssumption ==
  /\ \A t \in Tables : t \in Seq([chips : Nat, sittingOut : BOOLEAN])
  /\ Amounts \subseteq Int

VARIABLES
  game,        \* the engine
  dealt        \* the stacks in front of the seats when the hand was dealt

vars == <<game, dealt>>

AmountsFor(action) == IF action \in {"call", "raise"} THEN Amounts ELSE {0}

Init ==
  \E t \in Tables :
    /\ game = [NewGame EXCEPT !.seats =
                 [i \in DOMAIN t |-> [NewPlayer(i, t[i].chips) EXCEPT
                                        !.sittingOut = t[i].sittingOut]]]
    /\ dealt = [i \in DOMAIN t |-> t[i].chips]

Deal ==
  /\ ~game.started
  /\ CanStartHand(game)
  /\ game' \in StartHand(game)
  /\ dealt' = [i \in Seats(game) |-> game.seats[i].chips]

Act(action) ==
  /\ game.started
  /\ MayAct(game, TurnSeat(game), action)
  /\ \E amount \in AmountsFor(action) :
       game' \in HumanAction(game, TurnSeat(game), action, amount)
  /\ UNCHANGED dealt

Next == Deal \/ \E action \in Decisions : Act(action)

Spec == Init /\ [][Next]_vars
-----------------------------------------------------------------------------
\* The shape of the engine's state; no stack, bet or pot is ever negative.
TypeOK ==
  /\ game.started \in BOOLEAN /\ game.intermission \in BOOLEAN
  /\ game.phase \in 0 .. Showdown
  /\ game.pot \in Nat /\ game.currentBet \in Nat /\ game.lastRaise \in Int
  /\ game.orbit \in Nat \cup {-1} /\ game.turn \in Nat
  /\ \A i \in Seats(game) : game.seats[i] \in PlayerRecords(Seats(game))

SumOverSeats(f(_)) == SumOver(Seats(game), f)

(***************************************************************************)
(* While a hand runs, Game.Pot, which is counted bet by bet, is exactly     *)
(* what the players' TotalBets add up to, from which the side pots are      *)
(* built (placeBet, commitBet, doShowdown).                                 *)
(***************************************************************************)
PotIsTheBets ==
  game.started => game.pot = SumOverSeats(LAMBDA i : game.seats[i].totalBet)

(***************************************************************************)
(* While a hand runs no player's money is lost or borrowed: what he has     *)
(* left and what he has bet is the stack he was dealt in with (StartHand,   *)
(* rotateDealerAndBlinds, applyDecision).                                   *)
(***************************************************************************)
StackPlusBets ==
  game.started => \A i \in Seats(game) :
    game.seats[i].chips + game.seats[i].totalBet = dealt[i]

(***************************************************************************)
(* A hand is never stuck: while it runs, the turn is on a player who may    *)
(* act, and another has not been beaten out of the hand already             *)
(* (findNextActionablePlayer, isBettingRoundComplete, startBettingRound).   *)
(***************************************************************************)
NeverStuck ==
  game.started => /\ TurnSeat(game) \in ActionableSeats(game)
                  /\ Cardinality(ActiveSeats(game)) >= 2
                  /\ ~BettingRoundComplete(game)

\* A client may send with a call, or call a raise, less than he owes.
CalledShort(g) == {j \in ActionableSeats(g) : /\ g.seats[j].hasActed
                                              /\ g.seats[j].roundBet < g.currentBet}

(***************************************************************************)
(* Nobody is asked twice: the player on turn has not acted since the last   *)
(* raise, or still owes chips, or everyone is gone round again because      *)
(* somebody sent less than he owed (HumanAction's walk of CurrentPlayerIx).  *)
(***************************************************************************)
TurnIsOwed ==
  game.started => LET p == game.seats[TurnSeat(game)]
                  IN  \/ ~p.hasActed \/ p.roundBet < game.currentBet
                      \/ CalledShort(game) # {}

\* What could be put in beyond what the street asks for so far, and who is
\* still to be heard on it.
Behind(g) == SumOver(ActiveSeats(g), LAMBDA i : g.seats[i].chips)
Unheard(g) == {i \in ActionableSeats(g) : ~g.seats[i].hasActed}

(***************************************************************************)
(* A hand ends after finitely many decisions, whoever makes them: each one  *)
(* that leaves it running moves the board on, or puts chips in, or leaves   *)
(* fewer players to be heard.  The exceptions come of a client that sends   *)
(* its own amount with a call: after one for less everyone is gone round    *)
(* again, and after one for more the next call takes the excess back        *)
(* (placeBet with the negative difference).                                 *)
(***************************************************************************)
HandMovesOn ==
  [][ game.started /\ game'.started
      => \/ game'.phase > game.phase
         \/ Behind(game') < Behind(game)
         \/ Behind(game') = Behind(game) /\ Unheard(game') \subseteq Unheard(game)
              /\ Unheard(game') # Unheard(game)
         \/ CalledShort(game) # {}
         \/ game.seats[TurnSeat(game)].roundBet > game.currentBet ]_vars

(***************************************************************************)
(* The board never comes on early: a step that moves the phase on, with two *)
(* or more players left, finds every other player who may act with the bet  *)
(* matched and his turn taken (isBettingRoundComplete, advancePhase).       *)
(***************************************************************************)
RoundClosesOnlyWhenSettled ==
  [][ game.started /\ game'.phase # game.phase
      => \A i \in ActionableSeats(game) \ {TurnSeat(game)} :
           /\ game.seats[i].hasActed
           /\ game.seats[i].roundBet >= game.currentBet ]_vars

\* The most the player in seat i may win: no more of anyone than he put in.
Reach(i) == SumOverSeats(LAMBDA j : LesserOf(game.seats[i].totalBet,
                                             game.seats[j].totalBet))

(***************************************************************************)
(* A short all-in plays for its own layer: at a showdown nobody takes more  *)
(* from any opponent than he himself put in (buildSidePots,                 *)
(* resolveSidePots).                                                        *)
(***************************************************************************)
NobodyWinsBeyondHisStake ==
  game.intermission /\ Cardinality(ActiveSeats(game)) >= 2
  => \A i \in Seats(game) : WonBySeat(game.payouts, i) <= Reach(i)

\* What folded players had bet beyond everyone still in.
UncontestedLayers ==
  LET top == Max({game.seats[i].totalBet : i \in ActiveSeats(game)})
  IN  SumOverSeats(LAMBDA i : game.seats[i].totalBet
                                - LesserOf(game.seats[i].totalBet, top))

(***************************************************************************)
(* Where chips can be lost at a showdown: the rounding of a tied pot, and a *)
(* layer only a folded player had reached.  With neither, the stacks add up *)
(* to what they were at the deal (buildSidePots, resolveSidePots).          *)
(***************************************************************************)
ChipsSurviveTheShowdown ==
  /\ game.intermission
  /\ Cardinality(ActiveSeats(game)) >= 2
  /\ \A p \in game.payouts : p.times = 1
  => SumOverSeats(LAMBDA i : game.seats[i].chips)
       = SumOverSeats(LAMBDA i : dealt[i]) - UncontestedLayers
=============================================================================
