----------------------------- MODULE GameEngine -----------------------------
(***************************************************************************)
(* The hand engine of the poker tables: engine_betting.go and              *)
(* engine_showdown.go.  The engine is a sequential object that its caller   *)
(* drives under the table's lock, so it is modelled as operators from one   *)
(* game record to the next; Hand.tla makes a state machine of them and      *)
(* Table.tla calls them from the table service's handlers.                  *)
(*                                                                          *)
(* A game g is a record                                                     *)
(*   started, intermission    Game.GameStarted, Game.Intermission           *)
(*   phase                    Game.PhaseIndex, 0 (preflop) .. 4 (showdown)  *)
(*   pot, currentBet, lastRaise                                             *)
(*   orbit                    Game.DealerOrbitCount, -1 before any hand     *)
(*   turn                     engine.CurrentPlayerIx, counted from 0        *)
(*   lastWinner               Game.LastWinner # nil                         *)
(*   payouts                  Game.Payouts, see Payouts below               *)
(*   seats                    engine.Players, in seat order                 *)
(* Cards are abstracted to what the engine does with them: at a showdown    *)
(* strength[i] ranks the hand of the player in seat i, the higher the       *)
(* better, equal values being the ties that Hand.Compare reports.  The      *)
(* betting operators leave a hand that is over at ShowdownDue; StartHand    *)
(* and HumanAction, the engine's entry points, are the sets of games that   *)
(* may result once doShowdown, which the code calls there, has run.         *)
(* Seats hold people; the bots of the demo server take the same             *)
(* applyDecision path.                                                      *)
(***************************************************************************)
EXTENDS Integers, Sequences, FiniteSets, FiniteSetsExt

CONSTANTS SmallBlind, BigBlind   \* Game.SmallBlind, Game.BigBlind

ASSUME BlindsAssumption ==
  /\ SmallBlind \in Nat \ {0}
  /\ BigBlind \in Nat \ {0}

Showdown == 4                    \* the last index of Phases

LesserOf(a, b) == IF a <= b THEN a ELSE b

SumOver(S, f(_)) == SumFunctionOnSet([x \in S |-> f(x)], S)

NewGame == [started |-> FALSE, intermission |-> FALSE, phase |-> 0,
            pot |-> 0, currentBet |-> 0, lastRaise |-> BigBlind,
            orbit |-> -1, turn |-> 0, lastWinner |-> FALSE,
            payouts |-> {}, seats |-> <<>>]

NewPlayer(name, chips) ==
  [name |-> name, chips |-> chips, roundBet |-> 0, totalBet |-> 0,
   folded |-> FALSE, allIn |-> FALSE, hasActed |-> FALSE,
   dealer |-> FALSE, bigBlind |-> FALSE, sittingOut |-> FALSE]

\* The seats' records, where they bear these names.
PlayerRecords(names) ==
  [name : names, chips : Nat, roundBet : Nat, totalBet : Nat,
   folded : BOOLEAN, allIn : BOOLEAN, hasActed : BOOLEAN,
   dealer : BOOLEAN, bigBlind : BOOLEAN, sittingOut : BOOLEAN]

(***************************************************************************)
(* Who takes part.                                                          *)
(***************************************************************************)
Seats(g) == DOMAIN g.seats

\* The seats rewritten one by one; SubSeq makes it the plain sequence again
\* instead of a function TLC evaluates anew at every application.
SeatsBy(g, f(_)) == SubSeq([i \in Seats(g) |-> f(i)], 1, Len(g.seats))

DealtIn(p) == p.chips > 0 /\ ~p.sittingOut
DealtInSeats(g) == {i \in Seats(g) : DealtIn(g.seats[i])}

ActiveSeats(g) == {i \in Seats(g) : ~g.seats[i].folded}
ActionableSeats(g) == {i \in ActiveSeats(g) : ~g.seats[i].allIn}

\* The k-th seat of S in table order, counted from 0.
NthSeat(S, k) == CHOOSE i \in S : Cardinality({j \in S : j < i}) = k

\* The seat the turn points at; CurrentPlayerIx is read modulo the seats.
TurnSeat(g) == (g.turn % Len(g.seats)) + 1

\* The lowest seat of S as an index from 0, and 0 when the flag is nowhere:
\* the loops that look for the button and the big blind.
IndexOf(S) == IF S = {} THEN 0 ELSE Min(S) - 1

\* Mutant: the walk stops at a player who is all in.
FindNextUnfoldedPlayer(g, from) ==
  LET n == Len(g.seats)
      ahead == {k \in 0 .. n - 1 : ((from + k) % n) + 1 \in ActiveSeats(g)}
  IN  IF ahead = {} THEN from ELSE (from + Min(ahead)) % n

\* CurrentPlayerIx moved on from "from" to the first seat that may still act,
\* or left there when no seat may.
FindNextActionablePlayer(g, from) ==
  LET n == Len(g.seats)
      ahead == {k \in 0 .. n - 1 : ((from + k) % n) + 1 \in ActionableSeats(g)}
  IN  IF ahead = {} THEN from ELSE (from + Min(ahead)) % n

(***************************************************************************)
(* Side pots.  A layer of the pot is what everyone who bet at least "level" *)
(* put in between that level and the one below; layers contested by the     *)
(* same unfolded players are one pot.  The layers' contenders only shrink   *)
(* as the level rises, so merging equal neighbours is grouping by set.      *)
(***************************************************************************)
Contributors(g) == {i \in Seats(g) : g.seats[i].totalBet > 0}

Levels(g) == {g.seats[i].totalBet : i \in Contributors(g)}

\* Mutants: a short all-in contests every layer; folded bets are left out of
\* it.
LayerForEveryone(g, level) ==
  LET below == {l \in Levels(g) : l < level}
      prev  == IF below = {} THEN 0 ELSE Max(below)
  IN  [contenders |-> Contributors(g) \cap ActiveSeats(g),
       amount     |-> (level - prev) * Cardinality({i \in Contributors(g) :
                                                      g.seats[i].totalBet >= level})]

LayerWithoutFolded(g, level) ==
  LET below    == {l \in Levels(g) : l < level}
      prev     == IF below = {} THEN 0 ELSE Max(below)
      eligible == {i \in Contributors(g) \cap ActiveSeats(g) : g.seats[i].totalBet >= level}
  IN  [contenders |-> eligible, amount |-> (level - prev) * Cardinality(eligible)]

LayerOf(g, level) ==
  LET below    == {l \in Levels(g) : l < level}
      prev     == IF below = {} THEN 0 ELSE Max(below)
      eligible == {i \in Contributors(g) : g.seats[i].totalBet >= level}
  IN  [contenders |-> eligible \cap ActiveSeats(g),
       amount     |-> (level - prev) * Cardinality(eligible)]

SidePots(g) ==
  LET layers == {[level |-> l, layer |-> LayerOf(g, l)] : l \in Levels(g)}
      amountOf(E) == SumOver({x \in layers : x.layer.contenders = E},
                             LAMBDA x : x.layer.amount)
  IN  {[contenders |-> E, amount |-> amountOf(E)] :
         E \in {x.layer.contenders : x \in layers}}

(***************************************************************************)
(* What a showdown pays.  A pot nobody unfolded contests is skipped.  Each  *)
(* of n tied winners is found n times by the nested loops over              *)
(* winningHands and solves, so a share is the pot divided by n * n and each *)
(* winner is paid it n times.  A payout record stands for that many entries *)
(* of Game.Payouts.                                                         *)
(***************************************************************************)
WinnersOf(E, strength) ==
  {i \in E : \A j \in E : strength[j] <= strength[i]}

\* Mutant: the share forgets that every winner is listed more than once.
PayoutsUndivided(g, strength) ==
  LET won(pot) == WinnersOf(pot.contenders, strength)
      times(pot) == Cardinality(won(pot))
      paidTo(pot) == {[pot |-> pot.contenders, seat |-> i,
                       winner |-> g.seats[i].name, times |-> times(pot),
                       amount |-> pot.amount \div times(pot)] : i \in won(pot)}
  IN  UNION {paidTo(pot) : pot \in {p \in SidePots(g) : p.contenders # {}}}

Payouts(g, strength) ==
  LET won(pot) == WinnersOf(pot.contenders, strength)
      times(pot) == Cardinality(won(pot))
      paidTo(pot) == {[pot |-> pot.contenders, seat |-> i,
                       winner |-> g.seats[i].name, times |-> times(pot),
                       amount |-> pot.amount \div (times(pot) * times(pot))] :
                        i \in won(pot)}
  IN  UNION {paidTo(pot) : pot \in {p \in SidePots(g) : p.contenders # {}}}

\* The last unfolded player takes the counted pot, not the bets.
UncontestedPayout(g, i) ==
  {[pot |-> {i}, seat |-> i, winner |-> g.seats[i].name, times |-> 1,
    amount |-> g.pot]}

WonBySeat(paid, i) ==
  SumOver({p \in paid : p.seat = i}, LAMBDA p : p.times * p.amount)

Finish(g, paid) ==
  [g EXCEPT
     !.seats = SeatsBy(g, LAMBDA i :
                 [g.seats[i] EXCEPT !.roundBet = 0,
                                    !.chips = @ + WonBySeat(paid, i)]),
     !.payouts = paid,
     !.lastWinner = (paid # {}),
     !.intermission = TRUE,
     !.started = FALSE,
     !.pot = 0]

ShowdownDue(g) ==
  g.started /\ (g.phase = Showdown \/ Cardinality(ActiveSeats(g)) <= 1)

Rankings(g) == [ActiveSeats(g) -> 1 .. Cardinality(ActiveSeats(g))]

DoShowdown(g) ==
  IF Cardinality(ActiveSeats(g)) = 1
  THEN {Finish(g, UncontestedPayout(g, CHOOSE i \in ActiveSeats(g) : TRUE))}
  ELSE {Finish(g, Payouts(g, strength)) : strength \in Rankings(g)}

Outcomes(g) == IF ShowdownDue(g) THEN DoShowdown(g) ELSE {g}

(***************************************************************************)
(* Betting rounds.                                                          *)
(***************************************************************************)
\* isAllInSettled, over the seats still in the hand.
AllInSettled(g) ==
  \A i \in ActionableSeats(g), j \in ActiveSeats(g) :
    g.seats[i].roundBet >= g.seats[j].roundBet

\* Mutants: only an all-in ends a round; nobody has to have acted.
BettingRoundCompleteAllIn(g) ==
  \/ Cardinality(ActiveSeats(g)) <= 1
  \/ Cardinality(ActionableSeats(g)) <= 1 /\ AllInSettled(g)

BettingRoundCompleteUnheard(g) ==
  \/ Cardinality(ActiveSeats(g)) <= 1
  \/ \A i \in ActionableSeats(g) : g.seats[i].roundBet >= g.currentBet

BettingRoundComplete(g) ==
  \/ Cardinality(ActiveSeats(g)) <= 1
  \/ /\ \A i \in ActionableSeats(g) :
          g.seats[i].hasActed /\ g.seats[i].roundBet >= g.currentBet
     /\ \/ Cardinality(ActionableSeats(g)) <= 1 /\ AllInSettled(g)
        \/ ActionableSeats(g) # {}

\* The reset at the top of startBettingRound.
OpenRound(g) ==
  IF g.phase = 0
  THEN [g EXCEPT !.seats = SeatsBy(g, LAMBDA i :
                             [g.seats[i] EXCEPT !.hasActed = FALSE])]
  ELSE [g EXCEPT !.currentBet = 0,
                 !.lastRaise = BigBlind,
                 !.seats = SeatsBy(g, LAMBDA i :
                             [g.seats[i] EXCEPT !.hasActed = FALSE,
                                                !.roundBet = 0])]

FirstToAct(g) ==
  LET dealer   == IndexOf({i \in Seats(g) : g.seats[i].dealer})
      bigBlind == IndexOf({i \in Seats(g) : g.seats[i].bigBlind})
  IN  IF g.phase = 0
      THEN IF Len(g.seats) = 2 THEN dealer ELSE (bigBlind + 1) % Len(g.seats)
      ELSE (dealer + 1) % Len(g.seats)

(***************************************************************************)
(* startBettingRound.  When at most one player could still bet and the bets *)
(* are level, startBettingRound and advancePhase call each other until the  *)
(* board is out: nothing their guards read changes on the way, so the       *)
(* recursion ends at the showdown with the round state of an opened later   *)
(* street.                                                                  *)
(***************************************************************************)
StartBettingRound(g) ==
  LET r == OpenRound(g)
      nobodyLeftToBet == Cardinality(ActionableSeats(r)) <= 1 /\ AllInSettled(r)
  IN  IF ShowdownDue(r) THEN r
      ELSE IF nobodyLeftToBet THEN OpenRound([r EXCEPT !.phase = Showdown])
      ELSE [r EXCEPT !.turn = FindNextActionablePlayer(r, FirstToAct(r))]

AdvancePhase(g) ==
  IF ShowdownDue(g) THEN g
  ELSE IF g.phase + 1 >= Showdown THEN [g EXCEPT !.phase = Showdown]
  ELSE StartBettingRound([g EXCEPT !.phase = @ + 1])

(***************************************************************************)
(* Putting chips in.                                                        *)
(***************************************************************************)
\* Mutant: a bet may exceed the stack.
StakedUncapped(p, amount) == amount

\* What placeBet takes: the whole stack at most.
Staked(p, amount) == LesserOf(amount, p.chips)

\* Mutant: the bet is not counted for the side pots.
PlaceBetThisRoundOnly(p, amount) ==
  [p EXCEPT !.chips = @ - Staked(p, amount),
            !.roundBet = @ + Staked(p, amount),
            !.allIn = @ \/ Staked(p, amount) = p.chips]

PlaceBet(p, amount) ==
  [p EXCEPT !.chips = @ - Staked(p, amount),
            !.roundBet = @ + Staked(p, amount),
            !.totalBet = @ + Staked(p, amount),
            !.allIn = @ \/ Staked(p, amount) = p.chips]

\* rotateDealerAndBlinds: button and blinds walk the dealt-in seats.
PostBlinds(g) ==
  LET dealt == DealtInSeats(g)
      n     == Cardinality(dealt)
      orbit == IF g.orbit < 0 THEN 0 ELSE (g.orbit + 1) % n
      sb    == NthSeat(dealt, IF n = 2 THEN orbit ELSE (orbit + 1) % n)
      bb    == NthSeat(dealt, IF n = 2 THEN (orbit + 1) % n ELSE (orbit + 2) % n)
      blind(i) == IF i = sb THEN SmallBlind ELSE IF i = bb THEN BigBlind ELSE 0
      post(i)  == IF i \in {sb, bb} THEN PlaceBet(g.seats[i], blind(i))
                                    ELSE g.seats[i]
  IN  [g EXCEPT
         !.orbit = orbit,
         !.seats = SeatsBy(g, LAMBDA i :
                     [post(i) EXCEPT !.dealer = (i = NthSeat(dealt, orbit)),
                                     !.bigBlind = (i = bb)]),
         !.pot = Staked(g.seats[sb], SmallBlind) + Staked(g.seats[bb], BigBlind),
         !.currentBet = BigBlind,
         !.lastRaise = BigBlind]

CanStartHand(g) == Cardinality(DealtInSeats(g)) >= 2

\* Mutant: the last hand's bets stay on the books.
DealInKeepingBets(g) ==
  [g EXCEPT !.started = TRUE, !.intermission = FALSE, !.phase = 0,
            !.lastWinner = FALSE, !.payouts = {},
            !.seats = SeatsBy(g, LAMBDA i :
                        [g.seats[i] EXCEPT !.folded = ~DealtIn(g.seats[i]),
                                           !.allIn = FALSE,
                                           !.hasActed = FALSE,
                                           !.roundBet = 0])]

DealIn(g) ==
  [g EXCEPT !.started = TRUE, !.intermission = FALSE, !.phase = 0,
            !.lastWinner = FALSE, !.payouts = {},
            !.seats = SeatsBy(g, LAMBDA i :
                        [g.seats[i] EXCEPT !.folded = ~DealtIn(g.seats[i]),
                                           !.allIn = FALSE,
                                           !.hasActed = FALSE,
                                           !.totalBet = 0,
                                           !.roundBet = 0])]

\* Where CanStartHand fails StartHand returns false and changes nothing.
StartHand(g) ==
  IF ~CanStartHand(g) THEN {g}
  ELSE UNION {Outcomes(StartBettingRound(b)) :
                b \in {PostBlinds(d) : d \in {DealIn(g)}}}

(***************************************************************************)
(* Decisions.                                                               *)
(***************************************************************************)
Decisions == {"fold", "check", "call", "raise", "allin"}

\* Mutant: a call does not count as having acted.
CallUnmarked(g, i, amount) ==
  LET p   == g.seats[i]
      bet == IF amount <= 0 THEN g.currentBet - p.roundBet ELSE amount
  IN  [g EXCEPT !.seats[i] = PlaceBet(p, bet), !.pot = @ + Staked(p, bet)]

\* applyDecision's "call": the amount sent, or what is missing if none was.
Call(g, i, amount) ==
  LET p   == g.seats[i]
      bet == IF amount <= 0 THEN g.currentBet - p.roundBet ELSE amount
  IN  [g EXCEPT !.seats[i] = [PlaceBet(p, bet) EXCEPT !.hasActed = TRUE],
                !.pot = @ + Staked(p, bet)]

\* commitBet: beyond the call it is a raise and reopens the betting.
CommitBet(g, i, bet) ==
  LET p      == g.seats[i]
      need   == g.currentBet - p.roundBet
      paid   == [PlaceBet(p, bet) EXCEPT !.hasActed = TRUE]
      raises == Staked(p, bet) > need
      again(j) == [g.seats[j] EXCEPT
                     !.hasActed = @ /\ ~(raises /\ j \in ActionableSeats(g))]
  IN  [g EXCEPT !.seats = SeatsBy(g, LAMBDA j : IF j = i THEN paid ELSE again(j)),
                !.currentBet = IF raises THEN paid.roundBet ELSE @,
                !.lastRaise = IF raises THEN Staked(p, bet) - need ELSE @,
                !.pot = @ + Staked(p, bet)]

ApplyDecision(g, i, action, amount) ==
  LET p    == g.seats[i]
      need == g.currentBet - p.roundBet
  IN  CASE action = "fold"  -> [g EXCEPT !.seats[i].folded = TRUE,
                                         !.seats[i].hasActed = TRUE]
        [] action = "check" -> [g EXCEPT !.seats[i].hasActed = TRUE]
        [] action = "call"  -> Call(g, i, amount)
        [] action = "raise" -> CommitBet(g, i, IF amount <= 0
                                               THEN need + g.lastRaise
                                               ELSE amount)
        [] action = "allin" -> CommitBet(g, i, p.chips)

LegalHumanAction(g, i, action) ==
  action = "check" => g.seats[i].roundBet >= g.currentBet

\* What HumanAction requires of the player in seat i.
MayAct(g, i, action) ==
  /\ i \in ActionableSeats(g)
  /\ i = TurnSeat(g)
  /\ LegalHumanAction(g, i, action)

\* While the round is not complete somebody may act, so the turn moves to him
\* and processCurrentPlayer finds it settled.
Proceed(g) ==
  IF BettingRoundComplete(g) THEN AdvancePhase(g)
  ELSE [g EXCEPT !.turn = FindNextActionablePlayer(g, g.turn + 1)]

HumanAction(g, i, action, amount) ==
  UNION {Outcomes(h) : h \in {Proceed(d) : d \in
                                {ApplyDecision(g, i, action, amount)}}}
=============================================================================
