----------------------------- MODULE HandRecord -----------------------------
(***************************************************************************)
(* What is written down of a finished hand: recordHand, which               *)
(* handlePotCommission calls once it has taken the rake, snapshots the      *)
(* table; RecordHand of history_service.go makes one row of it per player   *)
(* who was dealt in.                                                        *)
(***************************************************************************)
EXTENDS Hand, HandPayout

\* Whoever holds cards: those with chips who were not away at the deal.
HoldsCards(i) == dealt[i] > 0 /\ ~game.seats[i].sittingOut
DealtPlayers == {i \in Seats(game) : HoldsCards(i)}
Contenders == {i \in DealtPlayers : ~game.seats[i].folded}

\* Mutant: a winner's entries of Game.Payouts overwrite each other.
GrossOnce(name, paid) ==
  SumOver({p \in paid : p.winner = name}, LAMBDA p : p.amount)

\* handlePotCommission: what a winner took from the pot before the rake.
Gross(name, paid) ==
  SumOver({p \in paid : p.winner = name}, LAMBDA p : p.times * p.amount)

\* The rake is told per winner by RakedFrom.
RecordHand(paid) ==
  [i \in DealtPlayers |->
    LET p == game.seats[i]
    IN  [invested   |-> p.totalBet,
         won        |-> Gross(p.name, paid) - RakedFrom(p.name, paid),
         rake       |-> RakedFrom(p.name, paid),
         folded     |-> p.folded,
         showedDown |-> Cardinality(Contenders) > 1 /\ ~p.folded]]

CreateHandPlayer(entry) ==
  [net |-> entry.won - entry.invested, won |-> entry.won,
   folded |-> entry.folded, showedDown |-> entry.showedDown]
-----------------------------------------------------------------------------
(***************************************************************************)
(* A player's history is what the hand did to his stack: the net of his row *)
(* is the stack he has once the rake is off it, less the one he was dealt   *)
(* in with; whoever has no row came out of the hand as he went in; and the  *)
(* cards on show are those of a showdown.  "Hole cards are stored only for  *)
(* players who showed them, so no history view can leak a hand that was     *)
(* mucked" (recordHand, handlePotCommission, resolveSidePots).              *)
(***************************************************************************)
HistoryIsWhatTheStacksDid ==
  game.payouts # {} =>
    LET rows == [i \in DealtPlayers |-> CreateHandPlayer(RecordHand(game.payouts)[i])]
        did(i) == Raked(game).seats[i].chips - dealt[i]
    IN  /\ \A i \in DealtPlayers : rows[i].net = did(i)
        /\ \A i \in Seats(game) \ DealtPlayers : did(i) = 0
        /\ \A i \in DealtPlayers : rows[i].won > 0 =>
             ~rows[i].folded /\ (rows[i].showedDown <=> game.phase = Showdown
                                                         /\ Cardinality(Contenders) > 1)
=============================================================================
