------------------------------ MODULE HandProof ------------------------------
(***************************************************************************)
(* Theorems about Hand.tla, for tables of any number of players and any     *)
(* stacks, blinds and amounts: the state is well typed and no stack, bet or *)
(* pot is ever negative; while a hand runs the pot is what the players bet, *)
(* everyone has his stack in front of him or in the pot, and somebody is on *)
(* turn who may act and whose turn it is; rounds close when they are        *)
(* settled, and every decision brings the hand nearer to its end; at a      *)
(* showdown nobody wins more of anyone than he put in, and no chip is lost  *)
(* that is not a tie's remainder or beyond everyone still in; and a         *)
(* player's row of history is what the hand did to his stack.               *)
(*                                                                          *)
(* The first four are proved together, from one inductive invariant, those  *)
(* of the running hand from it and the order of the turns, and those of the *)
(* showdown from a second one, of the hand the payments come of.  What the  *)
(* engine's operators do to a game is EngineProof.tla's.                    *)
(***************************************************************************)
EXTENDS HandRecord, EngineProof

(***************************************************************************)
(* The inductive invariant.  Beyond what is to be proved it says that no    *)
(* player has bet more in the round than in the hand: a call after an       *)
(* excessive one stakes a negative amount, which takes chips back out of    *)
(* roundBet and totalBet alike, and totalBet stays a number of chips only   *)
(* because roundBet is a part of it.                                        *)
(***************************************************************************)
Books(n) ==
  /\ game \in Games(n, 1 .. n)
  /\ RoundWithinHand(game)
  /\ game.started => /\ OnTurn(game)
                     /\ PotIs(game)
                     /\ \A i \in 1 .. n :
                          game.seats[i].chips + game.seats[i].totalBet = dealt[i]

IInv == \E n \in Nat : Books(n)

\* The invariant holds of every table a hand may start from.
LEMMA InvInit ==
  Init => IInv
<1> SUFFICES ASSUME Init PROVE IInv
  OBVIOUS
<1>1. PICK t \in Tables :
        game = [NewGame EXCEPT !.seats =
                 [i \in DOMAIN t |-> [NewPlayer(i, t[i].chips) EXCEPT
                                        !.sittingOut = t[i].sittingOut]]]
  BY DEF Init
<1>2. PICK n \in Nat : t \in [1 .. n -> [chips : Nat, sittingOut : BOOLEAN]]
  <2>1. PICK S : S = [chips : Nat, sittingOut : BOOLEAN]
    OBVIOUS
  <2>2. t \in Seq(S)
    BY <2>1, HandAssumption
  <2>3. Len(t) \in Nat /\ t \in [1 .. Len(t) -> S]
    BY <2>2
  <2> QED BY <2>1, <2>3
<1> DEFINE seat(i) == [NewPlayer(i, t[i].chips) EXCEPT !.sittingOut = t[i].sittingOut]
           q == [i \in 1 .. n |-> seat(i)]
<1>3. ASSUME NEW i \in 1 .. n
      PROVE  /\ seat(i) \in PlayerRecords(1 .. n)
             /\ seat(i).roundBet = 0 /\ seat(i).totalBet = 0
  BY <1>2 DEF NewPlayer, PlayerRecords
<1>4. q \in [1 .. n -> PlayerRecords(1 .. n)] /\ \A i \in 1 .. n : q[i] = seat(i)
  <2> HIDE DEF seat
  <2> QED BY <1>3
<1>5. game = [NewGame EXCEPT !.seats = q]
  BY <1>1, <1>2
<1> HIDE DEF q, seat
<1>6. game \in Games(n, 1 .. n) /\ game.seats = q /\ ~game.started
  <2>1. PICK f \in [1 .. n -> PlayerRecords(1 .. n)] : f = q
    BY <1>4
  <2>2. PICK r \in Nat : r = BigBlind
    BY BlindsAssumption
  <2>3. PICK o \in Nat \cup {-1} : o = -1
    OBVIOUS
  <2>4. PICK p \in SUBSET PayoutRecords(n, 1 .. n) : p = {}
    OBVIOUS
  <2>5. PICK x \in 0 .. Showdown : x = 0
    BY DEF Showdown
  <2>6. game = [started |-> FALSE, intermission |-> FALSE, phase |-> x,
                pot |-> 0, currentBet |-> 0, lastRaise |-> r,
                orbit |-> o, turn |-> 0, lastWinner |-> FALSE,
                payouts |-> p, seats |-> f]
    BY <1>5, <2>1, <2>2, <2>3, <2>4, <2>5 DEF NewGame
  <2> QED BY <2>1, <2>6 DEF Games
<1>7. RoundWithinHand(game)
  <2>1. Seats(game) = 1 .. n
    BY <1>6, SeatsOf
  <2> QED BY <1>3, <1>4, <1>6, <2>1 DEF RoundWithinHand
<1> QED BY <1>6, <1>7 DEF IInv, Books

\* Dealing keeps the invariant.
LEMMA BooksDeal ==
  ASSUME NEW n \in Nat, Books(n), Deal
  PROVE  Books(n)'
<1>2. PICK g, h : g = game /\ h = game'
  OBVIOUS
<1>3. g \in Games(n, 1 .. n) /\ CanStartHand(g) /\ h \in StartHand(g)
  BY <1>2 DEF Books, Deal
<1>4. /\ h \in Games(n, 1 .. n)
      /\ RoundWithinHand(h)
      /\ h.started => /\ OnTurn(h)
                      /\ PotIs(h)
                      /\ \A i \in 1 .. n : h.seats[i].chips + h.seats[i].totalBet
                                             = g.seats[i].chips
  BY <1>3, BlindsAssumption, StartHandIs
<1>5. \A i \in 1 .. n : dealt'[i] = g.seats[i].chips
  <2>1. Seats(g) = 1 .. n
    BY <1>3, SeatsOf
  <2> QED BY <1>2, <2>1 DEF Deal
<1> QED BY <1>2, <1>4, <1>5 DEF Books

\* A decision keeps the invariant.
LEMMA BooksAct ==
  ASSUME NEW n \in Nat, Books(n), NEW action \in Decisions, Act(action)
  PROVE  Books(n)'
<1>2. PICK amount \in AmountsFor(action) :
        game' \in HumanAction(game, TurnSeat(game), action, amount)
  BY DEF Act
<1>3. amount \in Int
  BY <1>2, HandAssumption DEF AmountsFor
<1>4. PICK g, h, i : g = game /\ h = game' /\ i = TurnSeat(game)
  OBVIOUS
<1>5. /\ g \in Games(n, 1 .. n) /\ RoundWithinHand(g)
      /\ PotIs(g) /\ OnTurn(g) /\ h \in HumanAction(g, i, action, amount)
      /\ \A j \in 1 .. n : g.seats[j].chips + g.seats[j].totalBet = dealt[j]
  BY <1>2, <1>4 DEF Books, Act
<1>6. i \in 1 .. n
  BY <1>4, <1>5, PartsOfSeats DEF OnTurn
<1>7. /\ h \in Games(n, 1 .. n) /\ RoundWithinHand(h) /\ Running(g, h)
      /\ h.started => PotIs(h)
  <2>1. n \in Nat /\ BigBlind \in Nat
    BY BlindsAssumption
  <2>2. PotCovers(g)
    BY <1>5, PotIsCovers
  <2>3. /\ h \in Games(n, 1 .. n) /\ RoundWithinHand(h) /\ Running(g, h)
        /\ h.started => PotKept(g, h)
    BY <1>3, <1>5, <1>6, <2>1, <2>2, HumanActionIs
  <2>4. h.started => PotIs(h)
    BY <1>5, <2>3, PotStays
  <2> QED BY <2>3, <2>4
<1>8. h.started => \A j \in 1 .. n : h.seats[j].chips + h.seats[j].totalBet = dealt[j]
  <2>1. Seats(g) = 1 .. n
    BY <1>5, SeatsOf
  <2> QED BY <1>5, <1>7, <2>1 DEF Running, SameStake
<1>9. dealt' = dealt
  BY DEF Act
<1> QED BY <1>4, <1>7, <1>8, <1>9 DEF Books, Running

\* The invariant is one.
THEOREM Inductive ==
  Spec => []IInv
<1>1. IInv /\ [Next]_vars => IInv'
  <2> SUFFICES ASSUME IInv, [Next]_vars PROVE IInv'
    OBVIOUS
  <2>1. CASE Deal
    BY <2>1, BooksDeal DEF IInv
  <2>2. ASSUME NEW action \in Decisions, Act(action)
        PROVE  IInv'
    BY <2>2, BooksAct DEF IInv
  <2>3. CASE UNCHANGED vars
    BY <2>3 DEF vars, IInv, Books
  <2> QED BY <2>1, <2>2, <2>3 DEF Next
<1> QED BY <1>1, InvInit, PTL DEF Spec

\* What the invariant says, spelled as Hand.tla spells it.
LEMMA InvImplies ==
  IInv => TypeOK /\ PotIsTheBets /\ StackPlusBets /\ NeverStuck
<1> SUFFICES ASSUME IInv PROVE TypeOK /\ PotIsTheBets /\ StackPlusBets /\ NeverStuck
  OBVIOUS
<1>1. PICK n \in Nat : Books(n)
  BY DEF IInv
<1>2. game \in Games(n, 1 .. n) /\ Seats(game) = 1 .. n /\ DOMAIN game.seats = 1 .. n
  BY <1>1, SeatsOf DEF Books, Seats
<1>3. TypeOK
  BY <1>2 DEF TypeOK, Games
<1>4. PotIsTheBets
  <2>1. SumOverSeats(LAMBDA i : game.seats[i].totalBet)
          = SumFunctionOnSet(Bets(game.seats), Seats(game))
    BY <1>2 DEF SumOverSeats, SumOver, Bets
  <2> QED BY <1>1, <2>1 DEF PotIsTheBets, Books, PotIs, BetInAll
<1>5. StackPlusBets
  BY <1>1, <1>2 DEF StackPlusBets, Books
<1>6. NeverStuck
  BY <1>1 DEF NeverStuck, Books, OnTurn
<1> QED BY <1>3, <1>4, <1>5, <1>6

(***************************************************************************)
(* Every state is well typed; no stack, bet or pot is ever negative,        *)
(* whatever amounts the clients send (placeBet, applyDecision, commitBet).  *)
(***************************************************************************)
THEOREM TypeCorrect ==
  Spec => []TypeOK
BY Inductive, InvImplies, PTL

(***************************************************************************)
(* Game.Pot, counted bet by bet, is what the TotalBets add up to, at a      *)
(* table of any size.                                                       *)
(***************************************************************************)
THEOREM PotIsCounted ==
  Spec => []PotIsTheBets
BY Inductive, InvImplies, PTL

(***************************************************************************)
(* While a hand runs nobody's money is lost or borrowed.                    *)
(***************************************************************************)
THEOREM StacksAreWhole ==
  Spec => []StackPlusBets
BY Inductive, InvImplies, PTL

(***************************************************************************)
(* A running hand always waits for a player who may act, with another to    *)
(* play against and a round that is not over.                               *)
(***************************************************************************)
THEOREM HandIsNeverStuck ==
  Spec => []NeverStuck
BY Inductive, InvImplies, PTL
-----------------------------------------------------------------------------
(***************************************************************************)
(* Decisions, step by step: what the player on turn changes, and what comes *)
(* of it.                                                                   *)
(***************************************************************************)
\* What the decision of the player in seat i leaves of a game: the others keep
\* their cards and chips, and he has been heard.  Who reopens the betting puts
\* chips in, unless the bet he makes up was in excess of what was asked.
Decided(g, d, i, n) ==
  /\ d.phase = g.phase /\ d.turn = g.turn /\ d.started = g.started
  /\ d.currentBet >= g.currentBet
  /\ d.seats[i].hasActed
  /\ g.seats[i].folded => d.seats[i].folded
  /\ g.seats[i].roundBet <= g.currentBet => d.seats[i].chips <= g.seats[i].chips
  /\ \A j \in 1 .. n : j # i =>
       /\ d.seats[j].folded = g.seats[j].folded /\ d.seats[j].allIn = g.seats[j].allIn
       /\ d.seats[j].chips = g.seats[j].chips /\ d.seats[j].roundBet = g.seats[j].roundBet
       /\ d.seats[j].hasActed => g.seats[j].hasActed
  /\ \/ \A j \in 1 .. n : j # i => d.seats[j].hasActed = g.seats[j].hasActed
     \/ /\ \A j \in ActionableSeats(g) : j # i => ~d.seats[j].hasActed
        /\ g.seats[i].roundBet <= g.currentBet => d.seats[i].chips < g.seats[i].chips

\* Marking a seat folded or heard.
LEMMA MarkDecides ==
  ASSUME NEW N, NEW n \in Nat, NEW g \in Games(n, N),
         NEW i \in 1 .. n, NEW p \in PlayerRecords(N), NEW h,
         p.chips <= g.seats[i].chips \/ g.seats[i].roundBet > g.currentBet,
         p.hasActed, g.seats[i].folded => p.folded,
         NEW x \in Nat, h = [g EXCEPT !.seats[i] = p, !.pot = x]
  PROVE  Decided(g, h, i, n)
<1>1. g.seats \in [1 .. n -> PlayerRecords(N)] /\ g.currentBet \in Nat
  BY DEF Games
<1>2. PICK q \in [1 .. n -> PlayerRecords(N)] :
        q = [g.seats EXCEPT ![i] = p]
  BY <1>1
<1>3. h = [g EXCEPT !.seats = q, !.pot = x]
  BY <1>2 DEF Games
<1>4. /\ h.seats = q /\ h.phase = g.phase /\ h.turn = g.turn /\ h.started = g.started
      /\ h.currentBet = g.currentBet
  BY <1>3 DEF Games
<1>5. \A j \in 1 .. n : q[j] = IF j = i THEN p ELSE g.seats[j]
  BY <1>1, <1>2
<1>6. g.seats[i].roundBet \in Nat
  BY SeatsOf DEF PlayerRecords
<1> QED
  BY <1>1, <1>4, <1>5, <1>6 DEF Decided

LEMMA CallDecides ==
  ASSUME NEW N, NEW n \in Nat, NEW g \in Games(n, N), RoundWithinHand(g), PotCovers(g),
         NEW i \in 1 .. n, NEW amount \in Int
  PROVE  Decided(g, Call(g, i, amount), i, n)
<1> DEFINE p == g.seats[i]
           bet == IF amount <= 0 THEN g.currentBet - p.roundBet ELSE amount
           s == Staked(p, bet)
           paid == [PlaceBet(p, bet) EXCEPT !.hasActed = TRUE]
<1>1. /\ p \in PlayerRecords(N) /\ p.roundBet \in Nat /\ p.chips \in Nat
      /\ g.currentBet \in Nat /\ g.pot \in Nat
  BY SeatsOf DEF Games, PlayerRecords
<1>2. p.roundBet <= p.totalBet
  BY SeatsOf DEF RoundWithinHand
<1>3. bet \in Int /\ p.roundBet + bet >= 0 /\ (p.roundBet <= g.currentBet => bet >= 0)
  BY <1>1
<1> HIDE DEF p, bet
<1>4. /\ PlaceBet(p, bet) \in PlayerRecords(N)
      /\ s \in Int /\ (s = bet \/ s = p.chips)
      /\ PlaceBet(p, bet).chips = p.chips - s
  BY <1>1, <1>2, <1>3, PlaceBetIs
<1>5. PlaceBet(p, bet).folded = p.folded
  BY <1>1 DEF PlaceBet, PlayerRecords
<1> HIDE DEF s
<1>6. /\ paid \in PlayerRecords(N) /\ paid.chips = p.chips - s /\ paid.hasActed
      /\ paid.folded = p.folded
  BY <1>4, <1>5 DEF PlayerRecords
<1>7. paid.chips <= p.chips \/ p.roundBet > g.currentBet
  BY <1>1, <1>3, <1>4, <1>6
<1>8. PICK x : x = g.pot + s
  OBVIOUS
<1>9. x \in Nat /\ Call(g, i, amount) = [g EXCEPT !.seats[i] = paid, !.pot = x]
  <2>1. Call(g, i, amount) = [g EXCEPT !.seats[i] = paid, !.pot = x]
    BY <1>8 DEF Call, p, bet, s
  <2>2. Call(g, i, amount).pot \in Nat
    BY CallIs DEF KeepsBooks, Games
  <2> HIDE DEF paid
  <2> QED
    BY <2>1, <2>2 DEF Games
<1> HIDE DEF paid
<1> QED
  BY <1>6, <1>7, <1>9, MarkDecides DEF p

LEMMA CommitDecides ==
  ASSUME NEW N, NEW n \in Nat, NEW g \in Games(n, N), RoundWithinHand(g),
         NEW i \in 1 .. n, NEW bet \in Int, g.seats[i].roundBet + bet >= 0,
         g.seats[i].roundBet <= g.currentBet => bet >= 0
  PROVE  Decided(g, CommitBet(g, i, bet), i, n)
<1> DEFINE p == g.seats[i]
           s == Staked(p, bet)
           need == g.currentBet - p.roundBet
           raises == s > need
           paid == [PlaceBet(p, bet) EXCEPT !.hasActed = TRUE]
           again(j) == [g.seats[j] EXCEPT
                          !.hasActed = @ /\ ~(raises /\ j \in ActionableSeats(g))]
           q == [j \in 1 .. n |-> IF j = i THEN paid ELSE again(j)]
           h == CommitBet(g, i, bet)
<1>1. /\ p \in PlayerRecords(N) /\ p.roundBet \in Nat /\ p.chips \in Nat
      /\ g.currentBet \in Nat /\ g.lastRaise \in Nat
  BY SeatsOf DEF Games, PlayerRecords
<1>2. Seats(g) = 1 .. n /\ Len(g.seats) = n
  BY SeatsOf
<1>3. p.roundBet <= p.totalBet
  BY <1>2 DEF RoundWithinHand
<1>4. /\ PlaceBet(p, bet) \in PlayerRecords(N)
      /\ s \in Int /\ (s = bet \/ s = p.chips)
      /\ PlaceBet(p, bet).chips = p.chips - s
      /\ PlaceBet(p, bet).roundBet = p.roundBet + s
  BY <1>1, <1>3, PlaceBetIs
<1>5. PlaceBet(p, bet).folded = p.folded
  BY <1>1 DEF PlaceBet, PlayerRecords
<1>6. /\ paid \in PlayerRecords(N) /\ paid.hasActed /\ paid.folded = p.folded
      /\ paid.chips = p.chips - s /\ paid.roundBet = p.roundBet + s
  BY <1>4, <1>5 DEF PlayerRecords
<1>7. ASSUME NEW j \in 1 .. n
      PROVE  /\ again(j) \in PlayerRecords(N)
             /\ again(j).chips = g.seats[j].chips /\ again(j).roundBet = g.seats[j].roundBet
             /\ again(j).folded = g.seats[j].folded /\ again(j).allIn = g.seats[j].allIn
             /\ again(j).hasActed = (g.seats[j].hasActed /\ ~(raises /\ j \in ActionableSeats(g)))
  <2>1. g.seats[j] \in PlayerRecords(N)
    BY SeatsOf
  <2>2. PICK b \in BOOLEAN :
          b = (g.seats[j].hasActed /\ ~(raises /\ j \in ActionableSeats(g)))
    OBVIOUS
  <2>3. again(j) = [g.seats[j] EXCEPT !.hasActed = b]
    BY <2>2
  <2> HIDE DEF again
  <2>4. again(j).hasActed = b
    BY <2>1, <2>3 DEF PlayerRecords
  <2> QED BY <2>1, <2>2, <2>3, <2>4 DEF PlayerRecords
<1>8. q \in [1 .. n -> PlayerRecords(N)]
  <2> HIDE DEF paid, again
  <2> QED BY <1>6, <1>7
<1>9. h = [g EXCEPT !.seats = q,
                    !.currentBet = IF raises THEN paid.roundBet ELSE g.currentBet,
                    !.lastRaise = IF raises THEN s - need ELSE g.lastRaise,
                    !.pot = g.pot + s]
  <2> DEFINE seats == SeatsBy(g, LAMBDA j : IF j = i THEN paid ELSE again(j))
  <2>1. seats = q
    BY <1>2, <1>8, SeatsRewritten DEF SeatsBy
  <2>2. h = [g EXCEPT !.seats = seats,
                      !.currentBet = IF raises THEN paid.roundBet ELSE @,
                      !.lastRaise = IF raises THEN s - need ELSE @,
                      !.pot = @ + s]
    BY Zenon DEF CommitBet
  <2> HIDE DEF seats, q, h
  <2> QED BY <2>1, <2>2
<1>10. \A j \in 1 .. n : q[j] = IF j = i THEN paid ELSE again(j)
  OBVIOUS
<1> HIDE DEF s, q, h, again, paid
<1>11. PICK b, r, x, f : /\ b = IF raises THEN paid.roundBet ELSE g.currentBet
                         /\ r = IF raises THEN s - need ELSE g.lastRaise
                         /\ x = g.pot + s /\ f = q
  OBVIOUS
<1>12. h = [g EXCEPT !.seats = f, !.currentBet = b, !.lastRaise = r, !.pot = x]
  BY <1>9, <1>11
<1>13. /\ h.seats = q /\ h.currentBet = b /\ h.phase = g.phase /\ h.turn = g.turn
       /\ h.started = g.started
  BY <1>11, <1>12 DEF Games
<1>14. b >= g.currentBet
  BY <1>1, <1>4, <1>6, <1>11
<1>15. p.roundBet <= g.currentBet => paid.chips <= p.chips /\ (raises => paid.chips < p.chips)
  BY <1>1, <1>4, <1>6
<1>16. ActionableSeats(g) \subseteq 1 .. n
  BY PartsOfSeats
<1>17. \/ \A j \in 1 .. n : j # i => h.seats[j].hasActed = g.seats[j].hasActed
       \/ /\ \A j \in ActionableSeats(g) : j # i => ~h.seats[j].hasActed
          /\ g.seats[i].roundBet <= g.currentBet => h.seats[i].chips < g.seats[i].chips
  <2>1. \A j \in 1 .. n : j # i => h.seats[j].hasActed
                            = (g.seats[j].hasActed /\ ~(raises /\ j \in ActionableSeats(g)))
    BY <1>7, <1>10, <1>13
  <2>2. h.seats[i].chips = paid.chips
    BY <1>10, <1>13
  <2>3. CASE raises
    BY <1>15, <1>16, <2>1, <2>2, <2>3
  <2>4. CASE ~raises
    <3>1. ASSUME NEW j \in 1 .. n, j # i
          PROVE  h.seats[j].hasActed = g.seats[j].hasActed
      <4>1. g.seats[j].hasActed \in BOOLEAN
        BY SeatsOf DEF PlayerRecords
      <4> HIDE DEF raises
      <4> QED BY <2>1, <2>4, <3>1, <4>1
    <3> QED BY <3>1
  <2> QED BY <2>3, <2>4
<1>18. \A j \in 1 .. n : j # i =>
         /\ h.seats[j].folded = g.seats[j].folded /\ h.seats[j].allIn = g.seats[j].allIn
         /\ h.seats[j].chips = g.seats[j].chips /\ h.seats[j].roundBet = g.seats[j].roundBet
         /\ h.seats[j].hasActed => g.seats[j].hasActed
  BY <1>7, <1>10, <1>13
<1>19. h.seats[i] = paid
  BY <1>10, <1>13
<1>20. /\ h.currentBet >= g.currentBet /\ h.seats[i].hasActed
       /\ g.seats[i].folded => h.seats[i].folded
       /\ g.seats[i].roundBet <= g.currentBet => h.seats[i].chips <= g.seats[i].chips
  BY <1>6, <1>13, <1>14, <1>15, <1>19
<1> HIDE DEF p, need
<1> QED BY <1>13, <1>17, <1>18, <1>20 DEF Decided, h

LEMMA DecisionIs ==
  ASSUME NEW N, NEW n \in Nat, NEW g \in Games(n, N), RoundWithinHand(g), PotCovers(g),
         NEW i \in 1 .. n, NEW action \in Decisions, NEW amount \in Int
  PROVE  Decided(g, ApplyDecision(g, i, action, amount), i, n)
<1> DEFINE p == g.seats[i]
           need == g.currentBet - p.roundBet
           h == ApplyDecision(g, i, action, amount)
<1>1. /\ p \in PlayerRecords(N) /\ p.chips \in Nat /\ p.roundBet \in Nat
      /\ g.currentBet \in Nat /\ g.lastRaise \in Nat /\ g.pot \in Nat
  BY SeatsOf DEF Games, PlayerRecords
<1>2. CASE action \in {"fold", "check"}
  <2> DEFINE q == IF action = "fold" THEN [p EXCEPT !.folded = TRUE, !.hasActed = TRUE]
                  ELSE [p EXCEPT !.hasActed = TRUE]
  <2>1. h = [g EXCEPT !.seats[i] = q]
    BY <1>2 DEF ApplyDecision
  <2>2. q \in PlayerRecords(N) /\ q.chips = p.chips /\ q.hasActed /\ (p.folded => q.folded)
    BY <1>1 DEF PlayerRecords
  <2> HIDE DEF q, h
  <2>3. PICK x \in Nat : x = g.pot
    BY <1>1
  <2>4. h = [g EXCEPT !.seats[i] = q, !.pot = x]
    BY <2>1, <2>3 DEF Games
  <2>5. q.chips <= p.chips
    BY <1>1, <2>2
  <2>6. Decided(g, h, i, n)
    BY <2>2, <2>4, <2>5, MarkDecides
  <2> QED BY <2>6 DEF h
<1>3. CASE action = "call"
  BY <1>3, CallDecides DEF ApplyDecision
<1>4. CASE action = "raise"
  <2> DEFINE bet == IF amount <= 0 THEN need + g.lastRaise ELSE amount
  <2>1. h = CommitBet(g, i, bet)
    BY <1>4 DEF ApplyDecision
  <2>2. bet \in Int /\ p.roundBet + bet >= 0 /\ (p.roundBet <= g.currentBet => bet >= 0)
    BY <1>1
  <2> HIDE DEF bet, h
  <2> QED BY <2>1, <2>2, CommitDecides DEF h
<1>5. CASE action = "allin"
  <2>1. h = CommitBet(g, i, p.chips)
    BY <1>5 DEF ApplyDecision
  <2>2. p.chips \in Int /\ p.roundBet + p.chips >= 0 /\ p.chips >= 0
    BY <1>1
  <2> QED BY <2>1, <2>2, CommitDecides
<1> QED BY <1>2, <1>3, <1>4, <1>5 DEF Decisions

\* A round that is opened: nobody has acted in it, and the board has not gone
\* back.
LEMMA StartBettingRoundOpens ==
  ASSUME NEW N, NEW n \in Nat, n > 0, NEW g \in Games(n, N), BigBlind \in Nat
  PROVE  /\ StartBettingRound(g).phase >= g.phase
         /\ \A i \in 1 .. n : ~StartBettingRound(g).seats[i].hasActed
<1> DEFINE r == OpenRound(g)
           nobodyLeftToBet == Cardinality(ActionableSeats(r)) <= 1 /\ AllInSettled(r)
<1>1. r \in Games(n, N) /\ r.phase = g.phase /\ \A i \in 1 .. n : ~r.seats[i].hasActed
  BY OpenRoundIs
<1>2. g.phase \in 0 .. Showdown /\ Showdown \in 0 .. Showdown
  BY DEF Games, Showdown
<1> HIDE DEF r
<1>3. CASE ShowdownDue(r)
  BY <1>1, <1>2, <1>3 DEF StartBettingRound, r
<1>4. CASE ~ShowdownDue(r) /\ nobodyLeftToBet
  <2> DEFINE last == [r EXCEPT !.phase = Showdown]
  <2>1. StartBettingRound(g) = OpenRound(last)
    BY <1>4 DEF StartBettingRound, r
  <2>2. last \in Games(n, N) /\ last.phase = Showdown
    BY <1>1, <1>2, SetPhase
  <2> HIDE DEF last
  <2>3. OpenRound(last).phase = Showdown /\ \A i \in 1 .. n : ~OpenRound(last).seats[i].hasActed
    BY <2>2, OpenRoundIs
  <2> QED BY <1>2, <2>1, <2>3 DEF Showdown
<1>5. CASE ~ShowdownDue(r) /\ ~nobodyLeftToBet
  <2> DEFINE t == FindNextActionablePlayer(r, FirstToAct(r))
  <2>1. StartBettingRound(g) = [r EXCEPT !.turn = t]
    BY <1>5 DEF StartBettingRound, r
  <2>2. t \in Nat
    BY <1>1, FirstToActIs, FindNextIs
  <2> HIDE DEF t
  <2>3. StartBettingRound(g).phase = r.phase /\ StartBettingRound(g).seats = r.seats
    BY <1>1, <2>1, <2>2, SetTurn
  <2> QED BY <1>1, <1>2, <2>3
<1> QED BY <1>3, <1>4, <1>5

\* The board moves on unless a showdown is due, and the round it comes to is
\* opened or the last.
LEMMA AdvancePhaseOpens ==
  ASSUME NEW N, NEW n \in Nat, n > 0, NEW g \in Games(n, N), BigBlind \in Nat, g.started
  PROVE  \/ AdvancePhase(g) = g /\ ShowdownDue(g)
         \/ /\ AdvancePhase(g).phase > g.phase
            /\ \/ ShowdownDue(AdvancePhase(g))
               \/ \A i \in 1 .. n : ~AdvancePhase(g).seats[i].hasActed
<1>1. g.phase \in 0 .. Showdown
  BY DEF Games
<1>2. CASE ShowdownDue(g)
  BY <1>2 DEF AdvancePhase
<1>3. CASE ~ShowdownDue(g) /\ g.phase + 1 >= Showdown
  <2>1. AdvancePhase(g) = [g EXCEPT !.phase = Showdown]
    BY <1>3 DEF AdvancePhase
  <2>2. AdvancePhase(g).phase = Showdown /\ AdvancePhase(g).started
    BY <2>1 DEF Games
  <2> QED BY <1>1, <1>3, <2>2 DEF ShowdownDue, Showdown
<1>4. CASE ~ShowdownDue(g) /\ ~(g.phase + 1 >= Showdown)
  <2> DEFINE next == [g EXCEPT !.phase = g.phase + 1]
  <2>1. AdvancePhase(g) = StartBettingRound(next)
    BY <1>4 DEF AdvancePhase
  <2>2. g.phase + 1 \in 0 .. Showdown
    BY <1>1, <1>4 DEF Showdown
  <2>3. next \in Games(n, N) /\ next.phase = g.phase + 1
    BY <2>2, SetPhase
  <2> HIDE DEF next
  <2>4. /\ StartBettingRound(next).phase >= next.phase
        /\ \A i \in 1 .. n : ~StartBettingRound(next).seats[i].hasActed
    BY <2>3, StartBettingRoundOpens
  <2>5. StartBettingRound(next).phase \in 0 .. Showdown
    BY <2>3, StartBettingRoundIs DEF Proper, Games
  <2> QED BY <1>1, <2>1, <2>3, <2>4, <2>5 DEF Showdown
<1> QED BY <1>2, <1>3, <1>4

\* A showdown leaves the board where it is.
LEMMA OutcomesStay ==
  ASSUME NEW N, NEW n \in Nat, NEW g \in Games(n, N), NEW h \in Outcomes(g)
  PROVE  h.phase = g.phase /\ (h.started => h = g /\ ~ShowdownDue(g))
<1>1. ASSUME NEW paid
      PROVE  Finish(g, paid).phase = g.phase /\ ~Finish(g, paid).started
  <2>1. PICK seats, b : Finish(g, paid) = [g EXCEPT !.seats = seats, !.payouts = paid,
                 !.lastWinner = b, !.intermission = TRUE, !.started = FALSE, !.pot = 0]
    BY Zenon DEF Finish
  <2> QED BY <2>1 DEF Games
<1> QED BY <1>1 DEF Outcomes, DoShowdown

\* What comes of a decision: the same round with the turn moved on, or a
\* later one, once this one is complete.
LEMMA ProceedMoves ==
  ASSUME NEW N, NEW n \in Nat, n > 0, NEW d \in Games(n, N), BigBlind \in Nat, d.started,
         NEW h \in Outcomes(Proceed(d))
  PROVE  \/ h.phase = d.phase /\ ~h.started
         \/ /\ ~BettingRoundComplete(d)
            /\ h = [d EXCEPT !.turn = FindNextActionablePlayer(d, d.turn + 1)]
         \/ /\ BettingRoundComplete(d) /\ Cardinality(ActiveSeats(d)) > 1
            /\ h.phase > d.phase
            /\ h.started => \A i \in 1 .. n : ~h.seats[i].hasActed
<1>1. Proceed(d) \in Games(n, N)
  BY ProceedIs DEF Proper
<1>2. h.phase = Proceed(d).phase /\ (h.started => h = Proceed(d) /\ ~ShowdownDue(Proceed(d)))
  BY <1>1, OutcomesStay
<1>3. CASE ~BettingRoundComplete(d)
  <2>1. Proceed(d) = [d EXCEPT !.turn = FindNextActionablePlayer(d, d.turn + 1)]
    BY <1>3 DEF Proceed
  <2>2. Proceed(d).phase = d.phase
    BY <2>1 DEF Games
  <2> QED BY <1>2, <1>3, <2>1, <2>2
<1>4. CASE BettingRoundComplete(d)
  <2>1. Proceed(d) = AdvancePhase(d)
    BY <1>4 DEF Proceed
  <2>2. CASE AdvancePhase(d) = d /\ ShowdownDue(d)
    BY <1>2, <2>1, <2>2
  <2>3. CASE ~ShowdownDue(d)
    <3>1. Cardinality(ActiveSeats(d)) > 1
      BY <2>3, PartsOfSeats DEF ShowdownDue
    <3> QED BY <1>2, <1>4, <2>1, <2>3, <3>1, AdvancePhaseOpens
  <2>4. ShowdownDue(d) => AdvancePhase(d) = d
    BY DEF AdvancePhase
  <2> QED BY <2>2, <2>3, <2>4
<1> QED BY <1>3, <1>4

\* A decision of the player on turn, step by step.
LEMMA ActIs ==
  ASSUME NEW n \in Nat, Books(n), NEW action \in Decisions, Act(action)
  PROVE  /\ n > 0 /\ TurnSeat(game) \in 1 .. n
         /\ \E d : /\ KeepsBooks(game, d, n, 1 .. n) /\ PotKept(game, d)
                   /\ Decided(game, d, TurnSeat(game), n)
                   /\ d.started
                   /\ game' \in Outcomes(Proceed(d))
<1>1. PICK amount \in AmountsFor(action) :
        game' \in HumanAction(game, TurnSeat(game), action, amount)
  BY DEF Act
<1>2. amount \in Int
  BY <1>1, HandAssumption DEF AmountsFor
<1>3. PICK g, i : g = game /\ i = TurnSeat(game)
  OBVIOUS
<1>4. g \in Games(n, 1 .. n) /\ RoundWithinHand(g) /\ PotIs(g) /\ OnTurn(g) /\ g.started
  BY <1>3 DEF Books, Act
<1>5. i \in 1 .. n
  BY <1>3, <1>4, PartsOfSeats DEF OnTurn
<1>6. PICK d : d = ApplyDecision(g, i, action, amount)
  OBVIOUS
<1>7. KeepsBooks(g, d, n, 1 .. n) /\ PotKept(g, d) /\ Decided(g, d, i, n)
  <2>1. PotCovers(g)
    BY <1>4, PotIsCovers
  <2> QED BY <1>2, <1>4, <1>5, <1>6, <2>1, ApplyDecisionIs, DecisionIs
<1>8. game' \in Outcomes(Proceed(d))
  BY <1>1, <1>3, <1>6 DEF HumanAction
<1>9. d.started
  BY <1>4, <1>7 DEF KeepsBooks
<1> QED BY <1>3, <1>5, <1>7, <1>8, <1>9

(***************************************************************************)
(* The board never comes on before every other player who may act has       *)
(* matched the bet and taken his turn, at a table of any size.              *)
(***************************************************************************)
THEOREM RoundsCloseSettled ==
  Spec => RoundClosesOnlyWhenSettled
<1>1. IInv /\ [Next]_vars
        => [ game.started /\ game'.phase # game.phase
             => \A i \in ActionableSeats(game) \ {TurnSeat(game)} :
                  /\ game.seats[i].hasActed
                  /\ game.seats[i].roundBet >= game.currentBet ]_vars
  <2> SUFFICES ASSUME IInv, Next, game.started, game'.phase # game.phase,
                      NEW i \in ActionableSeats(game), i # TurnSeat(game)
               PROVE  game.seats[i].hasActed /\ game.seats[i].roundBet >= game.currentBet
    OBVIOUS
  <2>1. PICK n \in Nat : Books(n)
    BY DEF IInv
  <2>2. PICK action \in Decisions : Act(action)
    BY DEF Next, Deal
  <2>3. PICK d, t : /\ KeepsBooks(game, d, n, 1 .. n) /\ Decided(game, d, t, n) /\ d.started
                    /\ game' \in Outcomes(Proceed(d)) /\ t = TurnSeat(game) /\ t \in 1 .. n /\ n > 0
    BY <2>1, <2>2, ActIs
  <2>4. /\ d \in Games(n, 1 .. n) /\ game \in Games(n, 1 .. n) /\ BigBlind \in Nat
        /\ d.phase = game.phase
    BY <2>1, <2>3, BlindsAssumption DEF KeepsBooks, Decided, Books
  <2>5. BettingRoundComplete(d) /\ Cardinality(ActiveSeats(d)) > 1
    <3>1. d.phase # game'.phase /\ (Proceed(d).phase = d.phase => FALSE)
      <4>1. Proceed(d) \in Games(n, 1 .. n)
        BY <2>3, <2>4, ProceedIs DEF Proper
      <4> QED BY <2>3, <2>4, <4>1, OutcomesStay
    <3>2. [d EXCEPT !.turn = FindNextActionablePlayer(d, d.turn + 1)].phase = d.phase
      BY <2>4 DEF Games
    <3> QED BY <2>3, <2>4, <3>1, <3>2, ProceedMoves
  <2>6. i \in 1 .. n /\ Seats(d) = 1 .. n
    BY <2>4, PartsOfSeats, SeatsOf
  <2>7. i \in ActionableSeats(d)
    BY <2>3, <2>6 DEF Decided, ActionableSeats, ActiveSeats
  <2>8. d.seats[i].hasActed /\ d.seats[i].roundBet >= d.currentBet
    <3>1. ~(Cardinality(ActiveSeats(d)) <= 1) /\ Cardinality(ActiveSeats(d)) \in Nat
      BY <2>4, <2>5, PartsOfSeats
    <3> QED BY <2>5, <2>7, <3>1 DEF BettingRoundComplete
  <2>9. /\ d.currentBet >= game.currentBet /\ d.seats[i].roundBet = game.seats[i].roundBet
        /\ d.seats[i].hasActed => game.seats[i].hasActed
    BY <2>3, <2>6 DEF Decided
  <2>10. d.currentBet \in Nat /\ game.currentBet \in Nat /\ game.seats[i].roundBet \in Nat
    BY <2>4, <2>6, SeatsOf DEF Games, PlayerRecords
  <2> QED BY <2>8, <2>9, <2>10
<1> QED BY <1>1, Inductive, PTL DEF Spec, RoundClosesOnlyWhenSettled

-----------------------------------------------------------------------------
\* A remainder is as good as the number for what is added to it.
LEMMA ModAdd ==
  ASSUME NEW n \in Nat, n > 0, NEW x \in Nat, NEW k \in Nat
  PROVE  /\ ((x % n) + k) % n = (x + k) % n
         /\ (x + n) % n = x % n
<1> DEFINE q == x \div n
           r == x % n
           p == (r + k) \div n
           s == (r + k) % n
<1>1. q \in Nat /\ r \in 0 .. n - 1 /\ x = q * n + r
  BY Division
<1> HIDE DEF q, r
<1>2. p \in Nat /\ s \in 0 .. n - 1 /\ r + k = p * n + s
  BY <1>1, Division
<1> HIDE DEF p, s
<1>3. x + k = (q + p) * n + s /\ q + p \in Nat /\ x + k \in Nat
  BY <1>1, <1>2
<1>4. x + n = (q + 1) * n + r /\ q + 1 \in Nat /\ x + n \in Nat
  BY <1>1
<1>5. (x + k) % n = s
  BY <1>1, <1>2, <1>3, ModUnique
<1>6. (x + n) % n = r
  BY <1>1, <1>4, ModUnique
<1> QED BY <1>5, <1>6 DEF r, s

\* A walk of less than a circle does not come back.
LEMMA ModApart ==
  ASSUME NEW n \in Nat, n > 0, NEW x \in Nat, NEW k \in 1 .. n - 1
  PROVE  (x + k) % n # x % n
<1> DEFINE q == x \div n
           r == x % n
<1>1. q \in Nat /\ r \in 0 .. n - 1 /\ x = q * n + r
  BY Division
<1> HIDE DEF q, r
<1>2. CASE r + k < n
  <2>1. x + k = q * n + (r + k) /\ r + k \in 0 .. n - 1 /\ x + k \in Nat
    BY <1>1, <1>2
  <2>2. (x + k) % n = r + k
    BY <1>1, <2>1, ModUnique
  <2> QED BY <1>1, <2>2 DEF r
<1>3. CASE r + k >= n
  <2>1. x + k = (q + 1) * n + (r + k - n) /\ r + k - n \in 0 .. n - 1 /\ x + k \in Nat
        /\ q + 1 \in Nat
    BY <1>1, <1>3
  <2>2. (x + k) % n = r + k - n
    BY <1>1, <2>1, ModUnique
  <2> QED BY <1>1, <2>2 DEF r
<1> QED BY <1>1, <1>2, <1>3

(***************************************************************************)
(* The order of the turns.  Those who have not acted come first, from the   *)
(* one on turn on: a raise puts everyone but the raiser before him, and a   *)
(* decision takes the first one to the end.                                 *)
(***************************************************************************)
SeatAt(g, k) == ((g.turn + k) % Len(g.seats)) + 1

\* Of two who may act and come from the "first" place on, the later one has
\* acted if the other has.
InOrderFrom(g, first) ==
  \A k \in first .. Len(g.seats) - 1, l \in first .. Len(g.seats) - 1 :
    /\ k < l
    /\ SeatAt(g, k) \in ActionableSeats(g) /\ SeatAt(g, l) \in ActionableSeats(g)
    /\ g.seats[SeatAt(g, k)].hasActed
    => g.seats[SeatAt(g, l)].hasActed

InOrder == game.started => InOrderFrom(game, 0)

\* A decision keeps the order of the others.
LEMMA DecisionKeepsOrder ==
  ASSUME NEW N, NEW n \in Nat, n > 0, NEW g \in Games(n, N), NEW d \in Games(n, N),
         InOrderFrom(g, 0), Decided(g, d, TurnSeat(g), n)
  PROVE  InOrderFrom(d, 1)
<1>1. Len(g.seats) = n /\ Len(d.seats) = n /\ Seats(g) = 1 .. n /\ Seats(d) = 1 .. n
      /\ g.turn \in Nat /\ d.turn = g.turn
  <2>1. d.turn = g.turn /\ g.turn \in Nat
    BY DEF Decided, Games
  <2>2. Len(g.seats) = n /\ Seats(g) = 1 .. n
    BY SeatsOf
  <2>3. Len(d.seats) = n /\ Seats(d) = 1 .. n
    BY SeatsOf
  <2> QED BY <2>1, <2>2, <2>3
<1> SUFFICES ASSUME NEW k \in 1 .. n - 1, NEW l \in 1 .. n - 1, k < l,
                    SeatAt(d, k) \in ActionableSeats(d), SeatAt(d, l) \in ActionableSeats(d),
                    d.seats[SeatAt(d, k)].hasActed
             PROVE  d.seats[SeatAt(d, l)].hasActed
  BY <1>1 DEF InOrderFrom
<1>2. PICK i, a, b : i = TurnSeat(g) /\ a = SeatAt(d, k) /\ b = SeatAt(d, l)
  OBVIOUS
<1>3. a = SeatAt(g, k) /\ b = SeatAt(g, l)
  BY <1>1, <1>2 DEF SeatAt
<1>4. a # i /\ b # i
  <2>1. i = (g.turn % n) + 1 /\ a = ((g.turn + k) % n) + 1 /\ b = ((g.turn + l) % n) + 1
    BY <1>1, <1>2, <1>3 DEF SeatAt, TurnSeat
  <2>2. g.turn % n \in Nat /\ (g.turn + k) % n \in Nat /\ (g.turn + l) % n \in Nat
    BY <1>1, Division
  <2>3. (g.turn + k) % n # g.turn % n /\ (g.turn + l) % n # g.turn % n
    BY <1>1, ModApart
  <2> QED BY <2>1, <2>2, <2>3
<1>5. a \in ActionableSeats(g) /\ b \in ActionableSeats(g) /\ a \in 1 .. n /\ b \in 1 .. n
  <2>1. a \in ActionableSeats(d) /\ b \in ActionableSeats(d) /\ a \in 1 .. n /\ b \in 1 .. n
    BY <1>2, PartsOfSeats
  <2> QED BY <1>1, <1>2, <1>4, <2>1 DEF Decided, ActionableSeats, ActiveSeats
<1>6. d.seats[b].hasActed
  <2>1. CASE \A j \in 1 .. n : j # i => d.seats[j].hasActed = g.seats[j].hasActed
    <3>1. g.seats[a].hasActed
      BY <1>2, <1>4, <1>5, <2>1
    <3>2. g.seats[b].hasActed
      BY <1>1, <1>3, <1>5, <3>1 DEF InOrderFrom
    <3> QED BY <1>4, <1>5, <2>1, <3>2
  <2>2. CASE \A j \in ActionableSeats(g) : j # i => ~d.seats[j].hasActed
    BY <1>2, <1>4, <1>5, <2>2
  <2> QED BY <1>2, <2>1, <2>2 DEF Decided
<1> QED BY <1>2, <1>6

\* The turn moves on, and who has acted comes last.
LEMMA TurnKeepsOrder ==
  ASSUME NEW N, NEW n \in Nat, n > 0, NEW d \in Games(n, N),
         InOrderFrom(d, 1), d.seats[TurnSeat(d)].hasActed, NEW h,
         h = [d EXCEPT !.turn = FindNextActionablePlayer(d, d.turn + 1)]
  PROVE  InOrderFrom(h, 0)
<1> DEFINE from == d.turn + 1
           ahead == {k \in 0 .. n - 1 : ((from + k) % n) + 1 \in ActionableSeats(d)}
           t == FindNextActionablePlayer(d, from)
<1>1. Len(d.seats) = n /\ d.turn \in Nat /\ from \in Nat
  BY SeatsOf DEF Games
<1>2. t = IF ahead = {} THEN from ELSE (from + Min(ahead)) % n
  BY <1>1 DEF FindNextActionablePlayer
<1>3. t \in Nat
  BY <1>1, FindNextIs
<1>4. h.seats = d.seats /\ h.turn = t /\ ActionableSeats(h) = ActionableSeats(d)
  <2>1. h = [d EXCEPT !.turn = t]
    OBVIOUS
  <2>2. PICK x \in Nat : x = t
    BY <1>3
  <2>3. h = [d EXCEPT !.turn = x]
    BY <2>1, <2>2
  <2>4. h \in Games(n, N) /\ h.seats = d.seats /\ h.turn = x
    <3>1. PICK e : e = [d EXCEPT !.turn = x]
      OBVIOUS
    <3>2. e \in Games(n, N) /\ e.seats = d.seats /\ e.turn = x
      BY <3>1, SetTurn
    <3> QED BY <2>3, <3>1, <3>2
  <2>5. ActionableSeats(h) = ActionableSeats(d)
    BY <2>4, Zenon DEF ActionableSeats, ActiveSeats, Seats
  <2> QED BY <2>2, <2>4, <2>5
<1> HIDE DEF t
<1> SUFFICES ASSUME NEW k \in 0 .. n - 1, NEW l \in 0 .. n - 1, k < l,
                    SeatAt(h, k) \in ActionableSeats(d), SeatAt(h, l) \in ActionableSeats(d),
                    d.seats[SeatAt(h, k)].hasActed
             PROVE  d.seats[SeatAt(h, l)].hasActed
  BY <1>1, <1>4 DEF InOrderFrom
<1>5. \A j \in Nat : SeatAt(h, j) = ((t + j) % n) + 1
  BY <1>1, <1>4 DEF SeatAt
<1>6. CASE ahead = {}
  <2>1. SeatAt(h, k) = ((from + k) % n) + 1
    BY <1>2, <1>5, <1>6
  <2>2. k \in ahead
    BY <2>1
  <2> QED BY <1>6, <2>2
<1>7. CASE ahead # {}
  <2>1. PICK m \in ahead : m = Min(ahead) /\ \A j \in ahead : m <= j
    <3>1. ahead \in SUBSET Nat
      OBVIOUS
    <3> HIDE DEF ahead
    <3> QED BY <1>7, <3>1, MinIs
  <2>2. m \in 0 .. n - 1
    OBVIOUS
  <2>3. t = (from + m) % n
    BY <1>2, <1>7, <2>1
  <2>4. ASSUME NEW j \in 0 .. n - 1
        PROVE  SeatAt(h, j) = ((d.turn + (1 + m + j)) % n) + 1
    <3>1. (((from + m) % n) + j) % n = (from + m + j) % n
      <4> HIDE DEF ahead, from
      <4>1. PICK x \in Nat, y \in Nat : x = from + m /\ y = j
        BY <1>1, <2>2
      <4>2. ((x % n) + y) % n = (x + y) % n
        BY ModAdd
      <4> QED BY <4>1, <4>2
    <3>2. from + m + j = d.turn + (1 + m + j)
      <4>1. from = d.turn + 1
        OBVIOUS
      <4> HIDE DEF ahead, from
      <4>2. PICK x \in Nat, y \in Nat, z \in Nat : x = d.turn /\ y = m /\ z = j
        BY <1>1, <2>2
      <4>3. (x + 1) + y + z = x + (1 + y + z)
        BY <4>2
      <4> QED BY <4>1, <4>2, <4>3
    <3> HIDE DEF ahead, from
    <3> QED BY <1>5, <2>3, <3>1, <3>2
  <2>5. CASE 1 + m + l < n
    <3>1. PICK a \in 1 .. n - 1, b \in 1 .. n - 1 : a = 1 + m + k /\ b = 1 + m + l /\ a < b
      BY <2>2, <2>5
    <3>2. SeatAt(h, k) = SeatAt(d, a) /\ SeatAt(h, l) = SeatAt(d, b)
      BY <1>1, <2>4, <3>1 DEF SeatAt
    <3> QED BY <1>1, <3>1, <3>2 DEF InOrderFrom
  <2>6. CASE 1 + m + l = n
    <3>1. (d.turn + n) % n = d.turn % n
      BY <1>1, ModAdd
    <3>2. SeatAt(h, l) = TurnSeat(d)
      BY <1>1, <2>4, <2>6, <3>1 DEF TurnSeat
    <3> QED BY <3>2
  <2>7. CASE 1 + m + l > n
    <3>1. PICK o \in 0 .. n - 1 : o = m + l - n /\ o < m
      BY <2>2, <2>7
    <3>2. d.turn + (1 + m + l) = (from + o) + n
      <4>1. from = d.turn + 1
        OBVIOUS
      <4> HIDE DEF ahead, from
      <4>2. PICK t0 \in Nat, m0 \in Nat, l0 \in Nat, o0 \in Nat :
              t0 = d.turn /\ m0 = m /\ l0 = l /\ o0 = o
        BY <1>1, <2>2, <3>1
      <4>3. o0 = m0 + l0 - n
        BY <3>1, <4>2
      <4>4. t0 + (1 + m0 + l0) = ((t0 + 1) + o0) + n
        BY <4>3
      <4> QED BY <4>1, <4>2, <4>4
    <3>3. ((from + o) + n) % n = (from + o) % n
      <4> HIDE DEF ahead, from
      <4>1. PICK x \in Nat : x = from + o
        BY <1>1, <3>1
      <4> QED BY <4>1, ModAdd
    <3>4. SeatAt(h, l) = ((from + o) % n) + 1
      BY <2>4, <3>2, <3>3
    <3>5. o \in ahead
      BY <3>4
    <3> HIDE DEF ahead
    <3> QED BY <2>1, <2>2, <3>1, <3>5
  <2> QED BY <2>2, <2>5, <2>6, <2>7
<1> QED BY <1>6, <1>7

LEMMA InOrderKept ==
  ASSUME IInv, InOrder, [Next]_vars
  PROVE  InOrder'
<1>1. PICK n \in Nat : Books(n)
  BY DEF IInv
<1>2. PICK h : h = game'
  OBVIOUS
<1>3. ASSUME h \in Games(n, 1 .. n), \A i \in 1 .. n : ~h.seats[i].hasActed
      PROVE  InOrderFrom(h, 0)
  BY <1>3, PartsOfSeats DEF InOrderFrom
<1>4. CASE Deal /\ h.started
  <2>1. PICK g : g = game /\ g \in Games(n, 1 .. n) /\ CanStartHand(g)
                 /\ h \in StartHand(g)
    BY <1>1, <1>2, <1>4 DEF Books, Deal
  <2>2. n > 0 /\ BigBlind \in Nat /\ SmallBlind \in Nat
    <3>1. Cardinality(DealtInSeats(g)) >= 2 /\ DealtInSeats(g) \subseteq 1 .. n
      BY <2>1, PartsOfSeats DEF CanStartHand
    <3>2. DealtInSeats(g) # {}
      BY <3>1, FS_EmptySet
    <3> QED BY <3>1, <3>2, BlindsAssumption
  <2>3. PICK b : b = PostBlinds(DealIn(g)) /\ h \in Outcomes(StartBettingRound(b))
    BY <2>1 DEF StartHand
  <2>4. b \in Games(n, 1 .. n)
    <3>1. PICK e \in Games(n, 1 .. n) : /\ e = DealIn(g) /\ DealtInSeats(e) = DealtInSeats(g)
                                        /\ \A i \in 1 .. n : e.seats[i].totalBet = 0
                                                             /\ e.seats[i].roundBet = 0
      BY <2>1, DealInIs
    <3> QED BY <2>1, <2>2, <2>3, <3>1, PostBlindsIs DEF KeepsBooks, CanStartHand
  <2>5. StartBettingRound(b) \in Games(n, 1 .. n)
    BY <2>2, <2>4, StartBettingRoundIs DEF Proper
  <2>6. h = StartBettingRound(b)
    BY <1>4, <2>3, <2>5, OutcomesStay
  <2> QED BY <1>2, <1>3, <2>2, <2>4, <2>5, <2>6, StartBettingRoundOpens DEF InOrder
<1>5. ASSUME NEW action \in Decisions, Act(action), h.started
      PROVE  InOrder'
  <2>1. PICK d : /\ KeepsBooks(game, d, n, 1 .. n) /\ Decided(game, d, TurnSeat(game), n)
                 /\ d.started /\ h \in Outcomes(Proceed(d))
    BY <1>1, <1>2, <1>5, ActIs
  <2>2. n > 0 /\ game \in Games(n, 1 .. n) /\ d \in Games(n, 1 .. n) /\ BigBlind \in Nat
        /\ game.started
    BY <1>1, <1>5, <2>1, ActIs, BlindsAssumption DEF Books, KeepsBooks, Act
  <2>3. InOrderFrom(d, 1) /\ d.seats[TurnSeat(d)].hasActed
    <3>1. TurnSeat(d) = TurnSeat(game)
      BY <2>1, <2>2, SeatsOf DEF Decided, TurnSeat
    <3>2. InOrderFrom(game, 0)
      BY <2>2 DEF InOrder
    <3> QED BY <2>1, <2>2, <3>1, <3>2, DecisionKeepsOrder DEF Decided
  <2>4. CASE h = [d EXCEPT !.turn = FindNextActionablePlayer(d, d.turn + 1)]
    BY <1>2, <2>2, <2>3, <2>4, TurnKeepsOrder DEF InOrder
  <2>5. CASE \A i \in 1 .. n : ~h.seats[i].hasActed
    <3>1. h \in Games(n, 1 .. n)
      <4>1. Proceed(d) \in Games(n, 1 .. n)
        BY <2>2, ProceedIs DEF Proper
      <4>2. h = Proceed(d)
        BY <1>5, <2>1, <4>1, OutcomesStay
      <4> QED BY <4>1, <4>2
    <3> QED BY <1>2, <1>3, <2>5, <3>1 DEF InOrder
  <2> QED BY <1>5, <2>1, <2>2, <2>4, <2>5, ProceedMoves
<1>6. CASE UNCHANGED vars
  BY <1>6 DEF vars, InOrder
<1> QED BY <1>2, <1>4, <1>5, <1>6 DEF Next, InOrder

\* In that order the first has not acted unless everybody has, and then the
\* round is complete or somebody owes.
LEMMA TurnOwed ==
  IInv /\ InOrder => TurnIsOwed
<1> SUFFICES ASSUME IInv, InOrder, game.started,
                    game.seats[TurnSeat(game)].hasActed,
                    ~(game.seats[TurnSeat(game)].roundBet < game.currentBet),
                    CalledShort(game) = {}
             PROVE  FALSE
BY DEF TurnIsOwed
<1>1. PICK n \in Nat : Books(n)
  BY DEF IInv
<1>2. /\ game \in Games(n, 1 .. n) /\ OnTurn(game) /\ InOrderFrom(game, 0)
      /\ game.turn \in Nat /\ Len(game.seats) = n
  BY <1>1, SeatsOf DEF Books, InOrder, Games
<1>3. ActionableSeats(game) \subseteq 1 .. n /\ n > 0
  BY <1>2, PartsOfSeats DEF OnTurn
<1>4. ASSUME NEW j \in ActionableSeats(game)
      PROVE  game.seats[j].hasActed /\ game.seats[j].roundBet >= game.currentBet
  <2>1. PICK k \in 0 .. n - 1 : (game.turn + k) % n = j - 1
    <3>1. PICK x \in Nat, t \in 0 .. n - 1 : x = game.turn /\ t = j - 1
      BY <1>2, <1>3
    <3> QED BY <1>3, <3>1, ModReaches
  <2>2. j = SeatAt(game, k)
    BY <1>2, <1>3, <2>1 DEF SeatAt
  <2>3. TurnSeat(game) = SeatAt(game, 0)
    BY <1>2 DEF TurnSeat, SeatAt
  <2>4. game.seats[j].hasActed
    <3>1. CASE k = 0
      BY <2>2, <2>3, <3>1
    <3>2. CASE k # 0
      BY <1>2, <2>2, <2>3, <3>2 DEF InOrderFrom, OnTurn
    <3> QED BY <3>1, <3>2
  <2>5. game.seats[j].roundBet \in Nat /\ game.currentBet \in Nat
    BY <1>2, <1>3, SeatsOf DEF Games, PlayerRecords
  <2> QED BY <2>4, <2>5 DEF CalledShort
<1> QED BY <1>2, <1>4 DEF OnTurn, BettingRoundComplete

LEMMA InOrderStart ==
  Init => InOrder
BY DEF Init, InOrder, NewGame

(***************************************************************************)
(* Nobody is asked twice, at a table of any size and whatever is sent: the  *)
(* player on turn has not acted since the last raise, or owes chips, or     *)
(* somebody called for less (CurrentPlayerIx, CommitBet).                   *)
(***************************************************************************)
THEOREM TurnsAreOwed ==
  Spec => []TurnIsOwed
<1>1. IInv /\ InOrder => TurnIsOwed
  BY TurnOwed
<1> QED BY <1>1, Inductive, InOrderStart, InOrderKept, PTL DEF Spec

-----------------------------------------------------------------------------
\* The chips of those still in the hand, as a sum of the lemmas.
LEMMA BehindIs ==
  ASSUME NEW N, NEW n \in Nat, NEW g \in Games(n, N), NEW f,
         \A i \in ActiveSeats(g) : f[i] = g.seats[i].chips
  PROVE  /\ Behind(g) = SumFunctionOnSet(f, ActiveSeats(g))
         /\ IsFiniteSet(ActiveSeats(g))
         /\ \A i \in ActiveSeats(g) : f[i] \in Nat
<1>1. PICK A, c : A = ActiveSeats(g) /\ c = [i \in A |-> g.seats[i].chips]
  OBVIOUS
<1>2. Behind(g) = SumFunctionOnSet(c, A)
  BY <1>1 DEF Behind, SumOver
<1>3. IsFiniteSet(A) /\ A \subseteq 1 .. n
  BY <1>1, PartsOfSeats
<1>4. \A i \in A : c[i] = f[i]
  BY <1>1
<1>5. SumFunctionOnSet(c, A) = SumFunctionOnSet(f, A)
  BY <1>3, <1>4, SumSame
<1>6. \A i \in A : f[i] \in Nat
  BY <1>1, <1>3, SeatsOf DEF PlayerRecords
<1> QED BY <1>1, <1>2, <1>3, <1>5, <1>6

\* A decision of somebody who owes no less than nothing takes nothing back:
\* chips go in, or he is heard.
LEMMA DecisionMovesOn ==
  ASSUME NEW N, NEW n \in Nat, NEW g \in Games(n, N), NEW d \in Games(n, N),
         NEW i \in ActionableSeats(g), Decided(g, d, i, n),
         g.seats[i].roundBet <= g.currentBet, ~g.seats[i].hasActed
  PROVE  \/ Behind(d) < Behind(g)
         \/ Behind(d) = Behind(g) /\ Unheard(d) \subseteq Unheard(g) /\ Unheard(d) # Unheard(g)
<1>1. /\ i \in 1 .. n /\ i \in ActiveSeats(g)
      /\ ActiveSeats(g) \subseteq 1 .. n /\ ActiveSeats(d) \subseteq 1 .. n
      /\ ActionableSeats(g) \subseteq 1 .. n /\ ActionableSeats(d) \subseteq 1 .. n
  BY PartsOfSeats
<1>2. Seats(g) = 1 .. n /\ Seats(d) = 1 .. n
  <2>1. Seats(g) = 1 .. n
    BY SeatsOf
  <2>2. Seats(d) = 1 .. n
    BY SeatsOf
  <2> QED BY <2>1, <2>2
<1>3. PICK u, v : /\ u = [j \in 1 .. n |-> g.seats[j].chips]
                  /\ v = [j \in 1 .. n |-> d.seats[j].chips]
  OBVIOUS
<1>4. /\ \A j \in 1 .. n : u[j] \in Nat /\ v[j] \in Nat
      /\ v[i] <= u[i]
      /\ \A j \in 1 .. n : j # i => v[j] = u[j]
  <2>1. \A j \in 1 .. n : g.seats[j].chips \in Nat
    BY SeatsOf DEF PlayerRecords
  <2>2. \A j \in 1 .. n : d.seats[j].chips \in Nat
    BY SeatsOf DEF PlayerRecords
  <2> QED BY <1>1, <1>3, <2>1, <2>2 DEF Decided
<1>5. PICK A, B : A = ActiveSeats(g) /\ B = ActiveSeats(d)
  OBVIOUS
<1>6. B = A \/ B = A \ {i}
  BY <1>1, <1>2, <1>5 DEF Decided, ActiveSeats
<1>7. /\ Behind(g) = SumFunctionOnSet(u, A) /\ IsFiniteSet(A)
      /\ Behind(d) = SumFunctionOnSet(v, B) /\ IsFiniteSet(B)
  <2>1. Behind(g) = SumFunctionOnSet(u, A) /\ IsFiniteSet(A)
    <3>1. \A j \in ActiveSeats(g) : u[j] = g.seats[j].chips
      BY <1>1, <1>3
    <3> QED BY <1>5, <3>1, BehindIs
  <2>2. Behind(d) = SumFunctionOnSet(v, B) /\ IsFiniteSet(B)
    <3>1. \A j \in ActiveSeats(d) : v[j] = d.seats[j].chips
      BY <1>1, <1>3
    <3> QED BY <1>5, <3>1, BehindIs
  <2> QED BY <2>1, <2>2
<1>8. PICK x : x = SumFunctionOnSet(u, A \ {i})
  OBVIOUS
<1>9. x \in Int /\ Behind(g) = u[i] + x
      /\ (Behind(d) = v[i] + x \/ Behind(d) = x)
  <2>1. IsFiniteSet(A \ {i}) /\ i \in A /\ A \subseteq 1 .. n
    BY <1>1, <1>5, <1>7, FS_Subset
  <2>2. \A j \in A : u[j] \in Int /\ v[j] \in Int
    <3>1. \A j \in 1 .. n : u[j] \in Int /\ v[j] \in Int
      BY <1>4
    <3> QED BY <2>1, <3>1
  <2>3. x \in Int
    BY <1>8, <2>1, <2>2, SumType
  <2>4. SumFunctionOnSet(v, A \ {i}) = x
    BY <1>4, <1>8, <2>1, SumSame
  <2>5. SumFunctionOnSet(u, A) = u[i] + x
    BY <1>7, <1>8, <2>1, <2>2, SumSplit
  <2>6. SumFunctionOnSet(v, A) = v[i] + x
    BY <1>7, <2>1, <2>2, <2>4, SumSplit
  <2> QED BY <1>6, <1>7, <2>3, <2>4, <2>5, <2>6
<1>10. CASE \A j \in 1 .. n : j # i => d.seats[j].hasActed = g.seats[j].hasActed
  <2>1. i \in Unheard(g) /\ i \notin Unheard(d)
    BY DEF Unheard, Decided
  <2>2. Unheard(d) \subseteq Unheard(g)
    BY <1>1, <1>2, <1>10, <2>1 DEF Unheard, Decided, ActionableSeats, ActiveSeats
  <2> QED BY <1>1, <1>4, <1>9, <2>1, <2>2
<1>11. CASE d.seats[i].chips < g.seats[i].chips
  BY <1>1, <1>3, <1>4, <1>9, <1>11
<1> QED BY <1>10, <1>11 DEF Decided

(***************************************************************************)
(* Every decision brings the hand nearer to its end, at a table of any size *)
(* and with any stacks (applyDecision, commitBet, advancePhase).            *)
(***************************************************************************)
THEOREM HandsMoveOn ==
  Spec => HandMovesOn
<1>1. IInv /\ InOrder /\ [Next]_vars
        => [ game.started /\ game'.started
             => \/ game'.phase > game.phase
                \/ Behind(game') < Behind(game)
                \/ Behind(game') = Behind(game) /\ Unheard(game') \subseteq Unheard(game)
                     /\ Unheard(game') # Unheard(game)
                \/ CalledShort(game) # {}
                \/ game.seats[TurnSeat(game)].roundBet > game.currentBet ]_vars
  <2> SUFFICES ASSUME IInv, InOrder, Next, game.started, game'.started,
                      CalledShort(game) = {},
                      ~(game.seats[TurnSeat(game)].roundBet > game.currentBet)
               PROVE  \/ game'.phase > game.phase
                      \/ Behind(game') < Behind(game)
                      \/ Behind(game') = Behind(game) /\ Unheard(game') \subseteq Unheard(game)
                           /\ Unheard(game') # Unheard(game)
    OBVIOUS
  <2>1. PICK n \in Nat : Books(n)
    BY DEF IInv
  <2>2. PICK action \in Decisions : Act(action)
    BY DEF Next, Deal
  <2>3. PICK d, i, h : /\ KeepsBooks(game, d, n, 1 .. n) /\ Decided(game, d, i, n) /\ d.started
                       /\ h \in Outcomes(Proceed(d)) /\ h = game'
                       /\ i = TurnSeat(game) /\ i \in 1 .. n /\ n > 0
    BY <2>1, <2>2, ActIs
  <2>4. /\ d \in Games(n, 1 .. n) /\ game \in Games(n, 1 .. n) /\ BigBlind \in Nat
        /\ d.phase = game.phase /\ OnTurn(game) /\ InOrderFrom(game, 0)
    BY <2>1, <2>3, BlindsAssumption DEF KeepsBooks, Decided, Books, InOrder
  <2>5. CASE h.phase > d.phase
    BY <2>3, <2>4, <2>5
  <2>6. CASE h = [d EXCEPT !.turn = FindNextActionablePlayer(d, d.turn + 1)]
    <3>1. h.seats = d.seats
      BY <2>4, <2>6 DEF Games
    <3>2. Behind(h) = Behind(d) /\ Unheard(h) = Unheard(d)
      BY <3>1 DEF Behind, Unheard, ActionableSeats, ActiveSeats, Seats
    <3>3. game.seats[i].roundBet <= game.currentBet
      <4>1. game.seats[i].roundBet \in Nat /\ game.currentBet \in Nat
        BY <2>3, <2>4, SeatsOf DEF Games, PlayerRecords
      <4> QED BY <2>3, <4>1
    <3>4. i \in ActionableSeats(game)
      BY <2>3, <2>4 DEF OnTurn
    <3>5. ~game.seats[i].hasActed
      BY <2>3, <3>4, TurnOwed DEF TurnIsOwed, CalledShort
    <3>6. \/ Behind(d) < Behind(game)
          \/ /\ Behind(d) = Behind(game) /\ Unheard(d) \subseteq Unheard(game)
             /\ Unheard(d) # Unheard(game)
      BY <2>3, <2>4, <3>3, <3>4, <3>5, DecisionMovesOn
    <3>7. Behind(game') = Behind(d) /\ Unheard(game') = Unheard(d)
      BY <2>3, <3>2
    <3> QED BY <3>6, <3>7
  <2> QED BY <2>3, <2>4, <2>5, <2>6, ProceedMoves
<1> QED BY <1>1, Inductive, InOrderStart, InOrderKept, PTL DEF Spec, HandMovesOn
-----------------------------------------------------------------------------
(***************************************************************************)
(* The showdown.  What was bet is still to be seen at the intermission, and *)
(* so is what was paid, but the hand they come of is over: the invariant    *)
(* says there was one, played with these players and these stacks.          *)
(***************************************************************************)
\* A hand, running or about to be shown down, dealt to these stacks: everyone
\* has his in front of him or in the pot, and who was not dealt in has folded.
Played(b, n, stacks) ==
  /\ b \in Games(n, 1 .. n)
  /\ b.started /\ ~b.intermission /\ b.payouts = {}
  /\ PotIs(b)
  /\ \A i \in 1 .. n :
       /\ b.seats[i].name = i
       /\ b.seats[i].chips + b.seats[i].totalBet = stacks[i]
       /\ ~(stacks[i] > 0 /\ ~b.seats[i].sittingOut)
            => b.seats[i].folded /\ b.seats[i].totalBet = 0

\* A hand that has been shown down.
Over(g, n, stacks) ==
  \E b : Played(b, n, stacks) /\ ShowdownDue(b) /\ g \in DoShowdown(b)

\* Before the first hand, in a hand, or between two.
Accounted(g, n, stacks) ==
  /\ g \in Games(n, 1 .. n)
  /\ \A i \in 1 .. n : g.seats[i].name = i
  /\ \/ ~g.started /\ ~g.intermission /\ g.payouts = {}
     \/ Played(g, n, stacks)
     \/ Over(g, n, stacks)

ShowInv == \E n \in Nat : Books(n) /\ Accounted(game, n, dealt)

\* What a showdown pays: the last player in the pot, or the winners the side
\* pots; only players who are still in are paid, under their own names.
LEMMA ShowdownPays ==
  ASSUME NEW n \in Nat, NEW b \in Games(n, 1 .. n), NEW h \in DoShowdown(b),
         \A i \in 1 .. n : b.seats[i].name = i
  PROVE  \E paid \in SUBSET PayoutRecords(n, 1 .. n) :
           /\ h = Finish(b, paid) /\ IsFiniteSet(paid)
           /\ \A p \in paid : /\ p.seat \in ActiveSeats(b) /\ p.winner = p.seat
                              /\ p.times \in Nat /\ p.amount \in Nat
           /\ Cardinality(ActiveSeats(b)) # 1 =>
                \E strength \in Rankings(b) : paid = Payouts(b, strength)
<1>1. CASE Cardinality(ActiveSeats(b)) = 1
  <2> DEFINE i == CHOOSE i \in ActiveSeats(b) : TRUE
             paid == UncontestedPayout(b, i)
  <2>1. h = Finish(b, paid)
    BY <1>1 DEF DoShowdown
  <2>2. i \in ActiveSeats(b) /\ i \in 1 .. n
    <3>1. ActiveSeats(b) # {}
      BY <1>1, FS_EmptySet
    <3> QED BY <3>1, PartsOfSeats
  <2> HIDE DEF i
  <2>3. b.pot \in Nat /\ b.seats[i].name = i
    BY <2>2 DEF Games
  <2>4. paid \in SUBSET PayoutRecords(n, 1 .. n)
    BY <2>2, <2>3 DEF UncontestedPayout, PayoutRecords
  <2>5. IsFiniteSet(paid)
    BY FS_Singleton DEF UncontestedPayout
  <2>6. \A p \in paid : /\ p.seat \in ActiveSeats(b) /\ p.winner = p.seat
                        /\ p.times \in Nat /\ p.amount \in Nat
    BY <2>2, <2>3 DEF UncontestedPayout
  <2> HIDE DEF paid
  <2> QED BY <1>1, <2>1, <2>4, <2>5, <2>6
<1>2. CASE Cardinality(ActiveSeats(b)) # 1
  <2>1. PICK strength \in Rankings(b) : h = Finish(b, Payouts(b, strength))
    BY <1>2 DEF DoShowdown
  <2>2. PICK paid : paid = Payouts(b, strength)
    OBVIOUS
  <2>3. paid \in SUBSET PayoutRecords(n, 1 .. n) /\ IsFiniteSet(paid)
    BY <2>2, PayoutsAre
  <2>4. ASSUME NEW p \in paid
        PROVE  /\ p.seat \in ActiveSeats(b) /\ p.winner = p.seat
               /\ p.times \in Nat /\ p.amount \in Nat
    <3>1. p.seat \in p.pot /\ p.pot \subseteq ActiveSeats(b) /\ p.seat \in 1 .. n
      BY <2>2, PaymentIs
    <3>2. p.winner = b.seats[p.seat].name
      BY <2>2, PayoutsShare
    <3>3. p.times \in Nat /\ p.amount \in Nat
      BY <2>3 DEF PayoutRecords
    <3> QED BY <3>1, <3>2, <3>3
  <2> QED BY <2>1, <2>2, <2>3, <2>4
<1> QED BY <1>1, <1>2

\* What comes of a hand is accounted for.
LEMMA OutcomesAccounted ==
  ASSUME NEW n \in Nat, NEW stacks, NEW b, Played(b, n, stacks), NEW h \in Outcomes(b)
  PROVE  Accounted(h, n, stacks)
<1>1. b \in Games(n, 1 .. n) /\ \A i \in 1 .. n : b.seats[i].name = i
  BY DEF Played
<1>2. CASE ~ShowdownDue(b)
  BY <1>1, <1>2 DEF Outcomes, Accounted
<1>3. CASE ShowdownDue(b)
  <2>1. h \in DoShowdown(b)
    BY <1>3 DEF Outcomes
  <2>2. PICK paid \in SUBSET PayoutRecords(n, 1 .. n) : h = Finish(b, paid) /\ IsFiniteSet(paid)
    BY <1>1, <2>1, ShowdownPays
  <2>3. h \in Games(n, 1 .. n) /\ SamePlayers(b, h) /\ Seats(b) = 1 .. n
    BY <1>1, <2>2, FinishIs, SeatsOf
  <2>4. \A i \in 1 .. n : h.seats[i].name = i
    BY <1>1, <2>3 DEF SamePlayers
  <2>5. Over(h, n, stacks)
    BY <1>3, <2>1 DEF Over
  <2> QED BY <2>3, <2>4, <2>5 DEF Accounted
<1> QED BY <1>2, <1>3

\* The deal starts a hand.
LEMMA StartHandPlays ==
  ASSUME NEW n \in Nat, NEW g \in Games(n, 1 .. n), CanStartHand(g), NEW h \in StartHand(g),
         \A i \in 1 .. n : g.seats[i].name = i,
         NEW stacks, \A i \in 1 .. n : stacks[i] = g.seats[i].chips
  PROVE  \E b : Played(b, n, stacks) /\ h \in Outcomes(b)
<1> DEFINE d == DealIn(g)
           p == PostBlinds(d)
           b == StartBettingRound(p)
<1>1. h \in Outcomes(b)
  BY DEF StartHand
<1>2. /\ d \in Games(n, 1 .. n) /\ d.started /\ ~d.intermission /\ d.payouts = {}
      /\ DealtInSeats(d) = DealtInSeats(g)
      /\ SamePlayers(g, d)
      /\ \A i \in 1 .. n : /\ d.seats[i].chips = g.seats[i].chips
                           /\ d.seats[i].totalBet = 0
                           /\ d.seats[i].roundBet = 0
                           /\ ~DealtIn(g.seats[i]) => d.seats[i].folded
  BY DealInIs
<1>3. Cardinality(DealtInSeats(g)) >= 2 /\ SmallBlind \in Nat /\ BigBlind \in Nat
  BY BlindsAssumption DEF CanStartHand
<1> HIDE DEF d
<1>4. /\ KeepsBooks(d, p, n, 1 .. n) /\ PotIs(p)
      /\ \A i \in 1 .. n : /\ p.seats[i].folded = d.seats[i].folded
                           /\ i \notin DealtInSeats(d) => p.seats[i].totalBet = 0
  BY <1>2, <1>3, PostBlindsIs
<1>5. n > 0
  <2>1. DealtInSeats(g) # {}
    <3>1. Cardinality(DealtInSeats(g)) # 0
      BY <1>3
    <3>2. Cardinality({}) = 0
      BY FS_EmptySet
    <3> QED BY <3>1, <3>2, Zenon
  <2>2. PICK i \in DealtInSeats(g) : i \in 1 .. n
    BY <2>1, PartsOfSeats
  <2> QED BY <2>2
<1> HIDE DEF p
<1>6. Proper(p, b, n, 1 .. n)
  BY <1>3, <1>4, <1>5, StartBettingRoundIs DEF KeepsBooks
<1> HIDE DEF b
<1>7. Seats(g) = 1 .. n /\ Seats(d) = 1 .. n /\ Seats(p) = 1 .. n
  <2>1. Seats(g) = 1 .. n
    BY SeatsOf
  <2>2. Seats(d) = 1 .. n
    BY <1>2, SeatsOf
  <2>3. Seats(p) = 1 .. n
    BY <1>4, SeatsOf DEF KeepsBooks
  <2> QED BY <2>1, <2>2, <2>3
<1>8. PotIs(b)
  <2>1. p \in Games(n, 1 .. n) /\ b \in Games(n, 1 .. n) /\ SameMoney(p, b)
    BY <1>4, <1>6 DEF KeepsBooks, Proper
  <2>2. PotKept(p, b)
    BY <2>1, SamePot
  <2> QED BY <1>4, <2>1, <2>2, PotStays
<1>9. ASSUME NEW i \in 1 .. n
      PROVE  /\ b.seats[i].name = i
             /\ b.seats[i].chips + b.seats[i].totalBet = stacks[i]
             /\ ~(stacks[i] > 0 /\ ~b.seats[i].sittingOut)
                  => b.seats[i].folded /\ b.seats[i].totalBet = 0
  <2>1. /\ b.seats[i].chips = p.seats[i].chips /\ b.seats[i].totalBet = p.seats[i].totalBet
        /\ b.seats[i].folded = p.seats[i].folded
        /\ b.seats[i].name = p.seats[i].name /\ b.seats[i].sittingOut = p.seats[i].sittingOut
    BY <1>6, <1>7 DEF Proper, SameMoney, SamePlayers
  <2>2. /\ p.seats[i].chips + p.seats[i].totalBet = d.seats[i].chips + d.seats[i].totalBet
        /\ p.seats[i].name = d.seats[i].name /\ p.seats[i].sittingOut = d.seats[i].sittingOut
    BY <1>4, <1>7 DEF KeepsBooks, SameStake, SamePlayers
  <2>3. d.seats[i].name = g.seats[i].name /\ d.seats[i].sittingOut = g.seats[i].sittingOut
    BY <1>2, <1>7 DEF SamePlayers
  <2>4. g.seats[i].chips \in Nat
    BY SeatsOf DEF PlayerRecords
  <2>5. ~(stacks[i] > 0 /\ ~g.seats[i].sittingOut) => i \notin DealtInSeats(g)
                                                      /\ ~DealtIn(g.seats[i])
    BY DEF DealtIn, DealtInSeats
  <2> QED BY <1>2, <1>4, <2>1, <2>2, <2>3, <2>4, <2>5
<1>10. b \in Games(n, 1 .. n) /\ b.started /\ ~b.intermission /\ b.payouts = {}
  BY <1>2, <1>4, <1>6 DEF KeepsBooks, Proper, SameMoney
<1> QED BY <1>1, <1>8, <1>9, <1>10 DEF Played

\* A decision plays the hand on.
LEMMA DecisionPlays ==
  ASSUME NEW n \in Nat, n > 0, NEW stacks, NEW g, Played(g, n, stacks),
         NEW t \in ActionableSeats(g), NEW d, KeepsBooks(g, d, n, 1 .. n), PotKept(g, d),
         Decided(g, d, t, n)
  PROVE  Played(Proceed(d), n, stacks)
<1>1. /\ g \in Games(n, 1 .. n) /\ d \in Games(n, 1 .. n) /\ BigBlind \in Nat
      /\ d.started
  BY BlindsAssumption DEF Played, KeepsBooks
<1>2. PICK b : b = Proceed(d)
  OBVIOUS
<1>3. Proper(d, b, n, 1 .. n)
  BY <1>1, <1>2, ProceedIs DEF KeepsBooks
<1>4. Seats(g) = 1 .. n /\ Seats(d) = 1 .. n
  <2>1. Seats(g) = 1 .. n
    BY <1>1, SeatsOf
  <2>2. Seats(d) = 1 .. n
    BY <1>1, SeatsOf
  <2> QED BY <2>1, <2>2
<1>5. PotIs(b)
  <2>1. b \in Games(n, 1 .. n) /\ SameMoney(d, b) /\ PotIs(g)
    BY <1>3 DEF Proper, Played
  <2>2. PotIs(d)
    BY <1>1, <2>1, PotStays
  <2>3. PotKept(d, b)
    BY <1>1, <2>1, SamePot
  <2> QED BY <1>1, <2>1, <2>2, <2>3, PotStays
<1>6. ASSUME NEW i \in 1 .. n
      PROVE  /\ b.seats[i].name = i
             /\ b.seats[i].chips + b.seats[i].totalBet = stacks[i]
             /\ ~(stacks[i] > 0 /\ ~b.seats[i].sittingOut)
                  => b.seats[i].folded /\ b.seats[i].totalBet = 0
  <2>1. /\ b.seats[i].chips = d.seats[i].chips /\ b.seats[i].totalBet = d.seats[i].totalBet
        /\ b.seats[i].folded = d.seats[i].folded
        /\ b.seats[i].name = d.seats[i].name /\ b.seats[i].sittingOut = d.seats[i].sittingOut
    BY <1>3, <1>4 DEF Proper, SameMoney, SamePlayers
  <2>2. /\ d.seats[i].chips + d.seats[i].totalBet = g.seats[i].chips + g.seats[i].totalBet
        /\ d.seats[i].name = g.seats[i].name /\ d.seats[i].sittingOut = g.seats[i].sittingOut
    BY <1>4 DEF KeepsBooks, SameStake, SamePlayers
  <2>3. /\ g.seats[i].name = i
        /\ g.seats[i].chips + g.seats[i].totalBet = stacks[i]
        /\ ~(stacks[i] > 0 /\ ~g.seats[i].sittingOut)
             => g.seats[i].folded /\ g.seats[i].totalBet = 0
    BY DEF Played
  <2>4. /\ g.seats[i].chips \in Nat /\ g.seats[i].totalBet \in Nat
        /\ d.seats[i].chips \in Nat /\ d.seats[i].totalBet \in Nat
    <3>1. g.seats[i] \in PlayerRecords(1 .. n)
      BY <1>1, SeatsOf
    <3>2. d.seats[i] \in PlayerRecords(1 .. n)
      BY <1>1, SeatsOf
    <3> QED BY <3>1, <3>2 DEF PlayerRecords
  <2>5. ~g.seats[t].folded
    BY DEF ActionableSeats, ActiveSeats
  <2>6. i # t => d.seats[i].folded = g.seats[i].folded /\ d.seats[i].chips = g.seats[i].chips
    BY DEF Decided
  <2>7. i # t => d.seats[i].totalBet = g.seats[i].totalBet
    BY <2>2, <2>4, <2>6
  <2> QED BY <2>1, <2>2, <2>3, <2>5, <2>6, <2>7
<1>7. b \in Games(n, 1 .. n) /\ b.started /\ ~b.intermission /\ b.payouts = {}
  BY <1>3 DEF Played, KeepsBooks, Proper, SameMoney
<1> QED BY <1>2, <1>5, <1>6, <1>7 DEF Played

LEMMA ShowInit ==
  Init => ShowInv
<1> SUFFICES ASSUME Init PROVE ShowInv
  OBVIOUS
<1>1. PICK n \in Nat : Books(n)
  BY InvInit DEF IInv
<1>2. PICK t \in Tables :
        game = [NewGame EXCEPT !.seats =
                 [i \in DOMAIN t |-> [NewPlayer(i, t[i].chips) EXCEPT
                                        !.sittingOut = t[i].sittingOut]]]
  BY DEF Init
<1>3. /\ ~game.started /\ ~game.intermission /\ game.payouts = {}
      /\ game.seats = [i \in DOMAIN t |-> [NewPlayer(i, t[i].chips) EXCEPT
                                              !.sittingOut = t[i].sittingOut]]
  BY <1>2 DEF NewGame
<1>4. \A i \in DOMAIN t : game.seats[i].name = i
  BY <1>3 DEF NewPlayer
<1>5. DOMAIN t = 1 .. n /\ game \in Games(n, 1 .. n)
  <2>1. game \in Games(n, 1 .. n)
    BY <1>1 DEF Books
  <2>2. Seats(game) = 1 .. n
    BY <2>1, SeatsOf
  <2> QED BY <1>3, <2>1, <2>2 DEF Seats
<1> QED BY <1>1, <1>3, <1>4, <1>5 DEF ShowInv, Accounted

LEMMA ShowNext ==
  ShowInv /\ [Next]_vars => ShowInv'
<1> SUFFICES ASSUME ShowInv, [Next]_vars PROVE ShowInv'
  OBVIOUS
<1>1. PICK n \in Nat : Books(n) /\ Accounted(game, n, dealt)
  BY DEF ShowInv
<1>2. /\ game \in Games(n, 1 .. n)
      /\ \A i \in 1 .. n : game.seats[i].name = i
  BY <1>1 DEF Accounted
<1>3. CASE Deal
  <2>1. Books(n)'
    BY <1>1, <1>3, BooksDeal
  <2>2. /\ CanStartHand(game) /\ game' \in StartHand(game)
        /\ \A i \in 1 .. n : dealt'[i] = game.seats[i].chips
    BY <1>2, <1>3, SeatsOf DEF Deal
  <2>3. PICK b : Played(b, n, dealt') /\ game' \in Outcomes(b)
    BY <1>2, <2>2, StartHandPlays
  <2>4. Accounted(game', n, dealt')
    BY <2>3, OutcomesAccounted
  <2> QED BY <2>1, <2>4 DEF ShowInv
<1>4. ASSUME NEW action \in Decisions, Act(action)
      PROVE  ShowInv'
  <2>1. Books(n)'
    BY <1>1, <1>4, BooksAct
  <2>2. PICK d, t : /\ KeepsBooks(game, d, n, 1 .. n) /\ PotKept(game, d)
                    /\ Decided(game, d, t, n)
                    /\ game' \in Outcomes(Proceed(d)) /\ t = TurnSeat(game) /\ n > 0
    BY <1>1, <1>4, ActIs
  <2>3. t \in ActionableSeats(game) /\ game.started /\ dealt' = dealt
    BY <1>4, <2>2 DEF Act, MayAct
  <2>4. Played(game, n, dealt)
    <3>1. ~Over(game, n, dealt)
      <4>1. SUFFICES ASSUME NEW b, Played(b, n, dealt), game \in DoShowdown(b)
                     PROVE  ~game.started
        BY <2>3 DEF Over
      <4>2. b \in Games(n, 1 .. n) /\ \A i \in 1 .. n : b.seats[i].name = i
        BY <4>1 DEF Played
      <4>3. PICK paid \in SUBSET PayoutRecords(n, 1 .. n) :
              game = Finish(b, paid) /\ IsFiniteSet(paid)
        BY <4>1, <4>2, ShowdownPays
      <4> QED BY <4>2, <4>3, FinishIs
    <3> QED BY <1>1, <2>3, <3>1 DEF Accounted
  <2>5. Played(Proceed(d), n, dealt)
    BY <2>2, <2>3, <2>4, DecisionPlays
  <2>6. Accounted(game', n, dealt')
    BY <2>2, <2>3, <2>5, OutcomesAccounted
  <2> QED BY <2>1, <2>6 DEF ShowInv
<1>5. CASE UNCHANGED vars
  BY <1>1, <1>5 DEF vars, ShowInv, Books
<1> QED BY <1>3, <1>4, <1>5 DEF Next

\* Every hand is accounted for.
THEOREM ShowInductive ==
  Spec => []ShowInv
BY ShowInit, ShowNext, PTL DEF Spec

\* The game h that a hand b leaves: the stacks with what was won on them, the
\* bets still to be seen, and payments to players who are still in.
Settled(b, h, n) ==
  /\ h.intermission /\ h.phase = b.phase
  /\ Seats(h) = 1 .. n /\ ActiveSeats(h) = ActiveSeats(b)
  /\ \A i \in 1 .. n :
       /\ h.seats[i].name = i /\ h.seats[i].sittingOut = b.seats[i].sittingOut
       /\ h.seats[i].totalBet = b.seats[i].totalBet
       /\ h.seats[i].folded = b.seats[i].folded
       /\ WonBySeat(h.payouts, i) \in Nat
       /\ h.seats[i].chips = b.seats[i].chips + WonBySeat(h.payouts, i)
  /\ IsFiniteSet(h.payouts)
  /\ \A p \in h.payouts : /\ p.seat \in ActiveSeats(b) /\ p.winner = p.seat
                          /\ p.times \in Nat /\ p.amount \in Nat
  /\ Cardinality(ActiveSeats(b)) # 1 =>
       \E strength \in Rankings(b) : h.payouts = Payouts(b, strength)

\* Whenever something has been paid, or is to be seen, a hand has been settled.
LEMMA HandSettled ==
  ASSUME ShowInv, game.intermission \/ game.payouts # {}
  PROVE  \E n \in Nat : \E b \in Games(n, 1 .. n) :
           /\ Played(b, n, dealt) /\ ShowdownDue(b) /\ Settled(b, game, n)
           /\ game \in Games(n, 1 .. n)
<1>1. PICK n \in Nat : Accounted(game, n, dealt)
  BY DEF ShowInv
<1>2. PICK b : Played(b, n, dealt) /\ ShowdownDue(b) /\ game \in DoShowdown(b)
  BY <1>1 DEF Accounted, Over, Played
<1>3. b \in Games(n, 1 .. n) /\ \A i \in 1 .. n : b.seats[i].name = i
  BY <1>2 DEF Played
<1>4. PICK paid \in SUBSET PayoutRecords(n, 1 .. n) :
        /\ game = Finish(b, paid) /\ IsFiniteSet(paid)
        /\ \A p \in paid : /\ p.seat \in ActiveSeats(b) /\ p.winner = p.seat
                           /\ p.times \in Nat /\ p.amount \in Nat
        /\ Cardinality(ActiveSeats(b)) # 1 =>
             \E strength \in Rankings(b) : paid = Payouts(b, strength)
  BY <1>2, <1>3, ShowdownPays
<1>5. /\ game.intermission /\ game.payouts = paid /\ game.phase = b.phase
      /\ SamePlayers(b, game) /\ game \in Games(n, 1 .. n)
      /\ \A i \in 1 .. n :
           /\ WonBySeat(paid, i) \in Nat
           /\ game.seats[i].chips = b.seats[i].chips + WonBySeat(paid, i)
           /\ game.seats[i].totalBet = b.seats[i].totalBet
           /\ game.seats[i].folded = b.seats[i].folded
  BY <1>3, <1>4, FinishIs
<1>6. Seats(b) = 1 .. n /\ Seats(game) = 1 .. n
  <2>1. Seats(b) = 1 .. n
    BY <1>3, SeatsOf
  <2>2. Seats(game) = 1 .. n
    BY <1>5, SeatsOf
  <2> QED BY <2>1, <2>2
<1>7. ActiveSeats(game) = ActiveSeats(b)
  BY <1>5, <1>6 DEF ActiveSeats
<1>8. \A i \in 1 .. n : game.seats[i].name = i
                        /\ game.seats[i].sittingOut = b.seats[i].sittingOut
  BY <1>3, <1>5, <1>6 DEF SamePlayers
<1>9. Settled(b, game, n)
  BY <1>4, <1>5, <1>6, <1>7, <1>8 DEF Settled
<1> QED BY <1>2, <1>3, <1>5, <1>9

\* A seat's winnings and its reach.
LEMMA ReachIsRespected ==
  ShowInv => NobodyWinsBeyondHisStake
<1> SUFFICES ASSUME ShowInv, game.intermission, Cardinality(ActiveSeats(game)) >= 2,
                    NEW i \in Seats(game)
             PROVE  WonBySeat(game.payouts, i) <= Reach(i)
  BY DEF NobodyWinsBeyondHisStake
<1>1. PICK n \in Nat : \E b \in Games(n, 1 .. n) :
        /\ Played(b, n, dealt) /\ ShowdownDue(b) /\ Settled(b, game, n)
        /\ game \in Games(n, 1 .. n)
  BY HandSettled
<1>2. PICK b \in Games(n, 1 .. n) : Settled(b, game, n)
  BY <1>1
<1>3. PICK strength \in Rankings(b) : game.payouts = Payouts(b, strength)
  BY <1>2 DEF Settled
<1>4. i \in 1 .. n /\ Seats(game) = 1 .. n /\ Seats(b) = 1 .. n
  BY <1>2, SeatsOf DEF Settled
<1>5. WonBySeat(game.payouts, i)
        <= SumFunctionOnSet(UpTo(b, b.seats[i].totalBet), 1 .. n)
  BY <1>3, <1>4, WonWithinReach
<1>6. PICK f, S : /\ S = 1 .. n
                  /\ f = [j \in S |-> LesserOf(game.seats[i].totalBet,
                                               game.seats[j].totalBet)]
  OBVIOUS
<1>7. Reach(i) = SumFunctionOnSet(f, S)
  BY <1>4, <1>6 DEF Reach, SumOverSeats, SumOver
<1>8. \A j \in S : UpTo(b, b.seats[i].totalBet)[j] = f[j]
  BY <1>2, <1>4, <1>6 DEF UpTo, Settled
<1>9. SumFunctionOnSet(UpTo(b, b.seats[i].totalBet), S) = SumFunctionOnSet(f, S)
  <2>1. IsFiniteSet(S)
    BY <1>6, FS_Interval
  <2> QED BY <1>8, <2>1, SumSame
<1> QED BY <1>5, <1>6, <1>7, <1>9

(***************************************************************************)
(* At a table of any size and whatever the stacks, nobody takes more from   *)
(* any opponent at a showdown than he himself put in (buildSidePots,        *)
(* resolveSidePots).                                                        *)
(***************************************************************************)
THEOREM NobodyWinsBeyond ==
  Spec => []NobodyWinsBeyondHisStake
BY ShowInductive, ReachIsRespected, PTL

\* What the stacks add up to after a showdown without ties.
LEMMA ChipsCounted ==
  ShowInv => ChipsSurviveTheShowdown
<1> SUFFICES ASSUME ShowInv, game.intermission, Cardinality(ActiveSeats(game)) >= 2,
                    \A p \in game.payouts : p.times = 1
             PROVE  SumOverSeats(LAMBDA i : game.seats[i].chips)
                      = SumOverSeats(LAMBDA i : dealt[i]) - UncontestedLayers
  BY DEF ChipsSurviveTheShowdown
<1>1. PICK n \in Nat : \E b \in Games(n, 1 .. n) :
        /\ Played(b, n, dealt) /\ ShowdownDue(b) /\ Settled(b, game, n)
        /\ game \in Games(n, 1 .. n)
  BY HandSettled
<1>2. PICK b \in Games(n, 1 .. n) : Played(b, n, dealt) /\ Settled(b, game, n)
  BY <1>1
<1>3. PICK strength \in Rankings(b) : game.payouts = Payouts(b, strength)
  BY <1>2 DEF Settled
<1>4. Seats(game) = 1 .. n /\ Seats(b) = 1 .. n /\ ActiveSeats(game) = ActiveSeats(b)
  BY <1>2, SeatsOf DEF Settled
<1>5. PICK S, top : S = 1 .. n /\ top = TopBet(b)
  OBVIOUS
<1>6. ActiveSeats(b) # {}
  <2>1. Cardinality(ActiveSeats(b)) >= 2
    BY <1>4
  <2>2. Cardinality(ActiveSeats(b)) # 0
    BY <2>1
  <2>3. Cardinality({}) = 0
    BY FS_EmptySet
  <2> QED BY <2>2, <2>3, Zenon
<1>7. top \in Nat
  BY <1>5, <1>6, TopBetIs
<1>8. Max({game.seats[i].totalBet : i \in ActiveSeats(game)}) = top
  <2>1. {game.seats[i].totalBet : i \in ActiveSeats(game)}
          = {b.seats[i].totalBet : i \in ActiveSeats(b)}
    <3>1. \A i \in ActiveSeats(b) : game.seats[i].totalBet = b.seats[i].totalBet
      BY <1>2, PartsOfSeats DEF Settled
    <3> QED BY <1>4, <3>1
  <2> QED BY <1>5, <2>1 DEF TopBet
<1>9. PICK chips, stacks, won, lost, held :
        /\ chips = [i \in S |-> game.seats[i].chips]
        /\ stacks = [i \in S |-> dealt[i]]
        /\ won = [i \in S |-> WonBySeat(game.payouts, i)]
        /\ lost = [i \in S |-> game.seats[i].totalBet - LesserOf(game.seats[i].totalBet, top)]
        /\ held = UpTo(b, top)
  OBVIOUS
<1>10. /\ SumOverSeats(LAMBDA i : game.seats[i].chips) = SumFunctionOnSet(chips, S)
       /\ SumOverSeats(LAMBDA i : dealt[i]) = SumFunctionOnSet(stacks, S)
  BY <1>4, <1>5, <1>9 DEF SumOverSeats, SumOver
<1>11. UncontestedLayers = SumFunctionOnSet(lost, S)
  BY <1>4, <1>5, <1>8, <1>9 DEF UncontestedLayers, SumOverSeats, SumOver
<1>12. SumFunctionOnSet(won, S) = SumFunctionOnSet(held, S)
  <2>1. \A i \in 1 .. n : won[i] = WonBySeat(Payouts(b, strength), i)
    BY <1>3, <1>5, <1>9
  <2>2. \A p \in Payouts(b, strength) : p.times = 1
    BY <1>3
  <2> QED BY <1>5, <1>6, <1>9, <2>1, <2>2, WonInAll
<1>13. ASSUME NEW i \in S
       PROVE  /\ chips[i] \in Int /\ stacks[i] \in Int /\ won[i] \in Int
              /\ lost[i] \in Int /\ held[i] \in Int
              /\ chips[i] + (lost[i] + held[i]) = stacks[i] + won[i]
  <2>1. b.seats[i].chips \in Nat /\ b.seats[i].totalBet \in Nat
    BY <1>5, SeatsOf DEF PlayerRecords
  <2>2. /\ chips[i] = b.seats[i].chips + won[i] /\ won[i] \in Nat
        /\ game.seats[i].totalBet = b.seats[i].totalBet
    BY <1>2, <1>5, <1>9 DEF Settled
  <2>3. stacks[i] = b.seats[i].chips + b.seats[i].totalBet
    BY <1>2, <1>5, <1>9 DEF Played
  <2>4. held[i] = LesserOf(top, b.seats[i].totalBet)
    BY <1>4, <1>5, <1>9 DEF UpTo
  <2>5. lost[i] = b.seats[i].totalBet - LesserOf(b.seats[i].totalBet, top)
    BY <1>9, <2>2
  <2>6. LesserOf(top, b.seats[i].totalBet) = LesserOf(b.seats[i].totalBet, top)
        /\ LesserOf(top, b.seats[i].totalBet) \in Nat
    BY <1>7, <2>1 DEF LesserOf
  <2> HIDE DEF LesserOf
  <2> QED BY <2>1, <2>2, <2>3, <2>4, <2>5, <2>6
<1>14. PICK off, in : /\ off = [i \in S |-> lost[i] + held[i]]
                      /\ in = [i \in S |-> stacks[i] + won[i]]
  OBVIOUS
<1>15. IsFiniteSet(S)
  BY <1>5, FS_Interval
<1>16. SumFunctionOnSet(off, S) = SumFunctionOnSet(lost, S) + SumFunctionOnSet(held, S)
  <2>1. \A i \in S : lost[i] \in Int /\ held[i] \in Int /\ off[i] = lost[i] + held[i]
    BY <1>13, <1>14
  <2> QED BY <1>15, <2>1, SumPlus
<1>17. SumFunctionOnSet(in, S) = SumFunctionOnSet(stacks, S) + SumFunctionOnSet(won, S)
  <2>1. \A i \in S : stacks[i] \in Int /\ won[i] \in Int /\ in[i] = stacks[i] + won[i]
    BY <1>13, <1>14
  <2> QED BY <1>15, <2>1, SumPlus
<1>18. SumFunctionOnSet(in, S) = SumFunctionOnSet(chips, S) + SumFunctionOnSet(off, S)
  <2>1. \A i \in S : chips[i] \in Int /\ off[i] \in Int /\ in[i] = chips[i] + off[i]
    BY <1>13, <1>14
  <2> QED BY <1>15, <2>1, SumPlus
<1>19. /\ SumFunctionOnSet(chips, S) \in Int /\ SumFunctionOnSet(stacks, S) \in Int
       /\ SumFunctionOnSet(lost, S) \in Int /\ SumFunctionOnSet(held, S) \in Int
  <2>1. /\ \A i \in S : chips[i] \in Int
        /\ \A i \in S : stacks[i] \in Int
        /\ \A i \in S : lost[i] \in Int
        /\ \A i \in S : held[i] \in Int
    BY <1>13
  <2> QED BY <1>15, <2>1, SumType
<1>20. SumFunctionOnSet(chips, S)
         = SumFunctionOnSet(stacks, S) - SumFunctionOnSet(lost, S)
  BY <1>12, <1>16, <1>17, <1>18, <1>19
<1> QED BY <1>10, <1>11, <1>20

(***************************************************************************)
(* Without ties a showdown loses no chip beyond the layers only folded      *)
(* players had reached, whatever the stacks and bets: the side pots are cut *)
(* from the bets without remainder (buildSidePots, resolveSidePots).        *)
(***************************************************************************)
THEOREM ChipsSurvive ==
  Spec => []ChipsSurviveTheShowdown
BY ShowInductive, ChipsCounted, PTL

\* A player's winnings, before and after the rake.
LEMMA RakedWithin ==
  ASSUME NEW paid, IsFiniteSet(paid), NEW i,
         \A p \in paid : p.winner = p.seat /\ p.times \in Nat /\ p.amount \in Nat
  PROVE  /\ Gross(i, paid) = WonBySeat(paid, i)
         /\ RakedFrom(i, paid) \in Nat
         /\ RakedFrom(i, paid) <= WonBySeat(paid, i)
         /\ (\A p \in paid : p.seat # i) => WonBySeat(paid, i) = 0
<1>1. PICK T, rake, award :
        /\ T = {p \in paid : p.seat = i}
        /\ rake = [p \in T |-> p.times * (SiteRake(p.amount) + ReferralCut(i, p.amount))]
        /\ award = [p \in T |-> p.times * p.amount]
  OBVIOUS
<1>2. T = {p \in paid : p.winner = i}
  BY <1>1
<1>3. /\ WonBySeat(paid, i) = SumFunctionOnSet(award, T)
      /\ Gross(i, paid) = SumFunctionOnSet(award, T)
      /\ RakedFrom(i, paid) = SumFunctionOnSet(rake, T)
  <2>1. WonBySeat(paid, i) = SumFunctionOnSet(award, T)
    BY <1>1 DEF WonBySeat, SumOver
  <2>2. Gross(i, paid) = SumFunctionOnSet(award, T)
    BY <1>1, <1>2, Zenon DEF Gross, SumOver
  <2>3. RakedFrom(i, paid) = SumFunctionOnSet(rake, T)
    BY <1>1, <1>2, Zenon DEF RakedFrom, SumOver
  <2> QED BY <2>1, <2>2, <2>3
<1>4. ASSUME NEW p \in T
      PROVE  /\ rake[p] \in Nat /\ rake[p] \in Int /\ award[p] \in Int
             /\ rake[p] <= award[p]
  <2>1. PICK t \in Nat, a \in Nat : t = p.times /\ a = p.amount
    BY <1>1
  <2>2. PICK r \in 0 .. a : r = SiteRake(a) + ReferralCut(i, a)
    BY RakeIsPart
  <2>3. rake[p] = t * r /\ award[p] = t * a
    BY <1>1, <2>1, <2>2
  <2>4. t * r \in Nat /\ t * a \in Nat /\ t * (a - r) >= 0 /\ t * (a - r) = t * a - t * r
    OBVIOUS
  <2> QED BY <2>3, <2>4
<1>5. IsFiniteSet(T)
  BY <1>1, FS_Subset
<1>6. SumFunctionOnSet(rake, T) <= SumFunctionOnSet(award, T)
  <2>1. \A p \in T : rake[p] \in Int /\ award[p] \in Int /\ rake[p] <= award[p]
    BY <1>4
  <2> QED BY <1>5, <2>1, SumAtMost
<1>7. SumFunctionOnSet(rake, T) \in Nat
  <2>1. \A p \in T : rake[p] \in Nat
    BY <1>4
  <2> QED BY <1>5, <2>1, SumNat
<1>8. ASSUME \A p \in paid : p.seat # i
      PROVE  WonBySeat(paid, i) = 0
  <2>1. T = {}
    BY <1>1, <1>8
  <2> QED BY <1>3, <2>1, SumOfNothing
<1> QED BY <1>3, <1>6, <1>7, <1>8

\* The rake comes off the stacks, none of which is short of it.
LEMMA RakedStacks ==
  ASSUME NEW n \in Nat, NEW g \in Games(n, 1 .. n), IsFiniteSet(g.payouts),
         \A i \in 1 .. n : /\ g.seats[i].name = i
                           /\ RakedFrom(i, g.payouts) <= g.seats[i].chips
  PROVE  \A i \in 1 .. n : Raked(g).seats[i].chips
                             = g.seats[i].chips - RakedFrom(i, g.payouts)
<1> SUFFICES ASSUME NEW i \in 1 .. n
             PROVE  Raked(g).seats[i].chips = g.seats[i].chips - RakedFrom(i, g.payouts)
  OBVIOUS
<1>1. g.seats[i].chips \in Nat /\ RakedFrom(i, g.payouts) \in Nat
  <2>1. g.payouts \in SUBSET PayoutRecords(n, 1 .. n)
    BY DEF Games
  <2>2. RakedFrom(i, g.payouts) \in Nat
    BY <2>1, RakeIs
  <2> QED BY <2>2, SeatsOf DEF PlayerRecords
<1>2. PICK c \in Nat, r \in Nat : c = g.seats[i].chips /\ r = RakedFrom(i, g.payouts)
  BY <1>1
<1>3. Raked(g).seats[i].chips = c - LesserOf(c, r)
  BY <1>2, RakedIs
<1> QED BY <1>2, <1>3 DEF LesserOf

\* The rows of the hand, and the stacks once the rake is off.
LEMMA HistoryIsTrue ==
  ShowInv => HistoryIsWhatTheStacksDid
<1> SUFFICES ASSUME ShowInv, game.payouts # {} PROVE HistoryIsWhatTheStacksDid
  BY DEF HistoryIsWhatTheStacksDid
<1>1. PICK n \in Nat : \E b \in Games(n, 1 .. n) :
        /\ Played(b, n, dealt) /\ ShowdownDue(b) /\ Settled(b, game, n)
        /\ game \in Games(n, 1 .. n)
  BY HandSettled
<1>2. PICK b \in Games(n, 1 .. n) :
        /\ Played(b, n, dealt) /\ ShowdownDue(b) /\ Settled(b, game, n)
        /\ game \in Games(n, 1 .. n)
  BY <1>1
<1>3. PICK paid, raked : paid = game.payouts /\ raked = Raked(game)
  OBVIOUS
<1>4. /\ IsFiniteSet(paid) /\ Seats(game) = 1 .. n
      /\ ActiveSeats(game) = ActiveSeats(b) /\ ActiveSeats(game) \subseteq 1 .. n
      /\ \A p \in paid : /\ p.seat \in ActiveSeats(game) /\ p.winner = p.seat
                         /\ p.times \in Nat /\ p.amount \in Nat
  BY <1>2, <1>3, PartsOfSeats DEF Settled
<1>5. ASSUME NEW i \in 1 .. n
      PROVE  /\ Gross(i, paid) = WonBySeat(paid, i)
             /\ WonBySeat(paid, i) \in Nat
             /\ RakedFrom(i, paid) \in Nat
             /\ RakedFrom(i, paid) <= WonBySeat(paid, i)
             /\ i \notin ActiveSeats(game) => WonBySeat(paid, i) = 0
  <2>1. \A p \in paid : p.winner = p.seat /\ p.times \in Nat /\ p.amount \in Nat
    BY <1>4
  <2>2. /\ Gross(i, paid) = WonBySeat(paid, i)
        /\ RakedFrom(i, paid) \in Nat
        /\ RakedFrom(i, paid) <= WonBySeat(paid, i)
        /\ (\A p \in paid : p.seat # i) => WonBySeat(paid, i) = 0
    BY <1>4, <2>1, RakedWithin
  <2>3. WonBySeat(paid, i) \in Nat
    BY <1>2, <1>3 DEF Settled
  <2>4. i \notin ActiveSeats(game) => \A p \in paid : p.seat # i
    BY <1>4
  <2> QED BY <2>2, <2>3, <2>4
<1>6. ASSUME NEW i \in 1 .. n
      PROVE  /\ game.seats[i].name = i
             /\ game.seats[i].chips \in Nat /\ game.seats[i].totalBet \in Nat
             /\ dealt[i] \in Nat
             /\ game.seats[i].chips + game.seats[i].totalBet
                  = dealt[i] + WonBySeat(paid, i)
             /\ i \notin DealtPlayers => /\ i \notin ActiveSeats(game)
                                         /\ game.seats[i].totalBet = 0
  <2>1. PICK c \in Nat, t \in Nat, w \in Nat :
          c = b.seats[i].chips /\ t = b.seats[i].totalBet /\ w = WonBySeat(paid, i)
    BY <1>5, SeatsOf DEF PlayerRecords
  <2>2. /\ c + t = dealt[i]
        /\ ~(dealt[i] > 0 /\ ~b.seats[i].sittingOut)
             => b.seats[i].folded /\ b.seats[i].totalBet = 0
    BY <1>2, <2>1 DEF Played
  <2>3. /\ game.seats[i].name = i
        /\ game.seats[i].sittingOut = b.seats[i].sittingOut
        /\ game.seats[i].totalBet = t
        /\ game.seats[i].folded = b.seats[i].folded
        /\ game.seats[i].chips = c + w
    BY <1>2, <1>3, <2>1 DEF Settled
  <2>4. i \notin DealtPlayers => /\ i \notin ActiveSeats(game)
                                 /\ game.seats[i].totalBet = 0
    BY <1>4, <2>1, <2>2, <2>3 DEF DealtPlayers, HoldsCards, ActiveSeats
  <2>5. c \in Nat /\ t \in Nat /\ w \in Nat
    BY <2>1
  <2>6. game.seats[i].chips \in Nat /\ dealt[i] \in Nat
    BY <2>2, <2>3, <2>5
  <2>7. game.seats[i].chips + game.seats[i].totalBet = dealt[i] + w
    <3>1. (c + w) + t = (c + t) + w
      BY <2>5
    <3> QED BY <2>2, <2>3, <3>1, Zenon
  <2>8. game.seats[i].totalBet \in Nat
    BY <2>3, <2>5
  <2>9. game.seats[i].name = i
    BY <2>3
  <2>10. w = WonBySeat(paid, i)
    BY <2>1
  <2> QED BY <2>4, <2>6, <2>7, <2>8, <2>9, <2>10, Zenon
<1>7. ASSUME NEW i \in 1 .. n
      PROVE  raked.seats[i].chips = game.seats[i].chips - RakedFrom(i, paid)
  <2>1. \A j \in 1 .. n : /\ game.seats[j].name = j
                          /\ RakedFrom(j, game.payouts) <= game.seats[j].chips
    <3>1. SUFFICES ASSUME NEW j \in 1 .. n
                   PROVE  RakedFrom(j, paid) <= game.seats[j].chips
      BY <1>3, <1>5, <1>6
    <3>2. b.seats[j].chips \in Nat
      BY SeatsOf DEF PlayerRecords
    <3>3. game.seats[j].chips = b.seats[j].chips + WonBySeat(paid, j)
      BY <1>2, <1>3 DEF Settled
    <3> QED BY <1>5, <3>2, <3>3
  <2>2. IsFiniteSet(game.payouts)
    BY <1>3, <1>4
  <2> QED BY <1>2, <1>3, <2>1, <2>2, RakedStacks
<1>8. DealtPlayers \subseteq 1 .. n
  BY <1>4 DEF DealtPlayers
\* The cards on show.
<1>9. Contenders = ActiveSeats(game)
  BY <1>4, <1>6, <1>8 DEF Contenders, ActiveSeats
<1>10. Cardinality(Contenders) > 1 => game.phase = Showdown
  <2>1. Cardinality(ActiveSeats(b)) \in Nat
    BY PartsOfSeats
  <2> QED BY <1>2, <1>4, <1>9, <2>1 DEF ShowdownDue, Settled
\* The rows.
<1> DEFINE row(i) == CreateHandPlayer(RecordHand(paid)[i])
<1>11. ASSUME NEW i \in DealtPlayers
       PROVE  /\ row(i).won = WonBySeat(paid, i) - RakedFrom(i, paid)
              /\ row(i).net = row(i).won - game.seats[i].totalBet
              /\ row(i).folded = game.seats[i].folded
              /\ row(i).showedDown = (Cardinality(Contenders) > 1 /\ ~game.seats[i].folded)
  <2>1. game.seats[i].name = i /\ Gross(i, paid) = WonBySeat(paid, i)
    BY <1>5, <1>6, <1>8
  <2>2. RecordHand(paid)[i]
          = [invested   |-> game.seats[i].totalBet,
             won        |-> WonBySeat(paid, i) - RakedFrom(i, paid),
             rake       |-> RakedFrom(i, paid),
             folded     |-> game.seats[i].folded,
             showedDown |-> Cardinality(Contenders) > 1 /\ ~game.seats[i].folded]
    BY <2>1 DEF RecordHand
  <2> QED BY <2>2 DEF CreateHandPlayer
<1>12. ASSUME NEW i \in DealtPlayers
       PROVE  row(i).net = raked.seats[i].chips - dealt[i]
  <2>1. PICK c \in Nat, t \in Nat, w \in Nat, k \in Nat, d \in Nat :
          /\ c = game.seats[i].chips /\ t = game.seats[i].totalBet
          /\ w = WonBySeat(paid, i) /\ k = RakedFrom(i, paid) /\ d = dealt[i]
    BY <1>5, <1>6, <1>8
  <2>2. c + t = d + w /\ raked.seats[i].chips = c - k
    BY <1>6, <1>7, <1>8, <2>1
  <2>3. row(i).net = (w - k) - t
    <3> HIDE DEF row
    <3> QED BY <1>11, <2>1
  <2>4. c - k - d = (w - k) - t
    <3>1. c \in Nat /\ t \in Nat /\ w \in Nat /\ k \in Nat /\ d \in Nat
      BY <2>1
    <3> QED BY <2>2, <3>1
  <2>5. d = dealt[i]
    BY <2>1
  <2> HIDE DEF row
  <2> QED BY <2>2, <2>3, <2>4, <2>5, Zenon
<1>13. ASSUME NEW i \in Seats(game) \ DealtPlayers
       PROVE  raked.seats[i].chips - dealt[i] = 0
  <2>1. i \in 1 .. n /\ i \notin ActiveSeats(game) /\ game.seats[i].totalBet = 0
    BY <1>4, <1>6
  <2>2. WonBySeat(paid, i) = 0 /\ RakedFrom(i, paid) = 0
    BY <1>5, <2>1
  <2>3. dealt[i] = game.seats[i].chips
    BY <1>6, <2>1, <2>2
  <2> QED BY <1>6, <1>7, <2>1, <2>2, <2>3
<1>14. ASSUME NEW i \in DealtPlayers, row(i).won > 0
       PROVE  ~row(i).folded /\ (row(i).showedDown <=> game.phase = Showdown
                                                       /\ Cardinality(Contenders) > 1)
  <2>1. WonBySeat(paid, i) - RakedFrom(i, paid) > 0
    BY <1>11, <1>14
  <2>2. i \in ActiveSeats(game)
    BY <1>5, <1>8, <2>1
  <2>3. ~game.seats[i].folded
    BY <2>2 DEF ActiveSeats
  <2> HIDE DEF row
  <2> QED BY <1>10, <1>11, <2>3
<1> HIDE DEF row
<1>15. \A i \in DealtPlayers : [j \in DealtPlayers |-> CreateHandPlayer(RecordHand(paid)[j])][i]
                                 = row(i)
  BY DEF row
<1> QED BY <1>3, <1>12, <1>13, <1>14, <1>15 DEF HistoryIsWhatTheStacksDid

(***************************************************************************)
(* A player's row of history is what the hand did to his stack, at every    *)
(* table and whatever the rake and referral percentages, and the cards on   *)
(* show are those of a showdown (recordHand, handlePotCommission).          *)
(***************************************************************************)
THEOREM HistoryIsKept ==
  Spec => []HistoryIsWhatTheStacksDid
BY ShowInductive, HistoryIsTrue, PTL
=============================================================================
