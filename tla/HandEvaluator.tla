---------------------------- MODULE HandEvaluator ----------------------------
(***************************************************************************)
(* What a hand is worth: hand_evaluator.go, hand_evaluator_rules.go and     *)
(* hand_evaluator_solver.go under StandardRules, which has no wild cards.   *)
(*                                                                          *)
(* A card is its rank, as rankIndex has it (2 is 1, ace is 13), and its     *)
(* suit; a pool is a set of them.  Of the cards a solver picks Compare      *)
(* reads the ranks, so a solver is the sequence of ranks of Hand.Cards, and *)
(* the empty one where the hand is not possible.                            *)
(***************************************************************************)
EXTENDS Integers, Sequences, FiniteSets, FiniteSetsExt, SequencesExt

Ace == 13
CardsInHand == 5
SFQualify == 5

Ranks(pool) == {c.rank : c \in pool}
Suits(pool) == {c.suit : c \in pool}
Values(pool, rank) == {c \in pool : c.rank = rank}
NumCardsByRank(pool, rank) == Cardinality(Values(pool, rank))
CardsForFlush(pool, suit) == {c \in pool : c.suit = suit}

\* sortCards: the ranks of the pool, highest first.
SortCards(pool) ==
  [k \in 1..Cardinality(pool) |->
    CHOOSE r \in Ranks(pool) :
      /\ Cardinality({c \in pool : c.rank > r}) < k
      /\ k <= Cardinality({c \in pool : c.rank >= r})]

Cut(cards, n) == SubSeq(cards, 1, IF n < Len(cards) THEN n ELSE Len(cards))

\* The ranks held this many times; ValueOrder walks them from the highest.
Held(pool, times) == {r \in Ranks(pool) : NumCardsByRank(pool, r) \in times}
Times(rank, n) == [k \in 1..n |-> rank]

\* nextHighest: the best of the cards of other ranks.
NextHighest(pool, ranks, n) == Cut(SortCards({c \in pool : c.rank \notin ranks}), n)

(***************************************************************************)
(* The solvers.                                                             *)
(***************************************************************************)
\* Mutant: five cards in a row are tried with the ace on top only.
SolveStraightAceHigh(pool) ==
  LET tops == {r \in Ranks(pool) : (r - 4)..r \subseteq Ranks(pool)}
  IN  IF tops = {} THEN <<>> ELSE [k \in 1..5 |-> Max(tops) + 1 - k]

SolveStraight(pool) ==
  LET tops == {r \in Ranks(pool) : (r - 4)..r \subseteq Ranks(pool)}
  IN  IF tops # {} THEN [k \in 1..5 |-> Max(tops) + 1 - k]
      ELSE IF {Ace, 1, 2, 3, 4} \subseteq Ranks(pool) THEN <<4, 3, 2, 1, Ace>>
      ELSE <<>>

FlushSuits(pool) == {s \in Suits(pool) : Cardinality(CardsForFlush(pool, s)) >= SFQualify}

\* Of ten cards or more two suits could qualify, and the map's order would
\* choose; of seven only one can.
SolveStraightFlush(pool) ==
  IF FlushSuits(pool) = {} THEN <<>>
  ELSE SolveStraight(CardsForFlush(pool, CHOOSE s \in FlushSuits(pool) : TRUE))

SolveFlush(pool) ==
  IF FlushSuits(pool) = {} THEN <<>>
  ELSE Cut(SortCards(CardsForFlush(pool, CHOOSE s \in FlushSuits(pool) : TRUE)), CardsInHand)

\* One rank held exactly "times" times, and the best of the rest.
SolveOfAKind(pool, times) ==
  IF Held(pool, {times}) = {} THEN <<>>
  ELSE LET rank == Max(Held(pool, {times}))
       IN  Times(rank, times) \o NextHighest(pool, {rank}, CardsInHand - times)

SolveFourOfAKind(pool) == SolveOfAKind(pool, 4)
SolveThreeOfAKind(pool) == SolveOfAKind(pool, 3)
SolveOnePair(pool) == SolveOfAKind(pool, 2)

\* The second rank comes with all its cards, so there may be six.
SolveFullHouse(pool) ==
  IF Held(pool, {3}) = {} THEN <<>>
  ELSE LET three == Max(Held(pool, {3}))
           pairs == Held(pool, {2, 3, 4}) \ {three}
       IN  IF pairs = {} THEN <<>>
           ELSE Times(three, 3) \o Times(Max(pairs), NumCardsByRank(pool, Max(pairs)))

SolveTwoPair(pool) ==
  LET pairs == Held(pool, {2, 3, 4})
      high  == Max(pairs)
      low   == Max(pairs \ {high})
  IN  IF Cardinality(pairs) < 2 THEN <<>>
      ELSE Times(high, NumCardsByRank(pool, high)) \o Times(low, NumCardsByRank(pool, low))
             \o NextHighest(pool, {high, low}, 1)

SolveHighCard(pool) == Cut(SortCards(pool), CardsInHand)

\* _handRankings, which is also the order Solve tries them in, from the top.
SolveAs(rank, pool) ==
  CASE rank = 9 -> SolveStraightFlush(pool)
    [] rank = 8 -> SolveFourOfAKind(pool)
    [] rank = 7 -> SolveFullHouse(pool)
    [] rank = 6 -> SolveFlush(pool)
    [] rank = 5 -> SolveStraight(pool)
    [] rank = 4 -> SolveThreeOfAKind(pool)
    [] rank = 3 -> SolveTwoPair(pool)
    [] rank = 2 -> SolveOnePair(pool)
    [] rank = 1 -> SolveHighCard(pool)

Solve(pool) ==
  LET rank == Max({r \in 1..9 : SolveAs(r, pool) # <<>>})
  IN  [rank |-> rank, cards |-> SolveAs(rank, pool)]

(***************************************************************************)
(* Compare is 1 where the other hand is better and -1 where it is worse.    *)
(***************************************************************************)
Compare(h, o) ==
  LET differ == {i \in 1..5 : /\ i <= Len(h.cards) /\ i <= Len(o.cards)
                              /\ h.cards[i] # o.cards[i]}
      lower(a, b) == IF a < b THEN 1 ELSE -1
  IN  IF h.rank # o.rank THEN lower(h.rank, o.rank)
      ELSE IF differ = {} THEN 0
      ELSE lower(h.cards[Min(differ)], o.cards[Min(differ)])

\* The indices of the winners among these hands.
Winners(hands) ==
  LET better(best, h) == IF Compare(h, best) < 0 THEN h ELSE best
      best == FoldLeft(better, hands[1], hands)
  IN  {i \in DOMAIN hands : Compare(hands[i], best) = 0}
=============================================================================
