----------------------------- MODULE EngineProof -----------------------------
(***************************************************************************)
(* What the operators of GameEngine.tla and HandPayout.tla do to a game,    *)
(* for tables of any number of seats: the lemmas that the theorems about    *)
(* Hand and Table rest on.  There is one for each operator, named after it: *)
(* PlaceBetIs says what PlaceBet does, StartHandIs and HumanActionIs what   *)
(* the engine's entry points do, RakedIs what the rake leaves.              *)
(*                                                                          *)
(* The steps of the engine are of two kinds, and most lemmas say that an    *)
(* operator is of one of them.  A bet KeepsBooks: what it takes off a stack *)
(* is in the bets of the hand and in the pot.  Opening a round, moving the  *)
(* turn or the board on is Proper: it moves no chips, and somebody is on    *)
(* turn afterwards or a showdown is due.                                    *)
(***************************************************************************)
EXTENDS HandPayout, Sums

\* What a showdown may record at a table of n seats whose players are of N.
PayoutRecords(n, N) ==
  [pot : SUBSET (1 .. n), seat : 1 .. n, winner : N, times : Nat, amount : Nat]

\* The games of n seats whose players are of N.
Games(n, N) ==
  [started : BOOLEAN, intermission : BOOLEAN, phase : 0 .. Showdown,
   pot : Nat, currentBet : Nat, lastRaise : Nat, orbit : Nat \cup {-1}, turn : Nat,
   lastWinner : BOOLEAN, payouts : SUBSET PayoutRecords(n, N),
   seats : [1 .. n -> PlayerRecords(N)]]

-----------------------------------------------------------------------------
\* Quotient and remainder.
LEMMA Division ==
  ASSUME NEW n \in Nat, n > 0, NEW x \in Nat
  PROVE  x \div n \in Nat /\ x % n \in 0 .. n - 1 /\ x = (x \div n) * n + (x % n)
<1>1. x \div n \in Nat
  OBVIOUS
<1>2. x % n \in 0 .. n - 1
  OBVIOUS
<1>3. x = n * (x \div n) + (x % n)
  OBVIOUS
<1> QED BY <1>1, <1>2, <1>3

\* A remainder is what is left of a number between two multiples.
LEMMA ModUnique ==
  ASSUME NEW n \in Nat, n > 0, NEW x \in Nat, NEW q \in Nat, NEW r \in 0 .. n - 1,
         x = q * n + r
  PROVE  x % n = r
<1> DEFINE d == x \div n
<1>1. d \in Int /\ x % n \in 0 .. n - 1 /\ x = d * n + (x % n)
  BY Division
<1> HIDE DEF d
<1>2. CASE d >= q + 1
  <2>1. d * n >= q * n + n
    <3>1. (d - (q + 1)) * n >= 0
      BY <1>1, <1>2
    <3> QED BY <3>1, <1>1
  <2> QED BY <2>1, <1>1
<1>3. CASE d <= q - 1
  <2>1. d * n <= q * n - n
    <3>1. ((q - 1) - d) * n >= 0
      BY <1>1, <1>3
    <3> QED BY <3>1, <1>1
  <2> QED BY <2>1, <1>1
<1>4. CASE d = q
  BY <1>1, <1>4
<1> QED BY <1>1, <1>2, <1>3, <1>4

\* The remainder goes up by one, and from the last one back to 0.
LEMMA ModStep ==
  ASSUME NEW n \in Nat, n > 0, NEW x \in Nat
  PROVE  (x + 1) % n = IF x % n = n - 1 THEN 0 ELSE (x % n) + 1
<1> DEFINE q == x \div n
           r == x % n
<1>1. q \in Nat /\ r \in 0 .. n - 1 /\ x = q * n + r
  OBVIOUS
<1> HIDE DEF q
<1>2. CASE r = n - 1
  <2>1. x + 1 = (q + 1) * n + 0
    BY <1>1, <1>2
  <2>2. q + 1 \in Nat /\ x + 1 \in Nat /\ 0 \in 0 .. n - 1
    BY <1>1
  <2>3. (x + 1) % n = 0
    BY <2>1, <2>2, ModUnique
  <2> QED BY <2>3, <1>2
<1>3. CASE r # n - 1
  <2>1. x + 1 = q * n + (r + 1)
    BY <1>1
  <2>2. r + 1 \in 0 .. n - 1
    BY <1>1, <1>3
  <2> QED BY <2>1, <2>2, <1>1, <1>3, ModUnique
<1> QED BY <1>2, <1>3

\* From any number a walk of less than n steps arrives at every remainder.
LEMMA ModReaches ==
  ASSUME NEW n \in Nat, n > 0, NEW x \in Nat, NEW t \in 0 .. n - 1
  PROVE  \E k \in 0 .. n - 1 : (x + k) % n = t
<1> DEFINE q == x \div n
           r == x % n
<1>1. q \in Nat /\ r \in 0 .. n - 1 /\ x = q * n + r
  OBVIOUS
<1> HIDE DEF q, r
<1>2. CASE r <= t
  <2>1. x + (t - r) = q * n + t
    BY <1>1
  <2>2. t - r \in 0 .. n - 1
    BY <1>1, <1>2
  <2>3. (x + (t - r)) % n = t
    BY <2>1, <2>2, <1>1, ModUnique
  <2> QED BY <2>2, <2>3
<1>3. CASE r > t
  <2>1. x + (t + n - r) = (q + 1) * n + t
    BY <1>1
  <2>2. t + n - r \in 0 .. n - 1
    BY <1>1, <1>3
  <2>3. (x + (t + n - r)) % n = t
    BY <2>1, <2>2, <1>1, ModUnique
  <2> QED BY <2>2, <2>3
<1> QED BY <1>1, <1>2, <1>3

-----------------------------------------------------------------------------
\* Min is the least element.
LEMMA MinIs ==
  ASSUME NEW S \in SUBSET Nat, S # {}
  PROVE  Min(S) \in S /\ \A x \in S : Min(S) <= x
BY LeastNatural DEF Min

\* Max is the greatest element.
LEMMA MaxIs ==
  ASSUME NEW S \in SUBSET Nat, IsFiniteSet(S), S # {}
  PROVE  Max(S) \in S /\ \A x \in S : x <= Max(S)
<1> DEFINE Good == {T \in SUBSET S : T # {} => \E m \in T : \A x \in T : x <= m}
<1>1. ASSUME NEW T \in SUBSET S, \A x \in T : T \ {x} \in Good
      PROVE  T \in Good
  <2>1. SUFFICES ASSUME T # {} PROVE \E m \in T : \A x \in T : x <= m
    OBVIOUS
  <2>2. PICK y \in T : TRUE
    BY <2>1
  <2>3. CASE T \ {y} = {}
    BY <2>2, <2>3
  <2>4. CASE T \ {y} # {}
    <3>1. PICK m \in T \ {y} : \A x \in T \ {y} : x <= m
      BY <1>1, <2>4
    <3>2. CASE y <= m
      BY <3>1, <3>2
    <3>3. CASE ~(y <= m)
      <4>1. \A x \in T : x <= y
        BY <3>1, <3>3
      <4> QED BY <4>1
    <3> QED BY <3>2, <3>3
  <2> QED BY <2>3, <2>4
<1>2. SUBSET S \subseteq Good
  <2> HIDE DEF Good
  <2> QED BY <1>1, SetInduction
<1>3. \E m \in S : \A x \in S : x <= m
  BY <1>2
<1> QED BY <1>3 DEF Max

\* A finite set of n numbers has a k-th one for every k below n.
LEMMA NthSeatIs ==
  ASSUME NEW S \in SUBSET Nat, IsFiniteSet(S), NEW k \in Nat, k < Cardinality(S)
  PROVE  /\ NthSeat(S, k) \in S
         /\ Cardinality({j \in S : j < NthSeat(S, k)}) = k
<1> DEFINE Below(T, i) == {j \in T : j < i}
           Good == {T \in SUBSET S : k < Cardinality(T) =>
                      \E i \in T : Cardinality(Below(T, i)) = k}
<1>1. ASSUME NEW T \in SUBSET S, \A x \in T : T \ {x} \in Good
      PROVE  T \in Good
  <2>1. SUFFICES ASSUME k < Cardinality(T)
                 PROVE  \E i \in T : Cardinality(Below(T, i)) = k
    OBVIOUS
  <2>2. IsFiniteSet(T)
    BY FS_Subset
  <2>3. T # {}
    BY <2>1, FS_EmptySet
  <2> DEFINE m == Max(T)
  <2>4. m \in T /\ \A x \in T : x <= m
    BY <2>2, <2>3, MaxIs
  <2> HIDE DEF m
  <2>5. Cardinality(T \ {m}) = Cardinality(T) - 1 /\ Cardinality(T) \in Nat
    BY <2>2, <2>4, FS_RemoveElement, FS_CardinalityType
  <2>6. CASE k = Cardinality(T) - 1
    <3>1. \A j \in T : j < m <=> j # m
      BY <2>4
    <3>2. Below(T, m) = T \ {m}
      BY <3>1
    <3> QED BY <2>4, <2>5, <2>6, <3>2
  <2>7. CASE k < Cardinality(T) - 1
    <3>1. PICK i \in T \ {m} : Cardinality(Below(T \ {m}, i)) = k
      BY <1>1, <2>4, <2>5, <2>7
    <3>2. Below(T, i) = Below(T \ {m}, i)
      BY <2>4, <3>1
    <3> QED BY <3>1, <3>2
  <2> QED BY <2>1, <2>5, <2>6, <2>7
<1>2. SUBSET S \subseteq Good
  <2> HIDE DEF Good
  <2> QED BY <1>1, SetInduction
<1>3. \E i \in S : Cardinality(Below(S, i)) = k
  BY <1>2
<1> QED BY <1>3 DEF NthSeat

-----------------------------------------------------------------------------
\* The seats of a game of n.
LEMMA SeatsOf ==
  ASSUME NEW N, NEW n \in Nat, NEW g \in Games(n, N)
  PROVE  /\ Seats(g) = 1 .. n
         /\ Len(g.seats) = n
         /\ IsFiniteSet(Seats(g))
         /\ \A i \in 1 .. n : g.seats[i] \in PlayerRecords(N)
<1>1. Seats(g) = 1 .. n
  BY DEF Seats, Games
<1>2. Len(g.seats) = n
  BY DEF Games
<1>3. IsFiniteSet(1 .. n)
  BY FS_Interval
<1>4. \A i \in 1 .. n : g.seats[i] \in PlayerRecords(N)
  BY DEF Games
<1> QED BY <1>1, <1>2, <1>3, <1>4

\* The seats that take part are seats, finitely many.
LEMMA PartsOfSeats ==
  ASSUME NEW N, NEW n \in Nat, NEW g \in Games(n, N)
  PROVE  /\ ActionableSeats(g) \subseteq ActiveSeats(g)
         /\ ActiveSeats(g) \subseteq 1 .. n
         /\ DealtInSeats(g) \subseteq 1 .. n
         /\ IsFiniteSet(ActionableSeats(g)) /\ Cardinality(ActionableSeats(g)) \in Nat
         /\ IsFiniteSet(ActiveSeats(g)) /\ Cardinality(ActiveSeats(g)) \in Nat
         /\ IsFiniteSet(DealtInSeats(g)) /\ Cardinality(DealtInSeats(g)) \in Nat
<1>1. /\ ActionableSeats(g) \subseteq ActiveSeats(g)
      /\ ActiveSeats(g) \subseteq 1 .. n
      /\ DealtInSeats(g) \subseteq 1 .. n
  BY SeatsOf DEF ActionableSeats, ActiveSeats, DealtInSeats
<1>2. IsFiniteSet(1 .. n)
  BY FS_Interval
<1> QED BY <1>1, <1>2, FS_Subset, FS_CardinalityType

\* Rewriting the seats one by one makes a sequence of as many.
LEMMA SeatsRewritten ==
  ASSUME NEW N, NEW n \in Nat, NEW f \in [1 .. n -> PlayerRecords(N)]
  PROVE  SubSeq(f, 1, n) = f
OBVIOUS

\* While a seat may act, the turn finds one.
LEMMA FindNextIs ==
  ASSUME NEW N, NEW n \in Nat, NEW g \in Games(n, N), NEW from \in Nat
  PROVE  /\ FindNextActionablePlayer(g, from) \in Nat
         /\ ActionableSeats(g) # {} =>
              (FindNextActionablePlayer(g, from) % n) + 1 \in ActionableSeats(g)
<1> DEFINE ahead == {k \in 0 .. n - 1 : ((from + k) % n) + 1 \in ActionableSeats(g)}
           next == FindNextActionablePlayer(g, from)
<1>1. next = IF ahead = {} THEN from ELSE (from + Min(ahead)) % n
  BY SeatsOf DEF FindNextActionablePlayer
<1>2. ASSUME ahead # {}
      PROVE  /\ n > 0
             /\ Min(ahead) \in ahead
             /\ next \in 0 .. n - 1
             /\ next + 1 \in ActionableSeats(g)
  <2>1. ahead \in SUBSET Nat
    OBVIOUS
  <2>2. Min(ahead) \in ahead
    <3> HIDE DEF ahead
    <3> QED BY <1>2, <2>1, MinIs
  <2>3. n > 0
    BY <1>2
  <2>4. next = (from + Min(ahead)) % n
    BY <1>1, <1>2
  <2>5. from + Min(ahead) \in Nat
    BY <2>2
  <2>6. (from + Min(ahead)) % n \in 0 .. n - 1
    BY <2>3, <2>5, Division
  <2>7. ((from + Min(ahead)) % n) + 1 \in ActionableSeats(g)
    BY <2>2
  <2> HIDE DEF ahead, next
  <2> QED BY <2>2, <2>3, <2>4, <2>6, <2>7
<1>3. next \in Nat
  <2> HIDE DEF ahead, next
  <2> QED BY <1>1, <1>2
<1>4. ASSUME ActionableSeats(g) # {}
      PROVE  (next % n) + 1 \in ActionableSeats(g)
  <2>1. PICK i \in ActionableSeats(g) : TRUE
    BY <1>4
  <2>2. i \in 1 .. n
    BY PartsOfSeats
  <2>3. i - 1 \in 0 .. n - 1 /\ n > 0
    BY <2>2
  <2>4. PICK k \in 0 .. n - 1 : (from + k) % n = i - 1
    BY <2>3, ModReaches
  <2>5. ahead # {}
    <3>1. ((from + k) % n) + 1 = i
      BY <2>2, <2>4
    <3>2. k \in ahead
      BY <3>1
    <3> QED BY <3>2
  <2> HIDE DEF ahead, next
  <2>6. next = 0 * n + next
    BY <1>3
  <2>7. next % n = next
    BY <1>2, <1>3, <2>5, <2>6, ModUnique
  <2> QED BY <1>2, <2>5, <2>7
<1> QED BY <1>3, <1>4

-----------------------------------------------------------------------------
\* The same player is in the seat, and away or not as he was.
SamePlayers(g, h) ==
  \A i \in Seats(g) : /\ h.seats[i].name = g.seats[i].name
                      /\ h.seats[i].sittingOut = g.seats[i].sittingOut

\* The same hand of a player, heard or not.
SameHand(p, q) ==
  /\ q.folded = p.folded /\ q.allIn = p.allIn
  /\ q.chips = p.chips /\ q.totalBet = p.totalBet /\ q.roundBet = p.roundBet

\* Two games with the same players, stacks and bets of the hand, and pot.
SameMoney(g, h) ==
  /\ h.pot = g.pot
  /\ h.started = g.started /\ h.intermission = g.intermission /\ h.payouts = g.payouts
  /\ SamePlayers(g, h)
  /\ \A i \in Seats(g) : /\ h.seats[i].chips = g.seats[i].chips
                         /\ h.seats[i].totalBet = g.seats[i].totalBet
                         /\ h.seats[i].folded = g.seats[i].folded

\* What a player bet in this round is part of what he bet in this hand.
RoundWithinHand(g) == \A i \in Seats(g) : g.seats[i].roundBet <= g.seats[i].totalBet

\* The turn is on someone who may act, in a hand that is not decided.
OnTurn(g) ==
  /\ TurnSeat(g) \in ActionableSeats(g)
  /\ Cardinality(ActiveSeats(g)) >= 2
  /\ ~BettingRoundComplete(g)

\* Opening a round moves no chips, and nobody has acted in it.
LEMMA OpenRoundIs ==
  ASSUME NEW N, NEW n \in Nat, NEW g \in Games(n, N), BigBlind \in Nat
  PROVE  /\ OpenRound(g) \in Games(n, N)
         /\ SameMoney(g, OpenRound(g))
         /\ RoundWithinHand(g) => RoundWithinHand(OpenRound(g))
         /\ OpenRound(g).phase = g.phase
         /\ ActiveSeats(OpenRound(g)) = ActiveSeats(g)
         /\ ActionableSeats(OpenRound(g)) = ActionableSeats(g)
         /\ \A i \in 1 .. n : ~OpenRound(g).seats[i].hasActed
<1> DEFINE first(i) == [g.seats[i] EXCEPT !.hasActed = FALSE]
           later(i) == [g.seats[i] EXCEPT !.hasActed = FALSE, !.roundBet = 0]
           p0 == [i \in 1 .. n |-> first(i)]
           p1 == [i \in 1 .. n |-> later(i)]
           seats0 == SeatsBy(g, LAMBDA i : [g.seats[i] EXCEPT !.hasActed = FALSE])
           seats1 == SeatsBy(g, LAMBDA i : [g.seats[i] EXCEPT !.hasActed = FALSE,
                                                              !.roundBet = 0])
           r == OpenRound(g)
<1>0. /\ g.phase = 0 => r = [g EXCEPT !.seats = seats0]
      /\ g.phase # 0 => r = [g EXCEPT !.currentBet = 0, !.lastRaise = BigBlind,
                                      !.seats = seats1]
  BY Zenon DEF OpenRound
<1> HIDE DEF r
<1>12. ASSUME NEW i \in 1 .. n
      PROVE  first(i) \in PlayerRecords(N) /\ later(i) \in PlayerRecords(N)
  <2>1. g.seats[i] \in PlayerRecords(N)
    BY SeatsOf
  <2> QED BY <2>1 DEF PlayerRecords
<1>1. p0 \in [1 .. n -> PlayerRecords(N)]
  <2> HIDE DEF first
  <2> QED BY <1>12
<1>2. p1 \in [1 .. n -> PlayerRecords(N)]
  <2> HIDE DEF later
  <2> QED BY <1>12
<1>3. g.phase = 0 => r = [g EXCEPT !.seats = p0]
  <2>1. seats0 = SubSeq(p0, 1, n)
    BY Zenon, SeatsOf DEF SeatsBy
  <2> HIDE DEF seats0, p0
  <2> QED BY <1>0, <1>1, <2>1, SeatsRewritten
<1>4. g.phase # 0 => r = [g EXCEPT !.currentBet = 0, !.lastRaise = BigBlind, !.seats = p1]
  <2>1. seats1 = SubSeq(p1, 1, n)
    BY Zenon, SeatsOf DEF SeatsBy
  <2> HIDE DEF seats1, p1
  <2> QED BY <1>0, <1>2, <2>1, SeatsRewritten
<1>5. PICK s \in [1 .. n -> PlayerRecords(N)] :
        /\ r \in Games(n, N)
        /\ r.seats = s /\ r.pot = g.pot /\ r.started = g.started /\ r.phase = g.phase
        /\ r.intermission = g.intermission /\ r.payouts = g.payouts
        /\ s = p0 \/ s = p1
  <2> HIDE DEF p0, p1
  <2>1. PICK s0 \in [1 .. n -> PlayerRecords(N)] : s0 = p0
    BY <1>1
  <2>2. PICK s1 \in [1 .. n -> PlayerRecords(N)] : s1 = p1
    BY <1>2
  <2>3. CASE g.phase = 0
    <3>1. r = [g EXCEPT !.seats = s0]
      BY <1>3, <2>1, <2>3
    <3>2. r \in Games(n, N)
      BY <3>1 DEF Games
    <3>3. /\ r.seats = s0 /\ r.pot = g.pot /\ r.started = g.started /\ r.phase = g.phase
          /\ r.intermission = g.intermission /\ r.payouts = g.payouts
      BY <3>1 DEF Games
    <3> QED BY <2>1, <3>2, <3>3
  <2>4. CASE g.phase # 0
    <3>1. r = [g EXCEPT !.currentBet = 0, !.lastRaise = BigBlind, !.seats = s1]
      BY <1>4, <2>2, <2>4
    <3>2. r \in Games(n, N)
      BY <3>1 DEF Games
    <3>3. /\ r.seats = s1 /\ r.pot = g.pot /\ r.started = g.started /\ r.phase = g.phase
          /\ r.intermission = g.intermission /\ r.payouts = g.payouts
      BY <3>1 DEF Games
    <3> QED BY <2>2, <3>2, <3>3
  <2> QED BY <2>3, <2>4
<1>6. ASSUME NEW i \in 1 .. n
      PROVE  /\ s[i].chips = g.seats[i].chips
             /\ s[i].totalBet = g.seats[i].totalBet
             /\ s[i].roundBet = g.seats[i].roundBet \/ s[i].roundBet = 0
             /\ s[i].folded = g.seats[i].folded
             /\ s[i].allIn = g.seats[i].allIn
             /\ s[i].name = g.seats[i].name
             /\ s[i].sittingOut = g.seats[i].sittingOut
             /\ ~s[i].hasActed
  <2>1. g.seats[i] \in PlayerRecords(N)
    BY SeatsOf
  <2>2. \/ s[i] = [g.seats[i] EXCEPT !.hasActed = FALSE]
        \/ s[i] = [g.seats[i] EXCEPT !.hasActed = FALSE, !.roundBet = 0]
    BY <1>5
  <2> QED BY <2>1, <2>2 DEF PlayerRecords
<1>7. Seats(g) = 1 .. n /\ Seats(r) = 1 .. n
  BY <1>5, SeatsOf
<1> HIDE DEF p0, p1
<1>8. SameMoney(g, r)
  BY <1>5, <1>6, <1>7 DEF SameMoney, SamePlayers
<1>9. RoundWithinHand(g) => RoundWithinHand(r)
  <2>1. \A i \in 1 .. n : g.seats[i].totalBet \in Nat
    BY SeatsOf DEF PlayerRecords
  <2> QED BY <1>5, <1>6, <1>7, <2>1 DEF RoundWithinHand
<1>10. ActiveSeats(r) = ActiveSeats(g)
  BY <1>5, <1>6, <1>7 DEF ActiveSeats
<1>11. ActionableSeats(r) = ActionableSeats(g)
  BY <1>5, <1>6, <1>10, PartsOfSeats DEF ActionableSeats
<1> QED BY <1>5, <1>6, <1>8, <1>9, <1>10, <1>11 DEF r

\* A change of the phase alone.
LEMMA SetPhase ==
  ASSUME NEW N, NEW n \in Nat, NEW g \in Games(n, N), NEW x \in 0 .. Showdown
  PROVE  /\ [g EXCEPT !.phase = x] \in Games(n, N)
         /\ [g EXCEPT !.phase = x].phase = x
         /\ [g EXCEPT !.phase = x].seats = g.seats
         /\ [g EXCEPT !.phase = x].pot = g.pot
         /\ [g EXCEPT !.phase = x].started = g.started
         /\ [g EXCEPT !.phase = x].intermission = g.intermission
         /\ [g EXCEPT !.phase = x].payouts = g.payouts
BY DEF Games

\* A change of the turn alone.
LEMMA SetTurn ==
  ASSUME NEW N, NEW n \in Nat, NEW g \in Games(n, N), NEW x \in Nat
  PROVE  /\ [g EXCEPT !.turn = x] \in Games(n, N)
         /\ [g EXCEPT !.turn = x].turn = x
         /\ [g EXCEPT !.turn = x].phase = g.phase
         /\ [g EXCEPT !.turn = x].seats = g.seats
         /\ [g EXCEPT !.turn = x].pot = g.pot
         /\ [g EXCEPT !.turn = x].started = g.started
         /\ [g EXCEPT !.turn = x].intermission = g.intermission
         /\ [g EXCEPT !.turn = x].payouts = g.payouts
         /\ [g EXCEPT !.turn = x].currentBet = g.currentBet
BY DEF Games

\* Games that differ in neither seats nor pot.
LEMMA SameSeats ==
  ASSUME NEW N, NEW n \in Nat, NEW g \in Games(n, N), NEW h \in Games(n, N),
         h.seats = g.seats
  PROVE  /\ h.pot = g.pot /\ h.started = g.started /\ h.intermission = g.intermission /\ h.payouts = g.payouts
              => SameMoney(g, h)
         /\ RoundWithinHand(g) => RoundWithinHand(h)
         /\ ActiveSeats(h) = ActiveSeats(g)
         /\ ActionableSeats(h) = ActionableSeats(g)
         /\ h.currentBet = g.currentBet => BettingRoundComplete(h) = BettingRoundComplete(g)
<1>1. Seats(h) = Seats(g)
  BY DEF Seats
<1>2. ActiveSeats(h) = ActiveSeats(g)
  BY <1>1 DEF ActiveSeats
<1>3. ActionableSeats(h) = ActionableSeats(g)
  BY <1>2 DEF ActionableSeats
<1>4. AllInSettled(h) = AllInSettled(g)
  BY <1>2, <1>3 DEF AllInSettled
<1>5. h.currentBet = g.currentBet => BettingRoundComplete(h) = BettingRoundComplete(g)
  BY <1>2, <1>3, <1>4 DEF BettingRoundComplete
<1>6. RoundWithinHand(g) => RoundWithinHand(h)
  BY <1>1 DEF RoundWithinHand
<1>7. h.pot = g.pot /\ h.started = g.started /\ h.intermission = g.intermission /\ h.payouts = g.payouts
        => SameMoney(g, h)
  BY DEF SameMoney, SamePlayers
<1> QED BY <1>2, <1>3, <1>5, <1>6, <1>7

\* Two steps that move no chips.
LEMMA SameMoneyTransitive ==
  ASSUME NEW N, NEW n \in Nat, NEW f \in Games(n, N), NEW g \in Games(n, N), NEW h,
         SameMoney(f, g), SameMoney(g, h)
  PROVE  SameMoney(f, h)
<1>1. Seats(f) = Seats(g)
  BY SeatsOf
<1> QED BY <1>1 DEF SameMoney, SamePlayers

\* What a step of the engine that moves no chips leaves: the same money, and,
\* where the hand is not at its end, someone on turn.
Proper(g, h, n, N) ==
  /\ h \in Games(n, N)
  /\ SameMoney(g, h)
  /\ RoundWithinHand(g) => RoundWithinHand(h)
  /\ h.started /\ ~ShowdownDue(h) => OnTurn(h)

\* The first to act is found from an index that is never negative.
LEMMA FirstToActIs ==
  ASSUME NEW N, NEW n \in Nat, n > 0, NEW g \in Games(n, N)
  PROVE  FirstToAct(g) \in Nat
<1> DEFINE D == {i \in Seats(g) : g.seats[i].dealer}
           B == {i \in Seats(g) : g.seats[i].bigBlind}
<1>1. D \in SUBSET Nat /\ B \in SUBSET Nat /\ 0 \notin D /\ 0 \notin B /\ Len(g.seats) = n
  BY SeatsOf
<1> HIDE DEF D, B
<1>2. IndexOf(D) \in Nat /\ IndexOf(B) \in Nat
  <2>1. D # {} => Min(D) \in Nat \ {0}
    BY <1>1, MinIs
  <2>2. B # {} => Min(B) \in Nat \ {0}
    BY <1>1, MinIs
  <2> QED BY <2>1, <2>2 DEF IndexOf
<1>3. (IndexOf(D) + 1) % n \in Nat /\ (IndexOf(B) + 1) % n \in Nat
  BY <1>2, Division
<1>4. FirstToAct(g) \in {IndexOf(D), (IndexOf(B) + 1) % n, (IndexOf(D) + 1) % n}
  BY <1>1 DEF FirstToAct, D, B
<1> QED BY <1>2, <1>3, <1>4

\* startBettingRound moves no chips; unless the hand comes to its showdown
\* somebody is on turn.  He is there because nobodyLeftToBet has failed, and
\* the round is open because nobody has acted in it.
LEMMA StartBettingRoundIs ==
  ASSUME NEW N, NEW n \in Nat, n > 0, NEW g \in Games(n, N), BigBlind \in Nat
  PROVE  Proper(g, StartBettingRound(g), n, N)
<1> DEFINE r == OpenRound(g)
           nobodyLeftToBet == Cardinality(ActionableSeats(r)) <= 1 /\ AllInSettled(r)
<1>1. /\ r \in Games(n, N)
      /\ SameMoney(g, r)
      /\ RoundWithinHand(g) => RoundWithinHand(r)
      /\ \A i \in 1 .. n : ~r.seats[i].hasActed
  BY OpenRoundIs
<1> HIDE DEF r
<1>2. CASE ShowdownDue(r)
  BY <1>1, <1>2 DEF StartBettingRound, Proper, r
<1>3. CASE ~ShowdownDue(r) /\ nobodyLeftToBet
  <2> DEFINE last == [r EXCEPT !.phase = Showdown]
             h == OpenRound(last)
  <2>1. StartBettingRound(g) = h
    BY <1>3 DEF StartBettingRound, r
  <2>2. Showdown \in 0 .. Showdown
    BY DEF Showdown
  <2>3. /\ last \in Games(n, N) /\ last.seats = r.seats /\ last.phase = Showdown
        /\ last.pot = r.pot /\ last.started = r.started
        /\ last.intermission = r.intermission /\ last.payouts = r.payouts
    BY <1>1, <2>2, SetPhase
  <2> HIDE DEF last
  <2>4. SameMoney(r, last) /\ (RoundWithinHand(r) => RoundWithinHand(last))
    BY <1>1, <2>3, SameSeats
  <2>5. /\ h \in Games(n, N) /\ SameMoney(last, h) /\ h.phase = Showdown
        /\ RoundWithinHand(last) => RoundWithinHand(h)
    BY <2>3, OpenRoundIs
  <2> HIDE DEF h
  <2>6. SameMoney(g, h)
    BY <1>1, <2>3, <2>4, <2>5, SameMoneyTransitive
  <2>7. h.started => ShowdownDue(h)
    BY <2>5 DEF ShowdownDue
  <2> QED BY <1>1, <2>1, <2>4, <2>5, <2>6, <2>7 DEF Proper
<1>4. CASE ~ShowdownDue(r) /\ ~nobodyLeftToBet
  <2> DEFINE t == FindNextActionablePlayer(r, FirstToAct(r))
             h == [r EXCEPT !.turn = t]
  <2>1. StartBettingRound(g) = h
    BY <1>4 DEF StartBettingRound, r
  <2>2. t \in Nat /\ (ActionableSeats(r) # {} => (t % n) + 1 \in ActionableSeats(r))
    BY <1>1, FirstToActIs, FindNextIs
  <2> HIDE DEF t
  <2>3. /\ h \in Games(n, N) /\ h.turn = t /\ h.seats = r.seats /\ h.pot = r.pot
        /\ h.started = r.started /\ h.phase = r.phase /\ h.currentBet = r.currentBet
        /\ h.intermission = r.intermission /\ h.payouts = r.payouts
    BY <1>1, <2>2, SetTurn
  <2> HIDE DEF h
  <2>4. /\ SameMoney(r, h) /\ (RoundWithinHand(r) => RoundWithinHand(h))
        /\ ActiveSeats(h) = ActiveSeats(r) /\ ActionableSeats(h) = ActionableSeats(r)
        /\ BettingRoundComplete(h) = BettingRoundComplete(r)
    BY <1>1, <2>3, SameSeats
  <2>5. SameMoney(g, h)
    BY <1>1, <2>3, <2>4, SameMoneyTransitive
  <2>6. ASSUME h.started
        PROVE  OnTurn(h)
    <3>1. ActionableSeats(r) # {}
      <4>1. ASSUME ActionableSeats(r) = {}
            PROVE  FALSE
        <5>1. Cardinality(ActionableSeats(r)) = 0
          BY <4>1, FS_EmptySet
        <5>2. AllInSettled(r)
          BY <4>1 DEF AllInSettled
        <5> QED BY <1>4, <5>1, <5>2
      <4> QED BY <4>1
    <3>2. TurnSeat(h) \in ActionableSeats(h)
      <4>1. Len(h.seats) = n
        BY <2>3, SeatsOf
      <4> QED BY <2>2, <2>3, <2>4, <3>1, <4>1 DEF TurnSeat
    <3>3. ~(Cardinality(ActiveSeats(r)) <= 1) /\ Cardinality(ActiveSeats(r)) \in Nat
      BY <1>1, <1>4, <2>3, <2>6, PartsOfSeats DEF ShowdownDue
    <3>4. ~BettingRoundComplete(r)
      <4>1. PICK i \in ActionableSeats(r) : i \in 1 .. n
        BY <1>1, <3>1, PartsOfSeats
      <4> QED BY <1>1, <3>3, <4>1 DEF BettingRoundComplete
    <3> QED BY <2>4, <3>2, <3>3, <3>4 DEF OnTurn
  <2> QED BY <1>1, <2>1, <2>3, <2>4, <2>5, <2>6 DEF Proper
<1> QED BY <1>2, <1>3, <1>4

\* The same of advancePhase.
LEMMA AdvancePhaseIs ==
  ASSUME NEW N, NEW n \in Nat, n > 0, NEW g \in Games(n, N), BigBlind \in Nat
  PROVE  Proper(g, AdvancePhase(g), n, N)
<1>1. SameMoney(g, g)
  BY DEF SameMoney, SamePlayers
<1>2. g.phase \in 0 .. Showdown
  BY DEF Games
<1>3. CASE ShowdownDue(g)
  BY <1>1, <1>3 DEF AdvancePhase, Proper
<1>4. CASE ~ShowdownDue(g) /\ g.phase + 1 >= Showdown
  <2> DEFINE h == [g EXCEPT !.phase = Showdown]
  <2>1. AdvancePhase(g) = h
    BY <1>4 DEF AdvancePhase
  <2>2. Showdown \in 0 .. Showdown
    BY DEF Showdown
  <2>3. /\ h \in Games(n, N) /\ h.seats = g.seats /\ h.phase = Showdown
        /\ h.pot = g.pot /\ h.started = g.started /\ h.intermission = g.intermission /\ h.payouts = g.payouts
    BY <2>2, SetPhase
  <2> HIDE DEF h
  <2>4. SameMoney(g, h) /\ (RoundWithinHand(g) => RoundWithinHand(h))
    BY <2>3, SameSeats
  <2> QED BY <2>1, <2>3, <2>4 DEF Proper, ShowdownDue
<1>5. CASE ~ShowdownDue(g) /\ ~(g.phase + 1 >= Showdown)
  <2> DEFINE next == [g EXCEPT !.phase = g.phase + 1]
  <2>1. AdvancePhase(g) = StartBettingRound(next)
    BY <1>5 DEF AdvancePhase
  <2>2. g.phase + 1 \in 0 .. Showdown
    BY <1>2, <1>5 DEF Showdown
  <2>3. /\ next \in Games(n, N) /\ next.seats = g.seats
        /\ next.pot = g.pot /\ next.started = g.started
        /\ next.intermission = g.intermission /\ next.payouts = g.payouts
    BY <2>2, SetPhase
  <2> HIDE DEF next
  <2>4. SameMoney(g, next) /\ (RoundWithinHand(g) => RoundWithinHand(next))
    BY <2>3, SameSeats
  <2>5. Proper(next, StartBettingRound(next), n, N)
    BY <2>3, StartBettingRoundIs
  <2>6. SameMoney(g, StartBettingRound(next))
    BY <2>3, <2>4, <2>5, SameMoneyTransitive DEF Proper
  <2> QED BY <2>1, <2>4, <2>5, <2>6 DEF Proper
<1> QED BY <1>3, <1>4, <1>5

\* The same of what follows a decision: a round that is not complete has
\* somebody who may act, and the turn finds him.
LEMMA ProceedIs ==
  ASSUME NEW N, NEW n \in Nat, n > 0, NEW g \in Games(n, N), BigBlind \in Nat
  PROVE  Proper(g, Proceed(g), n, N)
<1>1. CASE BettingRoundComplete(g)
  BY <1>1, AdvancePhaseIs DEF Proceed
<1>2. CASE ~BettingRoundComplete(g)
  <2> DEFINE t == FindNextActionablePlayer(g, g.turn + 1)
             h == [g EXCEPT !.turn = t]
  <2>1. Proceed(g) = h
    BY <1>2 DEF Proceed
  <2>2. g.turn + 1 \in Nat
    BY DEF Games
  <2>3. t \in Nat /\ (ActionableSeats(g) # {} => (t % n) + 1 \in ActionableSeats(g))
    BY <2>2, FindNextIs
  <2> HIDE DEF t
  <2>4. /\ h \in Games(n, N) /\ h.turn = t /\ h.seats = g.seats /\ h.pot = g.pot
        /\ h.started = g.started /\ h.phase = g.phase /\ h.currentBet = g.currentBet
        /\ h.intermission = g.intermission /\ h.payouts = g.payouts
    BY <2>3, SetTurn
  <2> HIDE DEF h
  <2>5. /\ SameMoney(g, h) /\ (RoundWithinHand(g) => RoundWithinHand(h))
        /\ ActiveSeats(h) = ActiveSeats(g) /\ ActionableSeats(h) = ActionableSeats(g)
        /\ BettingRoundComplete(h) = BettingRoundComplete(g)
    BY <2>4, SameSeats
  <2>6. OnTurn(h)
    <3>1. ~(Cardinality(ActiveSeats(g)) <= 1) /\ Cardinality(ActiveSeats(g)) \in Nat
      BY <1>2, PartsOfSeats DEF BettingRoundComplete
    <3>2. ActionableSeats(g) # {}
      <4>1. ASSUME ActionableSeats(g) = {}
            PROVE  FALSE
        <5>1. Cardinality(ActionableSeats(g)) = 0
          BY <4>1, FS_EmptySet
        <5> QED BY <1>2, <4>1, <5>1 DEF BettingRoundComplete, AllInSettled
      <4> QED BY <4>1
    <3>3. TurnSeat(h) \in ActionableSeats(h)
      <4>1. Len(h.seats) = n
        BY <2>4, SeatsOf
      <4> QED BY <2>3, <2>4, <2>5, <3>2, <4>1 DEF TurnSeat
    <3> QED BY <1>2, <2>5, <3>1, <3>3 DEF OnTurn
  <2> QED BY <2>1, <2>4, <2>5, <2>6 DEF Proper
<1> QED BY <1>1, <1>2

-----------------------------------------------------------------------------
\* placeBet moves what is staked from the stack to the bets of the round and
\* of the hand.  The amount may be negative, down to the bet of the round.
LEMMA PlaceBetIs ==
  ASSUME NEW N, NEW p \in PlayerRecords(N), NEW amount \in Int,
         p.roundBet + amount >= 0, p.roundBet <= p.totalBet
  PROVE  /\ PlaceBet(p, amount) \in PlayerRecords(N)
         /\ Staked(p, amount) \in Int
         /\ Staked(p, amount) <= amount /\ Staked(p, amount) <= p.chips
         /\ Staked(p, amount) = amount \/ Staked(p, amount) = p.chips
         /\ PlaceBet(p, amount).chips = p.chips - Staked(p, amount)
         /\ PlaceBet(p, amount).totalBet = p.totalBet + Staked(p, amount)
         /\ PlaceBet(p, amount).roundBet = p.roundBet + Staked(p, amount)
         /\ PlaceBet(p, amount).name = p.name
         /\ PlaceBet(p, amount).sittingOut = p.sittingOut
         /\ PlaceBet(p, amount).folded = p.folded
         /\ PlaceBet(p, amount).allIn <=> p.allIn \/ Staked(p, amount) = p.chips
<1> DEFINE s == Staked(p, amount)
<1>1. p.chips \in Nat /\ p.roundBet \in Nat /\ p.totalBet \in Nat
  BY DEF PlayerRecords
<1>2. s \in Int /\ s <= p.chips /\ s <= amount /\ (s = amount \/ s = p.chips)
  BY <1>1 DEF Staked, LesserOf
<1>3. PlaceBet(p, amount) = [p EXCEPT !.chips = p.chips - s, !.roundBet = p.roundBet + s,
                        !.totalBet = p.totalBet + s, !.allIn = p.allIn \/ s = p.chips]
  BY DEF PlaceBet
<1> HIDE DEF s
<1>4. p.chips - s \in Nat /\ p.roundBet + s \in Nat /\ p.totalBet + s \in Nat
  BY <1>1, <1>2
<1>5. PICK all \in BOOLEAN : all <=> p.allIn \/ s = p.chips
  OBVIOUS
<1>8. PlaceBet(p, amount) = [p EXCEPT !.chips = p.chips - s, !.roundBet = p.roundBet + s,
                        !.totalBet = p.totalBet + s, !.allIn = all]
  BY <1>3, <1>5
<1>6. PlaceBet(p, amount) \in PlayerRecords(N) /\ PlaceBet(p, amount).allIn = all
  BY <1>4, <1>8 DEF PlayerRecords
<1>7. /\ PlaceBet(p, amount).chips = p.chips - s
      /\ PlaceBet(p, amount).totalBet = p.totalBet + s
      /\ PlaceBet(p, amount).roundBet = p.roundBet + s
      /\ PlaceBet(p, amount).name = p.name
      /\ PlaceBet(p, amount).sittingOut = p.sittingOut
      /\ PlaceBet(p, amount).folded = p.folded
  BY <1>3 DEF PlayerRecords
<1> QED BY <1>2, <1>5, <1>6, <1>7 DEF s

\* What the players have bet in this hand.
Bets(seats) == [i \in DOMAIN seats |-> seats[i].totalBet]

BetInAll(g) == SumFunctionOnSet(Bets(g.seats), Seats(g))

\* Game.Pot is what the players have bet; or covers it, where a player who has
\* left the table has left his bets in the pot.
PotIs(g) == g.pot = BetInAll(g)
PotCovers(g) == g.pot >= BetInAll(g)

\* What comes into the pot is what is bet.
PotKept(g, h) == h.pot - BetInAll(h) = g.pot - BetInAll(g)

\* The bets of a row of seats are a number of chips.
LEMMA SumOfBets ==
  ASSUME NEW N, NEW n \in Nat, NEW seats \in [1 .. n -> PlayerRecords(N)]
  PROVE  SumFunctionOnSet(Bets(seats), 1 .. n) \in Nat
<1>1. PICK f : f = Bets(seats)
  OBVIOUS
<1>2. ASSUME NEW i \in 1 .. n
      PROVE  f[i] \in Nat
  <2>1. seats[i].totalBet \in Nat
    BY DEF PlayerRecords
  <2> QED BY <1>1, <2>1 DEF Bets
<1>3. IsFiniteSet(1 .. n) /\ \A i \in 1 .. n : f[i] \in Nat
  BY <1>2, FS_Interval
<1> QED BY <1>1, <1>3, SumNat

\* The bets are a number of chips.
LEMMA BetInAllIs ==
  ASSUME NEW N, NEW n \in Nat, NEW g \in Games(n, N)
  PROVE  BetInAll(g) \in Nat
<1>1. Seats(g) = 1 .. n /\ g.seats \in [1 .. n -> PlayerRecords(N)]
  BY SeatsOf DEF Games
<1> QED BY <1>1, SumOfBets DEF BetInAll

\* A pot that holds the bets, or covers them, goes on doing so.
LEMMA PotStays ==
  ASSUME NEW N, NEW n \in Nat, NEW g \in Games(n, N), NEW h \in Games(n, N), PotKept(g, h)
  PROVE  (PotIs(g) => PotIs(h)) /\ (PotCovers(g) => PotCovers(h))
<1>1. PICK a \in Nat, b \in Nat, c \in Nat, d \in Nat :
        a = g.pot /\ b = BetInAll(g) /\ c = h.pot /\ d = BetInAll(h)
  <2>1. BetInAll(g) \in Nat
    BY BetInAllIs
  <2>2. BetInAll(h) \in Nat
    BY BetInAllIs
  <2>3. g.pot \in Nat /\ h.pot \in Nat
    BY DEF Games
  <2> QED BY <2>1, <2>2, <2>3
<1> QED BY <1>1 DEF PotKept, PotIs, PotCovers

LEMMA PotIsCovers ==
  ASSUME NEW N, NEW n \in Nat, NEW g \in Games(n, N), PotIs(g)
  PROVE  PotCovers(g)
BY BetInAllIs DEF PotIs, PotCovers

\* A player has what he had, in front of him or in the pot.
SameStake(g, h) ==
  \A i \in Seats(g) : h.seats[i].chips + h.seats[i].totalBet
                        = g.seats[i].chips + g.seats[i].totalBet

\* A bet of s, once it is in the pot.
LEMMA BetCounts ==
  ASSUME NEW N, NEW n \in Nat, NEW g \in Games(n, N), RoundWithinHand(g), PotCovers(g),
         NEW i \in 1 .. n, NEW s \in Int,
         NEW seats \in [1 .. n -> PlayerRecords(N)],
         seats[i].chips = g.seats[i].chips - s,
         seats[i].totalBet = g.seats[i].totalBet + s,
         seats[i].roundBet = g.seats[i].roundBet + s,
         \A j \in 1 .. n : j # i => /\ seats[j].chips = g.seats[j].chips
                                    /\ seats[j].totalBet = g.seats[j].totalBet
                                    /\ seats[j].roundBet = g.seats[j].roundBet
  PROVE  /\ g.pot + s \in Nat
         /\ SumFunctionOnSet(Bets(seats), 1 .. n) = BetInAll(g) + s
         /\ \A j \in 1 .. n : /\ seats[j].roundBet <= seats[j].totalBet
                              /\ seats[j].chips + seats[j].totalBet
                                   = g.seats[j].chips + g.seats[j].totalBet
<1>1. Seats(g) = 1 .. n /\ DOMAIN g.seats = 1 .. n /\ IsFiniteSet(1 .. n)
  BY SeatsOf DEF Seats
<1>2. \A j \in 1 .. n : /\ g.seats[j].chips \in Nat /\ g.seats[j].totalBet \in Nat
                        /\ g.seats[j].roundBet \in Nat
  BY SeatsOf DEF PlayerRecords
<1>3. \A j \in 1 .. n : seats[j].totalBet \in Nat
  BY DEF PlayerRecords
<1>0. PICK old, new : old = Bets(g.seats) /\ new = Bets(seats)
  OBVIOUS
<1>4. \A j \in 1 .. n : old[j] = g.seats[j].totalBet /\ new[j] = seats[j].totalBet
  BY <1>0, <1>1 DEF Bets
<1>5. SumFunctionOnSet(new, 1 .. n) \in Nat
  BY <1>1, <1>3, <1>4, SumNat
<1>6. SumFunctionOnSet(new, 1 .. n) = SumFunctionOnSet(old, 1 .. n) - old[i] + new[i]
  <2>1. ASSUME NEW j \in 1 .. n
        PROVE  old[j] \in Int /\ new[j] \in Int
    <3>1. old[j] \in Nat /\ new[j] \in Nat
      BY <1>2, <1>3, <1>4
    <3> QED BY <3>1
  <2>2. \A j \in (1 .. n) \ {i} : old[j] = new[j]
    BY <1>4
  <2>3. PICK S : S = 1 .. n
    OBVIOUS
  <2>4. \A j \in S : old[j] \in Int /\ new[j] \in Int
    BY <2>1, <2>3
  <2>5. IsFiniteSet(S)
    BY <1>1, <2>3
  <2>6. PICK k \in S : k = i
    BY <2>3
  <2>7. \A j \in S \ {k} : old[j] = new[j]
    BY <2>2, <2>3, <2>6
  <2>8. SumFunctionOnSet(new, S) = SumFunctionOnSet(old, S) - old[k] + new[k]
    BY <2>4, <2>5, <2>7, SumChange
  <2> QED BY <2>3, <2>6, <2>8
<1>7. /\ BetInAll(g) = SumFunctionOnSet(old, 1 .. n) /\ BetInAll(g) \in Nat
      /\ g.pot >= BetInAll(g) /\ g.pot \in Nat
  BY <1>0, <1>1, BetInAllIs DEF PotCovers, BetInAll, Games
<1>8. /\ SumFunctionOnSet(new, 1 .. n) = BetInAll(g) + s
      /\ g.pot + s \in Nat
  <2>1. SumFunctionOnSet(new, 1 .. n) = BetInAll(g) + s
    BY <1>2, <1>4, <1>6, <1>7
  <2> QED BY <1>5, <1>7, <2>1
<1>9. \A j \in 1 .. n : g.seats[j].roundBet <= g.seats[j].totalBet
  BY <1>1 DEF RoundWithinHand
<1>10. ASSUME NEW j \in 1 .. n
       PROVE  /\ seats[j].roundBet <= seats[j].totalBet
              /\ seats[j].chips + seats[j].totalBet
                   = g.seats[j].chips + g.seats[j].totalBet
  <2>1. /\ g.seats[j].chips \in Nat /\ g.seats[j].totalBet \in Nat
        /\ g.seats[j].roundBet \in Nat /\ g.seats[j].roundBet <= g.seats[j].totalBet
    BY <1>2, <1>9
  <2>2. CASE j = i
    BY <2>1, <2>2
  <2>3. CASE j # i
    BY <2>1, <2>3
  <2> QED BY <2>2, <2>3
<1> QED BY <1>0, <1>8, <1>10

\* A step of the engine that keeps the books: everyone has what he had.
KeepsBooks(g, h, n, N) ==
  /\ h \in Games(n, N)
  /\ h.started = g.started /\ h.intermission = g.intermission /\ h.payouts = g.payouts
  /\ SamePlayers(g, h)
  /\ RoundWithinHand(h)
  /\ SameStake(g, h)

\* A call keeps the books, whatever amount was sent with it.
LEMMA CallIs ==
  ASSUME NEW N, NEW n \in Nat, NEW g \in Games(n, N), RoundWithinHand(g), PotCovers(g),
         NEW i \in 1 .. n, NEW amount \in Int
  PROVE  /\ KeepsBooks(g, Call(g, i, amount), n, N)
         /\ PotKept(g, Call(g, i, amount))
<1> DEFINE p == g.seats[i]
           bet == IF amount <= 0 THEN g.currentBet - p.roundBet ELSE amount
           s == Staked(p, bet)
           paid == [PlaceBet(p, bet) EXCEPT !.hasActed = TRUE]
           q == [g.seats EXCEPT ![i] = paid]
           h == Call(g, i, amount)
<1>1. p \in PlayerRecords(N) /\ p.roundBet \in Nat /\ g.currentBet \in Nat
  BY SeatsOf DEF Games, PlayerRecords
<1>2. Seats(g) = 1 .. n
  BY SeatsOf
<1>3. bet \in Int /\ p.roundBet + bet >= 0
  BY <1>1
<1>4. p.roundBet <= p.totalBet
  BY <1>2 DEF RoundWithinHand
<1> HIDE DEF p, bet
<1>5. /\ PlaceBet(p, bet) \in PlayerRecords(N)
      /\ s \in Int
      /\ PlaceBet(p, bet).chips = p.chips - s
      /\ PlaceBet(p, bet).totalBet = p.totalBet + s
      /\ PlaceBet(p, bet).roundBet = p.roundBet + s
      /\ PlaceBet(p, bet).name = p.name /\ PlaceBet(p, bet).sittingOut = p.sittingOut
  BY <1>1, <1>3, <1>4, PlaceBetIs
<1> HIDE DEF s
<1>6. /\ paid \in PlayerRecords(N)
      /\ paid.chips = p.chips - s
      /\ paid.totalBet = p.totalBet + s
      /\ paid.roundBet = p.roundBet + s
      /\ paid.name = p.name /\ paid.sittingOut = p.sittingOut
  BY <1>5 DEF PlayerRecords
<1>7. h = [g EXCEPT !.seats[i] = paid, !.pot = g.pot + s]
  BY DEF Call, p, bet, s
<1> HIDE DEF paid, h
<1>8. g.seats \in [1 .. n -> PlayerRecords(N)]
  BY DEF Games
<1>9. q \in [1 .. n -> PlayerRecords(N)] /\ q[i] = paid
      /\ \A j \in 1 .. n : j # i => q[j] = g.seats[j]
  BY <1>6, <1>8
<1>10. h = [g EXCEPT !.seats = q, !.pot = g.pot + s]
  BY <1>7 DEF Games
<1> HIDE DEF q
<1>11. /\ g.pot + s \in Nat
       /\ SumFunctionOnSet(Bets(q), 1 .. n) = BetInAll(g) + s
       /\ \A j \in 1 .. n : /\ q[j].roundBet <= q[j].totalBet
                            /\ q[j].chips + q[j].totalBet
                                 = g.seats[j].chips + g.seats[j].totalBet
  <2>1. PICK x \in Int : x = s
    BY <1>5
  <2>2. /\ q[i].chips = g.seats[i].chips - x
        /\ q[i].totalBet = g.seats[i].totalBet + x
        /\ q[i].roundBet = g.seats[i].roundBet + x
    BY <1>6, <1>9, <2>1 DEF p
  <2>3. \A j \in 1 .. n : j # i => /\ q[j].chips = g.seats[j].chips
                                   /\ q[j].totalBet = g.seats[j].totalBet
                                   /\ q[j].roundBet = g.seats[j].roundBet
    BY <1>9
  <2> HIDE DEF s, p
  <2>4. /\ g.pot + x \in Nat
        /\ SumFunctionOnSet(Bets(q), 1 .. n) = BetInAll(g) + x
        /\ \A j \in 1 .. n : /\ q[j].roundBet <= q[j].totalBet
                             /\ q[j].chips + q[j].totalBet
                                  = g.seats[j].chips + g.seats[j].totalBet
    BY <1>9, <2>2, <2>3, BetCounts
  <2> QED BY <2>1, <2>4
<1>12. PICK f \in [1 .. n -> PlayerRecords(N)], x \in Nat : f = q /\ x = g.pot + s
  BY <1>9, <1>11
<1>13. h = [g EXCEPT !.seats = f, !.pot = x]
  BY <1>10, <1>12
<1>14. h \in Games(n, N)
  BY <1>13 DEF Games
<1>15. /\ h.seats = q /\ h.pot = g.pot + s /\ h.started = g.started
       /\ h.intermission = g.intermission /\ h.payouts = g.payouts
  BY <1>12, <1>13 DEF Games
<1>16. Seats(h) = 1 .. n
  BY <1>14, SeatsOf
<1>17. RoundWithinHand(h) /\ SameStake(g, h)
  BY <1>2, <1>11, <1>15, <1>16 DEF RoundWithinHand, SameStake
<1>18. PotKept(g, h)
  <2>1. BetInAll(h) = BetInAll(g) + s
    BY <1>11, <1>15, <1>16 DEF BetInAll
  <2>2. g.pot \in Nat /\ BetInAll(g) \in Nat
    BY BetInAllIs DEF Games
  <2> QED BY <1>5, <1>15, <2>1, <2>2 DEF PotKept
<1>19. SamePlayers(g, h)
  BY <1>2, <1>6, <1>9, <1>15 DEF SamePlayers, p
<1> QED BY <1>14, <1>15, <1>17, <1>18, <1>19 DEF KeepsBooks, h

\* So does a raise or an all-in.
LEMMA CommitBetIs ==
  ASSUME NEW N, NEW n \in Nat, NEW g \in Games(n, N), RoundWithinHand(g), PotCovers(g),
         NEW i \in 1 .. n, NEW bet \in Int, g.seats[i].roundBet + bet >= 0
  PROVE  /\ KeepsBooks(g, CommitBet(g, i, bet), n, N)
         /\ PotKept(g, CommitBet(g, i, bet))
<1> DEFINE p == g.seats[i]
           s == Staked(p, bet)
           need == g.currentBet - p.roundBet
           raises == s > need
           paid == [PlaceBet(p, bet) EXCEPT !.hasActed = TRUE]
           again(j) == [g.seats[j] EXCEPT
                          !.hasActed = @ /\ ~(raises /\ j \in ActionableSeats(g))]
           q == [j \in 1 .. n |-> IF j = i THEN paid ELSE again(j)]
           h == CommitBet(g, i, bet)
<1>1. p \in PlayerRecords(N) /\ p.roundBet \in Nat /\ g.currentBet \in Nat /\ g.lastRaise \in Nat
  BY SeatsOf DEF Games, PlayerRecords
<1>2. Seats(g) = 1 .. n /\ Len(g.seats) = n
  BY SeatsOf
<1>3. p.roundBet <= p.totalBet
  BY <1>2 DEF RoundWithinHand
<1>4. /\ PlaceBet(p, bet) \in PlayerRecords(N)
      /\ s \in Int
      /\ PlaceBet(p, bet).chips = p.chips - s
      /\ PlaceBet(p, bet).totalBet = p.totalBet + s
      /\ PlaceBet(p, bet).roundBet = p.roundBet + s
      /\ PlaceBet(p, bet).name = p.name /\ PlaceBet(p, bet).sittingOut = p.sittingOut
  BY <1>1, <1>3, PlaceBetIs
<1>5. /\ paid \in PlayerRecords(N)
      /\ paid.chips = p.chips - s
      /\ paid.totalBet = p.totalBet + s
      /\ paid.roundBet = p.roundBet + s
      /\ paid.name = p.name /\ paid.sittingOut = p.sittingOut
  BY <1>4 DEF PlayerRecords
<1>6. ASSUME NEW j \in 1 .. n
      PROVE  /\ again(j) \in PlayerRecords(N)
             /\ again(j).chips = g.seats[j].chips
             /\ again(j).totalBet = g.seats[j].totalBet
             /\ again(j).roundBet = g.seats[j].roundBet
             /\ again(j).name = g.seats[j].name
             /\ again(j).sittingOut = g.seats[j].sittingOut
  <2>1. g.seats[j] \in PlayerRecords(N)
    BY SeatsOf
  <2>2. PICK b \in BOOLEAN :
          b = (g.seats[j].hasActed /\ ~(raises /\ j \in ActionableSeats(g)))
    OBVIOUS
  <2>3. again(j) = [g.seats[j] EXCEPT !.hasActed = b]
    BY <2>2
  <2> HIDE DEF again
  <2> QED BY <2>1, <2>3 DEF PlayerRecords
<1>7. q \in [1 .. n -> PlayerRecords(N)]
  <2> HIDE DEF paid, again
  <2> QED BY <1>5, <1>6
<1>8. h = [g EXCEPT !.seats = q,
                    !.currentBet = IF raises THEN paid.roundBet ELSE g.currentBet,
                    !.lastRaise = IF raises THEN s - need ELSE g.lastRaise,
                    !.pot = g.pot + s]
  <2> DEFINE seats == SeatsBy(g, LAMBDA j : IF j = i THEN paid ELSE again(j))
  <2>1. seats = q
    BY <1>2, <1>7, SeatsRewritten DEF SeatsBy
  <2>2. h = [g EXCEPT !.seats = seats,
                      !.currentBet = IF raises THEN paid.roundBet ELSE @,
                      !.lastRaise = IF raises THEN s - need ELSE @,
                      !.pot = @ + s]
    BY Zenon DEF CommitBet
  <2> HIDE DEF seats, q, h
  <2> QED BY <2>1, <2>2
<1>9. \A j \in 1 .. n : q[j] = IF j = i THEN paid ELSE again(j)
  OBVIOUS
<1> HIDE DEF s, q, h, again, paid
<1>10. /\ g.pot + s \in Nat
       /\ SumFunctionOnSet(Bets(q), 1 .. n) = BetInAll(g) + s
       /\ \A j \in 1 .. n : /\ q[j].roundBet <= q[j].totalBet
                            /\ q[j].chips + q[j].totalBet
                                 = g.seats[j].chips + g.seats[j].totalBet
  BY <1>4, <1>5, <1>6, <1>7, <1>9, BetCounts
<1>11. PICK b \in Nat, r \in Nat :
         /\ b = IF raises THEN paid.roundBet ELSE g.currentBet
         /\ r = IF raises THEN s - need ELSE g.lastRaise
  <2>1. paid.roundBet \in Nat
    BY <1>5 DEF PlayerRecords
  <2>2. raises => s - need \in Nat
    BY <1>1, <1>4
  <2> QED BY <1>1, <2>1, <2>2
<1>12. PICK f \in [1 .. n -> PlayerRecords(N)], x \in Nat : f = q /\ x = g.pot + s
  BY <1>7, <1>10
<1>13. h = [g EXCEPT !.seats = f, !.currentBet = b, !.lastRaise = r, !.pot = x]
  BY <1>8, <1>11, <1>12
<1>14. h \in Games(n, N)
  BY <1>13 DEF Games
<1>15. /\ h.seats = q /\ h.pot = g.pot + s /\ h.started = g.started
       /\ h.intermission = g.intermission /\ h.payouts = g.payouts
  BY <1>12, <1>13 DEF Games
<1>16. Seats(h) = 1 .. n
  BY <1>14, SeatsOf
<1>17. RoundWithinHand(h) /\ SameStake(g, h)
  BY <1>2, <1>10, <1>15, <1>16 DEF RoundWithinHand, SameStake
<1>18. PotKept(g, h)
  <2>1. BetInAll(h) = BetInAll(g) + s
    BY <1>10, <1>15, <1>16 DEF BetInAll
  <2>2. g.pot \in Nat /\ BetInAll(g) \in Nat
    BY BetInAllIs DEF Games
  <2> QED BY <1>4, <1>15, <2>1, <2>2 DEF PotKept
<1>19. SamePlayers(g, h)
  BY <1>2, <1>5, <1>6, <1>9, <1>15 DEF SamePlayers
<1> QED BY <1>14, <1>15, <1>17, <1>18, <1>19 DEF KeepsBooks, h

\* Marking a seat folded or heard moves no chips.
LEMMA MarkIs ==
  ASSUME NEW N, NEW n \in Nat, NEW g \in Games(n, N), RoundWithinHand(g), PotCovers(g),
         NEW i \in 1 .. n, NEW p \in PlayerRecords(N), NEW h,
         p.chips = g.seats[i].chips, p.totalBet = g.seats[i].totalBet,
         p.roundBet = g.seats[i].roundBet,
         p.name = g.seats[i].name, p.sittingOut = g.seats[i].sittingOut,
         h = [g EXCEPT !.seats[i] = p]
  PROVE  KeepsBooks(g, h, n, N) /\ PotKept(g, h)
<1> DEFINE q == [g.seats EXCEPT ![i] = p]
<1>1. g.seats \in [1 .. n -> PlayerRecords(N)] /\ g.pot \in Nat
  BY DEF Games
<1>2. q \in [1 .. n -> PlayerRecords(N)] /\ q[i] = p
      /\ \A j \in 1 .. n : j # i => q[j] = g.seats[j]
  BY <1>1
<1>3. h = [g EXCEPT !.seats = q]
  BY DEF Games
<1> HIDE DEF q
<1>4. \A j \in 1 .. n : /\ g.seats[j].chips \in Nat /\ g.seats[j].totalBet \in Nat
                        /\ g.seats[j].roundBet \in Nat
  BY SeatsOf DEF PlayerRecords
<1>5. /\ SumFunctionOnSet(Bets(q), 1 .. n) = BetInAll(g) + 0
      /\ \A j \in 1 .. n : /\ q[j].roundBet <= q[j].totalBet
                           /\ q[j].chips + q[j].totalBet
                                = g.seats[j].chips + g.seats[j].totalBet
  <2>1. /\ q[i].chips = g.seats[i].chips - 0
        /\ q[i].totalBet = g.seats[i].totalBet + 0
        /\ q[i].roundBet = g.seats[i].roundBet + 0
    BY <1>2, <1>4
  <2> QED BY <1>2, <2>1, BetCounts
<1>6. PICK f \in [1 .. n -> PlayerRecords(N)] : f = q
  BY <1>2
<1>7. h = [g EXCEPT !.seats = f]
  BY <1>3, <1>6
<1>8. h \in Games(n, N)
  BY <1>7 DEF Games
<1>9. /\ h.seats = q /\ h.pot = g.pot + 0 /\ h.started = g.started
      /\ h.intermission = g.intermission /\ h.payouts = g.payouts
  BY <1>1, <1>6, <1>7 DEF Games
<1>10. Seats(h) = 1 .. n /\ Seats(g) = 1 .. n
  BY <1>8, SeatsOf
<1>11. RoundWithinHand(h) /\ SameStake(g, h)
  BY <1>5, <1>9, <1>10 DEF RoundWithinHand, SameStake
<1>12. PotKept(g, h)
  <2>1. BetInAll(h) = BetInAll(g) + 0
    BY <1>5, <1>9, <1>10 DEF BetInAll
  <2>2. BetInAll(g) \in Nat
    BY BetInAllIs
  <2> QED BY <1>1, <1>9, <2>1, <2>2 DEF PotKept
<1>13. SamePlayers(g, h)
  <2>1. \A j \in 1 .. n : /\ q[j].name = g.seats[j].name
                          /\ q[j].sittingOut = g.seats[j].sittingOut
    BY <1>2
  <2> QED BY <1>9, <1>10, <2>1 DEF SamePlayers
<1> QED BY <1>8, <1>9, <1>11, <1>12, <1>13, Zenon DEF KeepsBooks

\* So does every decision.
LEMMA ApplyDecisionIs ==
  ASSUME NEW N, NEW n \in Nat, NEW g \in Games(n, N), RoundWithinHand(g), PotCovers(g),
         NEW i \in 1 .. n, NEW action \in Decisions, NEW amount \in Int
  PROVE  /\ KeepsBooks(g, ApplyDecision(g, i, action, amount), n, N)
         /\ PotKept(g, ApplyDecision(g, i, action, amount))
<1> DEFINE p == g.seats[i]
           need == g.currentBet - p.roundBet
           h == ApplyDecision(g, i, action, amount)
<1>1. /\ p \in PlayerRecords(N) /\ p.chips \in Nat /\ p.roundBet \in Nat
      /\ g.currentBet \in Nat /\ g.lastRaise \in Nat
  BY SeatsOf DEF Games, PlayerRecords
<1>2. CASE action = "fold"
  <2> DEFINE folded == [p EXCEPT !.folded = TRUE, !.hasActed = TRUE]
  <2>1. h = [g EXCEPT !.seats[i] = folded]
    BY <1>2 DEF ApplyDecision
  <2>2. folded \in PlayerRecords(N) /\ folded.chips = p.chips
        /\ folded.totalBet = p.totalBet /\ folded.roundBet = p.roundBet
        /\ folded.name = p.name /\ folded.sittingOut = p.sittingOut
    BY <1>1 DEF PlayerRecords
  <2> HIDE DEF folded, h
  <2> QED BY <2>1, <2>2, MarkIs DEF h
<1>3. CASE action = "check"
  <2> DEFINE heard == [p EXCEPT !.hasActed = TRUE]
  <2>1. h = [g EXCEPT !.seats[i] = heard]
    BY <1>3 DEF ApplyDecision
  <2>2. heard \in PlayerRecords(N) /\ heard.chips = p.chips
        /\ heard.totalBet = p.totalBet /\ heard.roundBet = p.roundBet
        /\ heard.name = p.name /\ heard.sittingOut = p.sittingOut
    BY <1>1 DEF PlayerRecords
  <2> HIDE DEF heard, h
  <2> QED BY <2>1, <2>2, MarkIs DEF h
<1>4. CASE action = "call"
  <2>1. h = Call(g, i, amount)
    BY <1>4 DEF ApplyDecision
  <2> QED BY <2>1, CallIs
<1>5. CASE action = "raise"
  <2> DEFINE bet == IF amount <= 0 THEN need + g.lastRaise ELSE amount
  <2>1. h = CommitBet(g, i, bet)
    BY <1>5 DEF ApplyDecision
  <2>2. bet \in Int /\ p.roundBet + bet >= 0
    BY <1>1
  <2> HIDE DEF bet
  <2> QED BY <2>1, <2>2, CommitBetIs
<1>6. CASE action = "allin"
  <2>1. h = CommitBet(g, i, p.chips)
    BY <1>6 DEF ApplyDecision
  <2>2. p.chips \in Int /\ p.roundBet + p.chips >= 0
    BY <1>1
  <2> QED BY <2>1, <2>2, CommitBetIs
<1> QED BY <1>2, <1>3, <1>4, <1>5, <1>6 DEF Decisions

-----------------------------------------------------------------------------
\* Dealing in clears the bets and leaves the stacks.
LEMMA DealInIs ==
  ASSUME NEW N, NEW n \in Nat, NEW g \in Games(n, N)
  PROVE  /\ DealIn(g) \in Games(n, N)
         /\ DealIn(g).started
         /\ DealtInSeats(DealIn(g)) = DealtInSeats(g)
         /\ \A i \in 1 .. n : /\ DealIn(g).seats[i].chips = g.seats[i].chips
                              /\ DealIn(g).seats[i].totalBet = 0
                              /\ DealIn(g).seats[i].roundBet = 0
                              /\ DealIn(g).seats[i].folded <=> ~DealtIn(g.seats[i])
                              /\ ~DealIn(g).seats[i].allIn
         /\ ~DealIn(g).intermission /\ DealIn(g).payouts = {} /\ DealIn(g).phase = 0
         /\ SamePlayers(g, DealIn(g))
<1> DEFINE cleared(i) == [g.seats[i] EXCEPT
                    !.folded = ~DealtIn(g.seats[i]), !.allIn = FALSE,
                    !.hasActed = FALSE, !.totalBet = 0, !.roundBet = 0]
           q == [i \in 1 .. n |-> cleared(i)]
           h == DealIn(g)
<1>1. ASSUME NEW i \in 1 .. n
      PROVE  /\ cleared(i) \in PlayerRecords(N)
             /\ cleared(i).chips = g.seats[i].chips
             /\ cleared(i).totalBet = 0
             /\ cleared(i).roundBet = 0
             /\ cleared(i).sittingOut = g.seats[i].sittingOut
             /\ cleared(i).name = g.seats[i].name
             /\ cleared(i).folded <=> ~DealtIn(g.seats[i])
             /\ ~cleared(i).allIn
  <2>1. g.seats[i] \in PlayerRecords(N)
    BY SeatsOf
  <2>2. PICK b \in BOOLEAN : b = ~DealtIn(g.seats[i])
    OBVIOUS
  <2>3. PICK p \in PlayerRecords(N) :
          p = [g.seats[i] EXCEPT !.folded = b, !.allIn = FALSE, !.hasActed = FALSE]
    BY <2>1 DEF PlayerRecords
  <2>4. /\ p.chips = g.seats[i].chips /\ p.sittingOut = g.seats[i].sittingOut
        /\ p.name = g.seats[i].name /\ p.folded = b /\ ~p.allIn
    BY <2>1, <2>3 DEF PlayerRecords
  <2>5. PICK z \in Nat : z = 0
    OBVIOUS
  <2>6. cleared(i) = [p EXCEPT !.totalBet = z, !.roundBet = z]
    BY <2>2, <2>3, <2>5
  <2> HIDE DEF cleared
  <2>7. cleared(i) \in PlayerRecords(N)
    BY <2>6 DEF PlayerRecords
  <2>8. /\ cleared(i).chips = p.chips /\ cleared(i).sittingOut = p.sittingOut
        /\ cleared(i).totalBet = z /\ cleared(i).roundBet = z
        /\ cleared(i).name = p.name /\ cleared(i).folded = p.folded
        /\ cleared(i).allIn = p.allIn
    BY <2>6 DEF PlayerRecords
  <2> QED BY <2>2, <2>4, <2>5, <2>7, <2>8
<1>2. q \in [1 .. n -> PlayerRecords(N)]
  <2> HIDE DEF cleared
  <2> QED BY <1>1
<1>3. h = [g EXCEPT !.started = TRUE, !.intermission = FALSE, !.phase = 0,
                    !.lastWinner = FALSE, !.payouts = {}, !.seats = q]
  <2> DEFINE seats == SeatsBy(g, cleared)
  <2>1. h = [g EXCEPT !.started = TRUE, !.intermission = FALSE, !.phase = 0,
                      !.lastWinner = FALSE, !.payouts = {}, !.seats = seats]
    BY Zenon DEF DealIn
  <2>2. seats = SubSeq(q, 1, n)
    BY Zenon, SeatsOf DEF SeatsBy
  <2> HIDE DEF q, seats, h
  <2> QED BY <1>2, <2>1, <2>2, SeatsRewritten
<1>9. \A i \in 1 .. n : q[i] = cleared(i)
  OBVIOUS
<1> HIDE DEF q, h, cleared
<1>4. PICK f \in [1 .. n -> PlayerRecords(N)] : f = q
  BY <1>2
<1>5. PICK x \in 0 .. Showdown : x = 0
  BY DEF Showdown
<1>6. h = [g EXCEPT !.started = TRUE, !.intermission = FALSE, !.phase = x,
                    !.lastWinner = FALSE, !.payouts = {}, !.seats = f]
  BY <1>3, <1>4, <1>5
<1>7. /\ h \in Games(n, N) /\ h.started /\ h.seats = f /\ ~h.intermission /\ h.payouts = {}
      /\ h.phase = 0
  BY <1>5, <1>6 DEF Games
<1>8. DealtInSeats(h) = DealtInSeats(g)
  <2>1. Seats(h) = 1 .. n /\ Seats(g) = 1 .. n
    BY <1>7, SeatsOf
  <2>2. \A i \in 1 .. n : DealtIn(h.seats[i]) = DealtIn(g.seats[i])
    BY <1>1, <1>4, <1>7, <1>9 DEF DealtIn
  <2> QED BY <2>1, <2>2 DEF DealtInSeats
<1>10. SamePlayers(g, h)
  <2>1. Seats(g) = 1 .. n
    BY SeatsOf
  <2> QED BY <1>1, <1>4, <1>7, <1>9, <2>1 DEF SamePlayers
<1> QED BY <1>1, <1>4, <1>7, <1>8, <1>9, <1>10 DEF h

\* Neighbours on a circle of two or more are two.
LEMMA NextDiffers ==
  ASSUME NEW n \in Nat, n >= 2, NEW x \in Nat
  PROVE  /\ x % n \in 0 .. n - 1
         /\ (x + 1) % n \in 0 .. n - 1
         /\ (x + 1) % n # x % n
<1>1. x + 1 \in Nat /\ n > 0
  OBVIOUS
<1>2. x % n \in 0 .. n - 1 /\ (x + 1) % n \in 0 .. n - 1
  BY <1>1, Division
<1>3. (x + 1) % n = IF x % n = n - 1 THEN 0 ELSE (x % n) + 1
  BY <1>1, ModStep
<1> QED BY <1>2, <1>3

\* The seats of two different numbers are two.
LEMMA NthSeatsDiffer ==
  ASSUME NEW S \in SUBSET Nat, IsFiniteSet(S),
         NEW k \in Nat, NEW l \in Nat,
         k < Cardinality(S), l < Cardinality(S), k # l
  PROVE  /\ NthSeat(S, k) \in S /\ NthSeat(S, l) \in S
         /\ NthSeat(S, k) # NthSeat(S, l)
<1>1. /\ NthSeat(S, k) \in S
      /\ Cardinality({j \in S : j < NthSeat(S, k)}) = k
  BY NthSeatIs
<1>2. /\ NthSeat(S, l) \in S
      /\ Cardinality({j \in S : j < NthSeat(S, l)}) = l
  BY NthSeatIs
<1> QED BY <1>1, <1>2

\* The blinds are two bets, of two of the players dealt in.
LEMMA PostBlindsIs ==
  ASSUME NEW N, NEW n \in Nat, NEW g \in Games(n, N),
         SmallBlind \in Nat, BigBlind \in Nat,
         \A i \in 1 .. n : g.seats[i].totalBet = 0 /\ g.seats[i].roundBet = 0,
         Cardinality(DealtInSeats(g)) >= 2
  PROVE  /\ KeepsBooks(g, PostBlinds(g), n, N)
         /\ PotIs(PostBlinds(g))
         /\ \A i \in 1 .. n :
              /\ PostBlinds(g).seats[i].folded = g.seats[i].folded
              /\ i \notin DealtInSeats(g) => PostBlinds(g).seats[i].totalBet = 0
         /\ PostBlinds(g).phase = g.phase /\ PostBlinds(g).currentBet = BigBlind
         /\ \E sb, bb \in DealtInSeats(g) : \A i \in 1 .. n :
              SameHand(IF i = sb THEN PlaceBet(g.seats[i], SmallBlind)
                       ELSE IF i = bb THEN PlaceBet(g.seats[i], BigBlind) ELSE g.seats[i],
                       PostBlinds(g).seats[i])
<1> DEFINE dealt == DealtInSeats(g)
           m     == Cardinality(dealt)
           orbit == IF g.orbit < 0 THEN 0 ELSE (g.orbit + 1) % m
           sbIx  == IF m = 2 THEN orbit ELSE (orbit + 1) % m
           bbIx  == IF m = 2 THEN (orbit + 1) % m ELSE (orbit + 2) % m
           sb    == NthSeat(dealt, sbIx)
           bb    == NthSeat(dealt, bbIx)
           blind(i) == IF i = sb THEN SmallBlind ELSE IF i = bb THEN BigBlind ELSE 0
           post(i)  == IF i \in {sb, bb} THEN PlaceBet(g.seats[i], blind(i))
                                         ELSE g.seats[i]
           seat(i)  == [post(i) EXCEPT !.dealer = (i = NthSeat(dealt, orbit)),
                                       !.bigBlind = (i = bb)]
           seats    == SeatsBy(g, seat)
           h        == PostBlinds(g)
<1>0. h = [g EXCEPT
             !.orbit = orbit,
             !.seats = seats,
             !.pot = Staked(g.seats[sb], SmallBlind) + Staked(g.seats[bb], BigBlind),
             !.currentBet = BigBlind,
             !.lastRaise = BigBlind]
  BY Zenon DEF PostBlinds
<1> HIDE DEF h, seats
<1>1. /\ m \in Nat /\ m >= 2 /\ dealt \in SUBSET Nat /\ IsFiniteSet(dealt)
      /\ dealt \subseteq 1 .. n
  BY PartsOfSeats
<1> HIDE DEF dealt, m
<1>2. orbit \in Nat /\ orbit < m
  <2>1. g.orbit \in Nat \cup {-1}
    BY DEF Games
  <2>2. CASE g.orbit < 0
    BY <1>1, <2>2
  <2>3. CASE ~(g.orbit < 0)
    <3>1. g.orbit \in Nat
      BY <2>1, <2>3
    <3>2. (g.orbit + 1) % m \in 0 .. m - 1
      BY <1>1, <3>1, NextDiffers
    <3> QED BY <1>1, <2>3, <3>2
  <2> QED BY <2>2, <2>3
<1> HIDE DEF orbit
<1>3. sbIx \in 0 .. m - 1 /\ bbIx \in 0 .. m - 1 /\ sbIx # bbIx
  <2>1. /\ orbit % m \in 0 .. m - 1 /\ (orbit + 1) % m \in 0 .. m - 1
        /\ (orbit + 1) % m # orbit % m
    BY <1>1, <1>2, NextDiffers
  <2>2. orbit % m = orbit
    <3>1. orbit = 0 * m + orbit /\ orbit \in 0 .. m - 1 /\ m > 0
      BY <1>1, <1>2
    <3> QED BY <1>1, <1>2, <3>1, ModUnique
  <2>3. PICK x \in Nat : x = orbit + 1
    BY <1>2
  <2>4. (x + 1) % m \in 0 .. m - 1 /\ (x + 1) % m # x % m
    BY <1>1, NextDiffers
  <2>5. x + 1 = orbit + 2
    BY <1>2, <2>3
  <2> QED BY <2>1, <2>2, <2>3, <2>4, <2>5
<1> HIDE DEF sbIx, bbIx
<1>4. sb \in 1 .. n /\ bb \in 1 .. n /\ sb # bb /\ sb \in dealt /\ bb \in dealt
  <2>1. sbIx \in Nat /\ bbIx \in Nat /\ sbIx < m /\ bbIx < m
    BY <1>1, <1>3
  <2>2. sb \in dealt /\ bb \in dealt /\ sb # bb
    BY <1>1, <1>3, <2>1, NthSeatsDiffer DEF m
  <2> QED BY <1>1, <2>2
<1> HIDE DEF sb, bb
<1> DEFINE s == Staked(g.seats[sb], SmallBlind)
           b == Staked(g.seats[bb], BigBlind)
<1>5. \A i \in 1 .. n : /\ g.seats[i] \in PlayerRecords(N)
                        /\ g.seats[i].chips \in Nat
                        /\ g.seats[i].roundBet = 0 /\ g.seats[i].totalBet = 0
  BY SeatsOf DEF PlayerRecords
<1>6. /\ PlaceBet(g.seats[sb], SmallBlind) \in PlayerRecords(N)
      /\ s \in Int
      /\ PlaceBet(g.seats[sb], SmallBlind).chips = g.seats[sb].chips - s
      /\ PlaceBet(g.seats[sb], SmallBlind).totalBet = g.seats[sb].totalBet + s
      /\ PlaceBet(g.seats[sb], SmallBlind).roundBet = g.seats[sb].roundBet + s
      /\ PlaceBet(g.seats[sb], SmallBlind).name = g.seats[sb].name
      /\ PlaceBet(g.seats[sb], SmallBlind).sittingOut = g.seats[sb].sittingOut
      /\ PlaceBet(g.seats[sb], SmallBlind).folded = g.seats[sb].folded
  BY <1>4, <1>5, PlaceBetIs
<1>7. /\ PlaceBet(g.seats[bb], BigBlind) \in PlayerRecords(N)
      /\ b \in Int
      /\ PlaceBet(g.seats[bb], BigBlind).chips = g.seats[bb].chips - b
      /\ PlaceBet(g.seats[bb], BigBlind).totalBet = g.seats[bb].totalBet + b
      /\ PlaceBet(g.seats[bb], BigBlind).roundBet = g.seats[bb].roundBet + b
      /\ PlaceBet(g.seats[bb], BigBlind).name = g.seats[bb].name
      /\ PlaceBet(g.seats[bb], BigBlind).sittingOut = g.seats[bb].sittingOut
      /\ PlaceBet(g.seats[bb], BigBlind).folded = g.seats[bb].folded
  BY <1>4, <1>5, PlaceBetIs
<1> HIDE DEF s, b
<1>8. /\ post(sb) = PlaceBet(g.seats[sb], SmallBlind)
      /\ post(bb) = PlaceBet(g.seats[bb], BigBlind)
      /\ \A i \in 1 .. n : i # sb /\ i # bb => post(i) = g.seats[i]
  BY <1>4
<1>9. \A i \in 1 .. n : post(i) \in PlayerRecords(N)
  BY <1>5, <1>6, <1>7, <1>8
<1> HIDE DEF post
<1>10. ASSUME NEW i \in 1 .. n
       PROVE  /\ seat(i) \in PlayerRecords(N)
              /\ seat(i).chips = post(i).chips
              /\ seat(i).totalBet = post(i).totalBet
              /\ seat(i).roundBet = post(i).roundBet
              /\ seat(i).name = post(i).name /\ seat(i).folded = post(i).folded
              /\ seat(i).sittingOut = post(i).sittingOut /\ seat(i).allIn = post(i).allIn
  <2>1. PICK d \in BOOLEAN, e \in BOOLEAN : d = (i = NthSeat(dealt, orbit)) /\ e = (i = bb)
    OBVIOUS
  <2>2. seat(i) = [post(i) EXCEPT !.dealer = d, !.bigBlind = e]
    BY <2>1
  <2> HIDE DEF seat
  <2> QED BY <1>9, <2>2 DEF PlayerRecords
<1> DEFINE q == [i \in 1 .. n |-> seat(i)]
<1>11. q \in [1 .. n -> PlayerRecords(N)]
  <2> HIDE DEF seat
  <2> QED BY <1>10
<1>12. seats = q
  <2> HIDE DEF seat
  <2>1. seats = SubSeq(q, 1, n)
    BY SeatsOf DEF seats, SeatsBy
  <2> HIDE DEF q
  <2> QED BY <1>11, <2>1, SeatsRewritten
<1>13. \A i \in 1 .. n : q[i] = seat(i)
  OBVIOUS
<1> HIDE DEF q, seat
\* The books before any blind, and after the small blind alone.
<1>14. PICK z \in Nat : z = 0
  OBVIOUS
<1> DEFINE g0 == [g EXCEPT !.pot = z]
<1>15. g0 \in Games(n, N) /\ g0.seats = g.seats /\ g0.pot = z
  BY DEF Games
<1> HIDE DEF g0
<1>16. RoundWithinHand(g0) /\ PotIs(g0) /\ PotCovers(g0)
  <2>1. Seats(g0) = 1 .. n /\ DOMAIN g.seats = 1 .. n /\ IsFiniteSet(1 .. n)
    BY <1>15, SeatsOf DEF Seats
  <2>2. RoundWithinHand(g0)
    BY <1>5, <1>15, <2>1 DEF RoundWithinHand
  <2>3. PICK S, f : S = 1 .. n /\ f = Bets(g.seats)
    OBVIOUS
  <2>4. \A i \in S : f[i] = 0
    BY <1>5, <2>1, <2>3 DEF Bets
  <2>5. SumFunctionOnSet(f, S) = 0
    BY <2>1, <2>3, <2>4, SumZero
  <2> QED BY <1>14, <1>15, <2>1, <2>2, <2>3, <2>5 DEF PotIs, PotCovers, BetInAll
<1> DEFINE q1 == [g.seats EXCEPT ![sb] = PlaceBet(g.seats[sb], SmallBlind)]
<1>17. /\ q1 \in [1 .. n -> PlayerRecords(N)]
       /\ q1[sb] = PlaceBet(g.seats[sb], SmallBlind)
       /\ \A i \in 1 .. n : i # sb => q1[i] = g.seats[i]
  <2>1. g.seats \in [1 .. n -> PlayerRecords(N)]
    BY DEF Games
  <2> QED BY <1>4, <1>6, <2>1
<1> HIDE DEF q1
<1>18. /\ z + s \in Nat
       /\ z + s = SumFunctionOnSet(Bets(q1), 1 .. n)
       /\ \A j \in 1 .. n : /\ q1[j].roundBet <= q1[j].totalBet
                            /\ q1[j].chips + q1[j].totalBet
                                 = g.seats[j].chips + g.seats[j].totalBet
  <2>1. PICK y \in Games(n, N), w \in [1 .. n -> PlayerRecords(N)], k \in 1 .. n, t \in Int :
          y = g0 /\ w = q1 /\ k = sb /\ t = s
    BY <1>4, <1>6, <1>15, <1>17
  <2>2. RoundWithinHand(y) /\ PotCovers(y) /\ y.pot = BetInAll(y) /\ y.pot \in Nat
    BY <1>16, <2>1 DEF PotIs, Games
  <2>3. /\ w[k].chips = y.seats[k].chips - t
        /\ w[k].totalBet = y.seats[k].totalBet + t
        /\ w[k].roundBet = y.seats[k].roundBet + t
        /\ \A j \in 1 .. n : j # k => w[j] = y.seats[j]
    BY <1>6, <1>15, <1>17, <2>1
  <2>4. /\ y.pot + t \in Nat
        /\ SumFunctionOnSet(Bets(w), 1 .. n) = BetInAll(y) + t
        /\ \A j \in 1 .. n : /\ w[j].roundBet <= w[j].totalBet
                             /\ w[j].chips + w[j].totalBet
                                  = y.seats[j].chips + y.seats[j].totalBet
    BY <2>2, <2>3, BetCounts
  <2> QED BY <1>15, <2>1, <2>2, <2>4
<1>19. PICK f1 \in [1 .. n -> PlayerRecords(N)], x1 \in Nat : f1 = q1 /\ x1 = z + s
  BY <1>17, <1>18
<1> DEFINE g1 == [g EXCEPT !.seats = f1, !.pot = x1]
<1>20. g1 \in Games(n, N) /\ g1.seats = q1 /\ g1.pot = z + s
  BY <1>19 DEF Games
<1> HIDE DEF g1
<1>21. RoundWithinHand(g1) /\ PotIs(g1) /\ PotCovers(g1)
  <2>1. Seats(g1) = 1 .. n
    BY <1>20, SeatsOf
  <2> QED BY <1>18, <1>20, <2>1 DEF RoundWithinHand, PotIs, PotCovers, BetInAll
<1>22. /\ z + s + b \in Nat
       /\ z + s + b = SumFunctionOnSet(Bets(q), 1 .. n)
       /\ \A j \in 1 .. n : /\ q[j].roundBet <= q[j].totalBet
                            /\ q[j].chips + q[j].totalBet
                                 = q1[j].chips + q1[j].totalBet
  <2>1. /\ q[bb].chips = q1[bb].chips - b
        /\ q[bb].totalBet = q1[bb].totalBet + b
        /\ q[bb].roundBet = q1[bb].roundBet + b
    BY <1>4, <1>7, <1>8, <1>10, <1>13, <1>17
  <2>2. \A j \in 1 .. n : j # bb => /\ q[j].chips = q1[j].chips
                                    /\ q[j].totalBet = q1[j].totalBet
                                    /\ q[j].roundBet = q1[j].roundBet
    BY <1>4, <1>8, <1>10, <1>13, <1>17
  <2>3. /\ q[bb].chips = g1.seats[bb].chips - b
        /\ q[bb].totalBet = g1.seats[bb].totalBet + b
        /\ q[bb].roundBet = g1.seats[bb].roundBet + b
        /\ \A j \in 1 .. n : j # bb => /\ q[j].chips = g1.seats[j].chips
                                       /\ q[j].totalBet = g1.seats[j].totalBet
                                       /\ q[j].roundBet = g1.seats[j].roundBet
    BY <1>20, <2>1, <2>2
  <2>4. /\ g1.pot + b \in Nat
        /\ g1.pot + b = SumFunctionOnSet(Bets(q), 1 .. n)
        /\ \A j \in 1 .. n : /\ q[j].roundBet <= q[j].totalBet
                             /\ q[j].chips + q[j].totalBet
                                  = g1.seats[j].chips + g1.seats[j].totalBet
    <3>1. PICK y \in Games(n, N), w \in [1 .. n -> PlayerRecords(N)], k \in 1 .. n, t \in Int :
            y = g1 /\ w = q /\ k = bb /\ t = b
      BY <1>4, <1>7, <1>11, <1>20
    <3>2. RoundWithinHand(y) /\ PotCovers(y) /\ y.pot = BetInAll(y) /\ y.pot \in Nat
      BY <1>21, <3>1 DEF PotIs, Games
    <3>3. /\ w[k].chips = y.seats[k].chips - t
          /\ w[k].totalBet = y.seats[k].totalBet + t
          /\ w[k].roundBet = y.seats[k].roundBet + t
          /\ \A j \in 1 .. n : j # k => /\ w[j].chips = y.seats[j].chips
                                        /\ w[j].totalBet = y.seats[j].totalBet
                                        /\ w[j].roundBet = y.seats[j].roundBet
      BY <2>3, <3>1
    <3>4. /\ y.pot + t \in Nat
          /\ SumFunctionOnSet(Bets(w), 1 .. n) = BetInAll(y) + t
          /\ \A j \in 1 .. n : /\ w[j].roundBet <= w[j].totalBet
                               /\ w[j].chips + w[j].totalBet
                                    = y.seats[j].chips + y.seats[j].totalBet
      BY <3>2, <3>3, BetCounts
    <3> QED BY <3>1, <3>2, <3>4
  <2> QED BY <1>20, <2>4
<1>23. PICK f \in [1 .. n -> PlayerRecords(N)], x \in Nat, o \in Nat \cup {-1},
            c \in Nat :
         f = q /\ x = s + b /\ o = orbit /\ c = BigBlind
  <2>1. s + b \in Nat
    BY <1>6, <1>7, <1>14, <1>22
  <2>2. PICK f \in [1 .. n -> PlayerRecords(N)] : f = q
    BY <1>11
  <2>3. PICK o \in Nat \cup {-1} : o = orbit
    BY <1>2
  <2> QED BY <2>1, <2>2, <2>3
<1>24. h = [g EXCEPT !.orbit = o, !.seats = f, !.pot = x, !.currentBet = c,
                     !.lastRaise = c]
  BY <1>0, <1>12, <1>23 DEF s, b
<1>25. h \in Games(n, N)
  BY <1>24 DEF Games
<1>26. /\ h.seats = q /\ h.pot = s + b /\ h.started = g.started
       /\ h.intermission = g.intermission /\ h.payouts = g.payouts
       /\ h.phase = g.phase /\ h.currentBet = BigBlind
  BY <1>23, <1>24 DEF Games
<1>27. Seats(h) = 1 .. n /\ Seats(g) = 1 .. n
  BY <1>25, SeatsOf
<1>28. RoundWithinHand(h) /\ SameStake(g, h)
  BY <1>18, <1>22, <1>26, <1>27 DEF RoundWithinHand, SameStake
<1>29. PotIs(h)
  BY <1>6, <1>7, <1>14, <1>22, <1>26, <1>27 DEF PotIs, BetInAll
<1>30. \A i \in 1 .. n : /\ q[i].name = g.seats[i].name
                         /\ q[i].sittingOut = g.seats[i].sittingOut
                         /\ q[i].folded = g.seats[i].folded
                         /\ i \notin dealt => q[i].totalBet = 0
  <2>1. ASSUME NEW i \in 1 .. n
        PROVE  /\ q[i].name = post(i).name /\ q[i].sittingOut = post(i).sittingOut
               /\ q[i].folded = post(i).folded /\ q[i].totalBet = post(i).totalBet
    BY <1>10, <1>13
  <2>2. ASSUME NEW i \in 1 .. n
        PROVE  /\ post(i).name = g.seats[i].name
               /\ post(i).sittingOut = g.seats[i].sittingOut
               /\ post(i).folded = g.seats[i].folded
               /\ i \notin dealt => post(i).totalBet = 0
    BY <1>4, <1>5, <1>6, <1>7, <1>8
  <2> QED BY <2>1, <2>2
<1>31. SamePlayers(g, h)
  <2>1. \A i \in 1 .. n : /\ q[i].name = g.seats[i].name
                          /\ q[i].sittingOut = g.seats[i].sittingOut
    BY <1>30
  <2> QED BY <1>26, <1>27, <2>1 DEF SamePlayers
<1>32. KeepsBooks(g, h, n, N)
  BY <1>25, <1>26, <1>28, <1>31 DEF KeepsBooks
<1>33. \A i \in 1 .. n : /\ h.seats[i].folded = g.seats[i].folded
                         /\ i \notin dealt => h.seats[i].totalBet = 0
  BY <1>26, <1>30
<1>34. \A i \in 1 .. n : SameHand(IF i = sb THEN PlaceBet(g.seats[i], SmallBlind)
                                 ELSE IF i = bb THEN PlaceBet(g.seats[i], BigBlind)
                                 ELSE g.seats[i], h.seats[i])
  <2>1. ASSUME NEW i \in 1 .. n
        PROVE  SameHand(post(i), h.seats[i])
    BY <1>10, <1>13, <1>26 DEF SameHand
  <2>2. ASSUME NEW i \in 1 .. n
        PROVE  post(i) = IF i = sb THEN PlaceBet(g.seats[i], SmallBlind)
                         ELSE IF i = bb THEN PlaceBet(g.seats[i], BigBlind) ELSE g.seats[i]
    BY <1>4, <1>8
  <2> QED BY <2>1, <2>2
<1>35. \E k, l \in dealt : \A i \in 1 .. n :
         SameHand(IF i = k THEN PlaceBet(g.seats[i], SmallBlind)
                  ELSE IF i = l THEN PlaceBet(g.seats[i], BigBlind) ELSE g.seats[i],
                  h.seats[i])
  BY <1>4, <1>34, Zenon
<1> QED BY <1>26, <1>29, <1>32, <1>33, <1>35 DEF h, dealt

-----------------------------------------------------------------------------
\* The values of a function on a finite set are finitely many.
LEMMA ImageIsFinite ==
  ASSUME NEW S, IsFiniteSet(S), NEW f, NEW T, T \subseteq {f[x] : x \in S}
  PROVE  IsFiniteSet(T)
<1> DEFINE I == {f[x] : x \in S}
           k == [x \in S |-> f[x]]
<1>1. k \in Surjection(S, I)
  BY DEF Surjection
<1>2. IsFiniteSet(I)
  <2> HIDE DEF I, k
  <2> QED BY <1>1, FS_Surjection
<1> QED BY <1>2, FS_Subset

\* The levels of the pot: finitely many amounts.
LEMMA LevelsAre ==
  ASSUME NEW N, NEW n \in Nat, NEW g \in Games(n, N)
  PROVE  /\ Contributors(g) \subseteq 1 .. n
         /\ IsFiniteSet(Contributors(g))
         /\ Levels(g) \in SUBSET Nat
         /\ IsFiniteSet(Levels(g))
<1>1. Seats(g) = 1 .. n /\ IsFiniteSet(1 .. n)
  BY SeatsOf
<1>2. \A i \in 1 .. n : g.seats[i].totalBet \in Nat
  BY SeatsOf DEF PlayerRecords
<1>3. Contributors(g) \subseteq 1 .. n
  BY <1>1 DEF Contributors
<1>4. IsFiniteSet(Contributors(g))
  BY <1>1, <1>3, FS_Subset
<1>5. Levels(g) \in SUBSET Nat
  BY <1>2, <1>3 DEF Levels
<1>6. IsFiniteSet(Levels(g))
  <2> DEFINE f == [i \in Contributors(g) |-> g.seats[i].totalBet]
  <2>1. Levels(g) \subseteq {f[i] : i \in Contributors(g)}
    BY DEF Levels
  <2> HIDE DEF f
  <2> QED BY <1>4, <2>1, ImageIsFinite
<1> QED BY <1>3, <1>4, <1>5, <1>6

\* A layer holds a number of chips, and seats contend for it.
LEMMA LayerOfIs ==
  ASSUME NEW N, NEW n \in Nat, NEW g \in Games(n, N), NEW level \in Levels(g)
  PROVE  /\ LayerOf(g, level).contenders \subseteq 1 .. n
         /\ LayerOf(g, level).amount \in Nat
<1> DEFINE below    == {l \in Levels(g) : l < level}
           prev     == IF below = {} THEN 0 ELSE Max(below)
           eligible == {i \in Contributors(g) : g.seats[i].totalBet >= level}
<1>1. level \in Nat /\ below \in SUBSET Nat /\ IsFiniteSet(below)
  BY LevelsAre, FS_Subset
<1>2. \A l \in below : l < level
  OBVIOUS
<1>3. IsFiniteSet(eligible) /\ Cardinality(eligible) \in Nat
  BY LevelsAre, FS_Subset, FS_CardinalityType
<1>4. LayerOf(g, level) = [contenders |-> eligible \cap ActiveSeats(g),
                           amount |-> (level - prev) * Cardinality(eligible)]
  BY Zenon DEF LayerOf
<1>5. eligible \cap ActiveSeats(g) \subseteq 1 .. n
  BY PartsOfSeats
<1> HIDE DEF below, eligible
<1>6. level - prev \in Nat
  <2>1. CASE below = {}
    BY <1>1, <2>1
  <2>2. CASE below # {}
    <3>1. PICK m \in below : m = Max(below)
      BY <1>1, <2>2, MaxIs
    <3>2. level - m \in Nat
      BY <1>1, <1>2
    <3> QED BY <2>2, <3>1, <3>2
  <2> QED BY <2>1, <2>2
<1> HIDE DEF prev
<1>7. (level - prev) * Cardinality(eligible) \in Nat
  BY <1>3, <1>6
<1> QED BY <1>4, <1>5, <1>7

\* A layer reaches down to the level below its own, and every seat that bet
\* its level has paid for it.
LEMMA LayerCounts ==
  ASSUME NEW N, NEW n \in Nat, NEW g \in Games(n, N), NEW level \in Levels(g)
  PROVE  \E prev \in Levels(g) \cup {0} :
           /\ prev < level
           /\ \A l \in Levels(g) : l < level => l <= prev
           /\ LayerOf(g, level).amount
                = (level - prev) * Cardinality({i \in 1 .. n : g.seats[i].totalBet >= level})
           /\ LayerOf(g, level).contenders
                = {i \in ActiveSeats(g) : g.seats[i].totalBet >= level}
<1> DEFINE below    == {l \in Levels(g) : l < level}
           prev     == IF below = {} THEN 0 ELSE Max(below)
           eligible == {i \in Contributors(g) : g.seats[i].totalBet >= level}
<1>1. level \in Nat /\ below \in SUBSET Nat /\ IsFiniteSet(below)
  BY LevelsAre, FS_Subset
<1>2. level > 0
  BY <1>1 DEF Levels, Contributors
<1>3. LayerOf(g, level) = [contenders |-> eligible \cap ActiveSeats(g),
                           amount |-> (level - prev) * Cardinality(eligible)]
  BY Zenon DEF LayerOf
<1>4. eligible = {i \in 1 .. n : g.seats[i].totalBet >= level}
  <2>1. Seats(g) = 1 .. n /\ \A i \in 1 .. n : g.seats[i].totalBet \in Nat
    BY SeatsOf DEF PlayerRecords
  <2> QED BY <1>1, <1>2, <2>1 DEF Contributors
<1>5. eligible \cap ActiveSeats(g) = {i \in ActiveSeats(g) : g.seats[i].totalBet >= level}
  <2>1. ActiveSeats(g) \subseteq 1 .. n
    BY PartsOfSeats
  <2> QED BY <1>4, <2>1
<1>6. /\ prev \in Levels(g) \cup {0} /\ prev < level
      /\ \A l \in Levels(g) : l < level => l <= prev
  <2>1. CASE below = {}
    BY <1>2, <2>1
  <2>2. CASE below # {}
    <3>1. /\ Max(below) \in below
          /\ \A l \in below : l <= Max(below)
      <4> HIDE DEF below
      <4> QED BY <1>1, <2>2, MaxIs
    <3> QED BY <2>2, <3>1
  <2> QED BY <2>1, <2>2
<1> HIDE DEF prev, eligible, below
<1> QED BY <1>3, <1>4, <1>5, <1>6

\* Whoever is still in and has bet a level contends for it.
LEMMA ContendersAre ==
  ASSUME NEW N, NEW n \in Nat, NEW g \in Games(n, N), NEW level \in Levels(g)
  PROVE  LayerOf(g, level).contenders = {i \in ActiveSeats(g) : g.seats[i].totalBet >= level}
<1>1. PICK prev \in Levels(g) \cup {0} :
        /\ prev < level
        /\ \A l \in Levels(g) : l < level => l <= prev
        /\ LayerOf(g, level).amount
             = (level - prev) * Cardinality({i \in 1 .. n : g.seats[i].totalBet >= level})
        /\ LayerOf(g, level).contenders
             = {i \in ActiveSeats(g) : g.seats[i].totalBet >= level}
  BY LayerCounts
<1> QED BY <1>1

\* The layers, and what everyone has put in up to a level.
Layers(g) == [l \in Levels(g) |-> LayerOf(g, l).amount]
UpTo(g, c) == [i \in Seats(g) |-> LesserOf(c, g.seats[i].totalBet)]

\* The layers up to a level hold what everyone has put in up to it.
LEMMA LayersBelow ==
  ASSUME NEW N, NEW n \in Nat, NEW g \in Games(n, N), NEW c \in Levels(g) \cup {0}
  PROVE  SumFunctionOnSet(Layers(g), {l \in Levels(g) : l <= c})
           = SumFunctionOnSet(UpTo(g, c), 1 .. n)
<1> DEFINE To(k) == {l \in Levels(g) : l <= k}
           Bad == {k \in Levels(g) \cup {0} : SumFunctionOnSet(Layers(g), To(k))
                                                # SumFunctionOnSet(UpTo(g, k), 1 .. n)}
<1>1. /\ Seats(g) = 1 .. n /\ IsFiniteSet(1 .. n)
      /\ \A i \in 1 .. n : g.seats[i].totalBet \in Nat
  BY SeatsOf DEF PlayerRecords
<1>2. Levels(g) \in SUBSET Nat /\ \A l \in Levels(g) : l # 0
  <2>1. ASSUME NEW l \in Levels(g)
        PROVE  l # 0
    <3>1. PICK i \in Contributors(g) : l = g.seats[i].totalBet
      BY DEF Levels
    <3> QED BY <3>1 DEF Contributors
  <2> QED BY <2>1, LevelsAre
<1>3. \A i \in 1 .. n : g.seats[i].totalBet \in Levels(g) \cup {0}
  BY <1>1 DEF Levels, Contributors
<1>4. SUFFICES ASSUME Bad # {} PROVE FALSE
  OBVIOUS
<1>5. PICK k \in Bad : \A m \in Bad : k <= m
  <2>1. Bad \in SUBSET Nat
    BY <1>2
  <2> HIDE DEF Bad
  <2> QED BY <1>4, <2>1, LeastNatural
<1>6. k \in Nat /\ k \in Levels(g) \cup {0}
  BY <1>2
<1>7. ASSUME NEW j \in Nat, NEW i \in 1 .. n
      PROVE  UpTo(g, j)[i] = LesserOf(j, g.seats[i].totalBet) /\ UpTo(g, j)[i] \in Nat
  BY <1>1 DEF UpTo, LesserOf
<1>8. CASE k = 0
  <2>1. To(k) = {}
    BY <1>2, <1>8
  <2>2. \A i \in 1 .. n : UpTo(g, k)[i] = 0
    BY <1>1, <1>6, <1>7, <1>8 DEF LesserOf
  <2>3. SumFunctionOnSet(UpTo(g, k), 1 .. n) = 0
    BY <1>1, <2>2, SumZero
  <2>4. SumFunctionOnSet(Layers(g), To(k)) = 0
    <3> HIDE DEF To
    <3> QED BY <2>1, SumOfNothing
  <2> QED BY <2>3, <2>4
<1>9. CASE k # 0
  <2>1. k \in Levels(g)
    BY <1>6, <1>9
  <2>2. PICK prev \in Levels(g) \cup {0} :
          /\ prev < k
          /\ \A l \in Levels(g) : l < k => l <= prev
          /\ LayerOf(g, k).amount
               = (k - prev) * Cardinality({i \in 1 .. n : g.seats[i].totalBet >= k})
    BY <2>1, LayerCounts
  <2>3. prev \in Nat /\ prev \notin Bad
    <3>1. prev \in Nat /\ ~(k <= prev)
      BY <1>2, <1>6, <2>2
    <3> QED BY <1>5, <3>1
  <2>4. SumFunctionOnSet(Layers(g), To(prev)) = SumFunctionOnSet(UpTo(g, prev), 1 .. n)
    BY <2>2, <2>3
  <2>5. To(k) \ {k} = To(prev) /\ k \in To(k)
    BY <1>2, <1>6, <2>1, <2>2, <2>3
  <2>6. SumFunctionOnSet(Layers(g), To(k))
          = LayerOf(g, k).amount + SumFunctionOnSet(Layers(g), To(prev))
    <3>1. IsFiniteSet(To(k))
      BY LevelsAre, FS_Subset
    <3>2. \A l \in To(k) : Layers(g)[l] \in Int
      BY LayerOfIs DEF Layers
    <3>3. Layers(g)[k] = LayerOf(g, k).amount
      BY <2>1 DEF Layers
    <3> HIDE DEF To
    <3>4. SumFunctionOnSet(Layers(g), To(k))
            = Layers(g)[k] + SumFunctionOnSet(Layers(g), To(k) \ {k})
      BY <2>5, <3>1, <3>2, SumSplit
    <3> QED BY <2>5, <3>3, <3>4
  <2>7. SumFunctionOnSet(UpTo(g, k), 1 .. n)
          = SumFunctionOnSet(UpTo(g, prev), 1 .. n) + LayerOf(g, k).amount
    <3>0. PICK d \in Int : d = k - prev
      BY <1>6, <2>3
    <3>1. PICK T \in SUBSET (1 .. n) : T = {i \in 1 .. n : g.seats[i].totalBet >= k}
      OBVIOUS
    <3>2. \A i \in T : UpTo(g, k)[i] = UpTo(g, prev)[i] + d
      BY <1>1, <1>6, <1>7, <2>2, <2>3, <3>0, <3>1 DEF LesserOf
    <3>3. \A i \in (1 .. n) \ T : UpTo(g, k)[i] = UpTo(g, prev)[i]
      <4>1. ASSUME NEW i \in (1 .. n) \ T
            PROVE  UpTo(g, k)[i] = UpTo(g, prev)[i]
        <5>1. PICK b \in Nat : b = g.seats[i].totalBet
          BY <1>1
        <5>2. b < k /\ b \in Levels(g) \cup {0}
          BY <1>3, <1>6, <3>1, <5>1
        <5>3. b <= prev
          BY <2>2, <2>3, <5>2
        <5> QED BY <1>6, <1>7, <2>3, <5>1, <5>2, <5>3 DEF LesserOf
      <4> QED BY <4>1
    <3>4. \A i \in 1 .. n : UpTo(g, prev)[i] \in Int
      BY <1>7, <2>3
    <3>5. SumFunctionOnSet(UpTo(g, k), 1 .. n)
            = SumFunctionOnSet(UpTo(g, prev), 1 .. n) + d * Cardinality(T)
      <4>1. PICK S, f, h : S = 1 .. n /\ f = UpTo(g, prev) /\ h = UpTo(g, k)
        OBVIOUS
      <4>2. \A i \in S : f[i] \in Int
        BY <3>4, <4>1
      <4>3. \A i \in T : h[i] = f[i] + d
        BY <3>2, <4>1
      <4>4. \A i \in S \ T : h[i] = f[i]
        BY <3>3, <4>1
      <4>5. SumFunctionOnSet(h, S) = SumFunctionOnSet(f, S) + Product(d, Cardinality(T))
        <5>1. IsFiniteSet(S) /\ T \in SUBSET S
          BY <1>1, <3>1, <4>1
        <5> HIDE DEF Bad, To
        <5> QED BY <3>0, <4>2, <4>3, <4>4, <5>1, SumRaised
      <4> QED BY <4>1, <4>5 DEF Product
    <3> QED BY <2>2, <3>0, <3>1, <3>5
  <2>8. /\ SumFunctionOnSet(UpTo(g, prev), 1 .. n) \in Int
        /\ LayerOf(g, k).amount \in Int
    <3>1. \A i \in 1 .. n : UpTo(g, prev)[i] \in Int
      BY <1>7, <2>3
    <3>2. SumFunctionOnSet(UpTo(g, prev), 1 .. n) \in Int
      BY <1>1, <3>1, SumType
    <3> QED BY <2>1, <3>2, LayerOfIs
  <2>9. SumFunctionOnSet(Layers(g), To(k)) = SumFunctionOnSet(UpTo(g, k), 1 .. n)
    <3> HIDE DEF To
    <3> QED BY <2>4, <2>6, <2>7, <2>8
  <2> QED BY <2>9
<1> QED BY <1>8, <1>9

\* The side pots are finitely many; each holds a number of chips, and seats
\* contend for it.
LEMMA SidePotsAre ==
  ASSUME NEW N, NEW n \in Nat, NEW g \in Games(n, N)
  PROVE  /\ IsFiniteSet(SidePots(g))
         /\ \A p \in SidePots(g) : p.contenders \subseteq 1 .. n /\ p.amount \in Nat
<1> DEFINE layers == {[level |-> l, layer |-> LayerOf(g, l)] : l \in Levels(g)}
           of(E) == {x \in layers : x.layer.contenders = E}
           amountOf(E) == SumOver(of(E), LAMBDA x : x.layer.amount)
           fields == {x.layer.contenders : x \in layers}
<1>1. IsFiniteSet(layers)
  <2> DEFINE f == [l \in Levels(g) |-> [level |-> l, layer |-> LayerOf(g, l)]]
  <2>1. layers \subseteq {f[l] : l \in Levels(g)}
    OBVIOUS
  <2> HIDE DEF f, layers
  <2> QED BY <2>1, LevelsAre, ImageIsFinite
<1>2. \A x \in layers : x.layer.contenders \subseteq 1 .. n /\ x.layer.amount \in Nat
  BY LayerOfIs
<1>3. SidePots(g) = {[contenders |-> E, amount |-> amountOf(E)] : E \in fields}
  BY Zenon DEF SidePots
<1> HIDE DEF layers
<1>4. ASSUME NEW E
      PROVE  amountOf(E) \in Nat
  <2> DEFINE f == [x \in of(E) |-> x.layer.amount]
  <2>1. amountOf(E) = SumFunctionOnSet(f, of(E))
    BY DEF SumOver
  <2>2. IsFiniteSet(of(E))
    BY <1>1, FS_Subset
  <2>3. \A x \in of(E) : f[x] \in Nat
    BY <1>2
  <2> HIDE DEF f, of
  <2> QED BY <2>1, <2>2, <2>3, SumNat
<1> HIDE DEF amountOf
<1>5. \A E \in fields : E \subseteq 1 .. n
  BY <1>2
<1>6. IsFiniteSet(fields)
  <2> DEFINE f == [x \in layers |-> x.layer.contenders]
  <2>1. fields \subseteq {f[x] : x \in layers}
    OBVIOUS
  <2> HIDE DEF f, fields
  <2> QED BY <1>1, <2>1, ImageIsFinite
<1> HIDE DEF fields
<1>7. IsFiniteSet(SidePots(g))
  <2> DEFINE f == [E \in fields |-> [contenders |-> E, amount |-> amountOf(E)]]
  <2>1. SidePots(g) \subseteq {f[E] : E \in fields}
    BY <1>3
  <2> HIDE DEF f
  <2> QED BY <1>6, <2>1, ImageIsFinite
<1>8. \A p \in SidePots(g) : p.contenders \subseteq 1 .. n /\ p.amount \in Nat
  BY <1>3, <1>4, <1>5
<1> QED BY <1>7, <1>8

\* What a showdown pays: finitely many credits, of whole chips, to seats.
LEMMA PayoutsAre ==
  ASSUME NEW N, NEW n \in Nat, NEW g \in Games(n, N), NEW strength
  PROVE  /\ IsFiniteSet(Payouts(g, strength))
         /\ Payouts(g, strength) \subseteq PayoutRecords(n, N)
<1> DEFINE won(pot) == WinnersOf(pot.contenders, strength)
           times(pot) == Cardinality(won(pot))
           credit(pot, i) == [pot |-> pot.contenders, seat |-> i,
                              winner |-> g.seats[i].name, times |-> times(pot),
                              amount |-> pot.amount \div (times(pot) * times(pot))]
           paidTo(pot) == {credit(pot, i) : i \in won(pot)}
           pots == {p \in SidePots(g) : p.contenders # {}}
           all == {paidTo(pot) : pot \in pots}
<1>1. Payouts(g, strength) = UNION all
  BY Zenon DEF Payouts
<1>2. ASSUME NEW pot \in pots
      PROVE  /\ pot.contenders \subseteq 1 .. n /\ pot.amount \in Nat
             /\ won(pot) \subseteq 1 .. n
             /\ IsFiniteSet(won(pot)) /\ times(pot) \in Nat
  <2>1. pot.contenders \subseteq 1 .. n /\ pot.amount \in Nat
    BY SidePotsAre
  <2>2. won(pot) \subseteq 1 .. n
    BY <2>1 DEF WinnersOf
  <2>3. IsFiniteSet(1 .. n)
    BY FS_Interval
  <2> HIDE DEF won
  <2> QED BY <2>1, <2>2, <2>3, FS_Subset, FS_CardinalityType
<1> HIDE DEF won
<1>3. ASSUME NEW pot \in pots, NEW i \in won(pot)
      PROVE  credit(pot, i) \in PayoutRecords(n, N)
  <2>1. PICK t \in Nat : t = times(pot)
    BY <1>2
  <2>2. t # 0
    <3>1. won(pot) # {}
      OBVIOUS
    <3> QED BY <1>2, <2>1, <3>1, FS_EmptySet
  <2>3. t * t \in Nat /\ t * t > 0
    BY <2>2
  <2>4. PICK x \in Nat : x = pot.amount \div (t * t)
    BY <1>2, <2>3, Division
  <2>5. g.seats[i].name \in N /\ i \in 1 .. n
    BY <1>2, SeatsOf DEF PlayerRecords
  <2>6. credit(pot, i) = [pot |-> pot.contenders, seat |-> i,
                          winner |-> g.seats[i].name, times |-> t, amount |-> x]
    BY <2>1, <2>4
  <2> HIDE DEF credit
  <2> QED BY <1>2, <2>5, <2>6 DEF PayoutRecords
<1>4. Payouts(g, strength) \subseteq PayoutRecords(n, N)
  <2> HIDE DEF credit, pots
  <2> QED BY <1>1, <1>3
<1>5. IsFiniteSet(all)
  <2> DEFINE f == [pot \in pots |-> paidTo(pot)]
  <2>1. IsFiniteSet(pots)
    BY SidePotsAre, FS_Subset
  <2>2. all \subseteq {f[pot] : pot \in pots}
    OBVIOUS
  <2> HIDE DEF f, all, pots
  <2> QED BY <2>1, <2>2, ImageIsFinite
<1>6. ASSUME NEW pot \in pots
      PROVE  IsFiniteSet(paidTo(pot))
  <2> DEFINE f == [i \in won(pot) |-> credit(pot, i)]
  <2>1. paidTo(pot) \subseteq {f[i] : i \in won(pot)}
    OBVIOUS
  <2> HIDE DEF f, paidTo
  <2> QED BY <1>2, <2>1, ImageIsFinite
<1>7. \A T \in all : IsFiniteSet(T)
  <2> HIDE DEF paidTo, pots
  <2> QED BY <1>6
<1>8. IsFiniteSet(UNION all)
  <2> HIDE DEF all
  <2> QED BY <1>5, <1>7, FS_UNION
<1> QED BY <1>1, <1>4, <1>8

\* Who contends for the layers, and what the layers of one field hold.
Fields(g) == {LayerOf(g, l).contenders : l \in Levels(g)}
Held(g, E) == SumFunctionOnSet(Layers(g), {l \in Levels(g) : LayerOf(g, l).contenders = E})

\* There is a side pot for every field, of the layers it contends for.
LEMMA SidePotsHold ==
  ASSUME NEW N, NEW n \in Nat, NEW g \in Games(n, N)
  PROVE  SidePots(g) = {[contenders |-> E, amount |-> Held(g, E)] : E \in Fields(g)}
<1> DEFINE layers == {[level |-> l, layer |-> LayerOf(g, l)] : l \in Levels(g)}
           of(E) == {x \in layers : x.layer.contenders = E}
           amountOf(E) == SumOver(of(E), LAMBDA x : x.layer.amount)
           fields == {x.layer.contenders : x \in layers}
           levels(E) == {l \in Levels(g) : LayerOf(g, l).contenders = E}
<1>1. SidePots(g) = {[contenders |-> E, amount |-> amountOf(E)] : E \in fields}
  BY Zenon DEF SidePots
<1>2. IsFiniteSet(layers)
  <2> DEFINE f == [l \in Levels(g) |-> [level |-> l, layer |-> LayerOf(g, l)]]
  <2>1. layers \subseteq {f[l] : l \in Levels(g)}
    OBVIOUS
  <2> HIDE DEF f, layers
  <2> QED BY <2>1, LevelsAre, ImageIsFinite
<1>3. ASSUME NEW x \in layers
      PROVE  x.level \in Levels(g) /\ x.layer = LayerOf(g, x.level)
             /\ x = [level |-> x.level, layer |-> LayerOf(g, x.level)]
  OBVIOUS
<1>4. ASSUME NEW l \in Levels(g)
      PROVE  \E x \in layers : x.level = l
  <2>1. [level |-> l, layer |-> LayerOf(g, l)] \in layers
    OBVIOUS
  <2> QED BY <2>1
<1> HIDE DEF layers
<1>5. ASSUME NEW E
      PROVE  amountOf(E) = Held(g, E)
  <2>1. PICK f, key : /\ f = [x \in of(E) |-> x.layer.amount]
                      /\ key = [x \in of(E) |-> x.level]
    OBVIOUS
  <2>2. amountOf(E) = SumFunctionOnSet(f, of(E))
    BY <2>1 DEF SumOver
  <2>3. IsFiniteSet(of(E))
    BY <1>2, FS_Subset
  <2>4. \A x \in of(E) : f[x] \in Int /\ Layers(g)[key[x]] = f[x]
    BY <1>3, <2>1, LayerOfIs DEF Layers
  <2>5. \A x, y \in of(E) : key[x] = key[y] => x = y
    BY <1>3, <2>1
  <2>6. {key[x] : x \in of(E)} = levels(E)
    BY <1>3, <1>4, <2>1
  <2> HIDE DEF of, levels
  <2>7. SumFunctionOnSet(Layers(g), {key[x] : x \in of(E)}) = SumFunctionOnSet(f, of(E))
    BY <2>3, <2>4, <2>5, SumRenamed
  <2> QED BY <2>2, <2>6, <2>7 DEF Held, levels
<1>6. fields = Fields(g)
  BY <1>3, <1>4 DEF Fields
<1> HIDE DEF amountOf, fields
<1>7. \A E \in Fields(g) : [contenders |-> E, amount |-> amountOf(E)]
                             = [contenders |-> E, amount |-> Held(g, E)]
  BY <1>5
<1> QED BY <1>1, <1>6, <1>7

\* A pot holds a number of chips.
LEMMA HeldIs ==
  ASSUME NEW N, NEW n \in Nat, NEW g \in Games(n, N), NEW E
  PROVE  Held(g, E) \in Nat
<1>1. PICK T : T = {l \in Levels(g) : LayerOf(g, l).contenders = E}
  OBVIOUS
<1>2. IsFiniteSet(T) /\ \A l \in T : Layers(g)[l] \in Nat
  BY <1>1, LevelsAre, LayerOfIs, FS_Subset DEF Layers
<1>3. SumFunctionOnSet(Layers(g), T) \in Nat
  BY <1>2, SumNat
<1> QED BY <1>1, <1>3 DEF Held

\* What the pots of some fields hold are the layers those fields contend for.
LEMMA FieldsHold ==
  ASSUME NEW N, NEW n \in Nat, NEW g \in Games(n, N),
         NEW K \in SUBSET Fields(g), NEW held, \A E \in K : held[E] = Held(g, E)
  PROVE  /\ IsFiniteSet(K)
         /\ SumFunctionOnSet(held, K)
              = SumFunctionOnSet(Layers(g), {l \in Levels(g) : LayerOf(g, l).contenders \in K})
<1>1. PICK key : key = [l \in Levels(g) |-> LayerOf(g, l).contenders]
  OBVIOUS
<1>2. PICK L, f : L = Levels(g) /\ f = Layers(g)
  OBVIOUS
<1>3. IsFiniteSet(L) /\ \A l \in L : f[l] \in Int /\ f[l] \in Nat
  BY <1>2, LevelsAre, LayerOfIs DEF Layers
<1>4. IsFiniteSet(K)
  <2>1. K \subseteq {key[l] : l \in L}
    BY <1>1, <1>2 DEF Fields
  <2> QED BY <1>3, <2>1, ImageIsFinite
<1>5. \A E : {l \in Levels(g) : LayerOf(g, l).contenders = E} = KeyedAs(L, key, E)
  BY <1>1, <1>2 DEF KeyedAs
<1>6. \A E : Held(g, E) = SumFunctionOnSet(f, KeyedAs(L, key, E))
  BY <1>2, <1>5 DEF Held
<1>7. \A E \in K : held[E] = SumFunctionOnSet(f, KeyedAs(L, key, E))
  BY <1>6
<1>8. SumFunctionOnSet(held, K) = SumFunctionOnSet(f, Keyed(L, key, K))
  BY <1>3, <1>4, <1>7, SumByGroups
<1>9. {l \in Levels(g) : LayerOf(g, l).contenders \in K} = Keyed(L, key, K)
  BY <1>1, <1>2 DEF Keyed
<1> QED BY <1>2, <1>4, <1>8, <1>9

\* A payment is one winner's share of one contested pot, and every winner of
\* every contested pot gets one.
LEMMA PayoutsShare ==
  ASSUME NEW N, NEW n \in Nat, NEW g \in Games(n, N), NEW strength
  PROVE  /\ \A p \in Payouts(g, strength) :
              /\ p.pot \in Fields(g) /\ p.pot # {}
              /\ p.seat \in WinnersOf(p.pot, strength)
              /\ p.winner = g.seats[p.seat].name
              /\ p.times = Cardinality(WinnersOf(p.pot, strength))
              /\ p.amount = Held(g, p.pot) \div (p.times * p.times)
         /\ \A E \in Fields(g) : E # {} => \A i \in WinnersOf(E, strength) :
              \E p \in Payouts(g, strength) : p.pot = E /\ p.seat = i
         /\ \A p, q \in Payouts(g, strength) : p.pot = q.pot /\ p.seat = q.seat => p = q
<1> DEFINE won(pot) == WinnersOf(pot.contenders, strength)
           times(pot) == Cardinality(won(pot))
           credit(pot, i) == [pot |-> pot.contenders, seat |-> i,
                              winner |-> g.seats[i].name, times |-> times(pot),
                              amount |-> pot.amount \div (times(pot) * times(pot))]
           paidTo(pot) == {credit(pot, i) : i \in won(pot)}
           pots == {p \in SidePots(g) : p.contenders # {}}
<1>1. Payouts(g, strength) = UNION {paidTo(pot) : pot \in pots}
  BY Zenon DEF Payouts
<1>2. ASSUME NEW pot \in pots
      PROVE  /\ pot.contenders \in Fields(g) /\ pot.contenders # {}
             /\ pot.amount = Held(g, pot.contenders)
  BY SidePotsHold
<1>3. ASSUME NEW E \in Fields(g), E # {}
      PROVE  \E pot \in pots : pot.contenders = E /\ pot.amount = Held(g, E)
  <2>1. [contenders |-> E, amount |-> Held(g, E)] \in SidePots(g)
    BY SidePotsHold
  <2> QED BY <1>3, <2>1
<1> HIDE DEF pots
<1>4. ASSUME NEW pot, NEW i
      PROVE  /\ credit(pot, i).pot = pot.contenders /\ credit(pot, i).seat = i
             /\ credit(pot, i).winner = g.seats[i].name
             /\ credit(pot, i).times = times(pot)
             /\ credit(pot, i).amount = pot.amount \div (times(pot) * times(pot))
  OBVIOUS
<1>5. ASSUME NEW p \in Payouts(g, strength)
      PROVE  /\ p.pot \in Fields(g) /\ p.pot # {}
             /\ p.seat \in WinnersOf(p.pot, strength)
             /\ p.winner = g.seats[p.seat].name
             /\ p.times = Cardinality(WinnersOf(p.pot, strength))
             /\ p.amount = Held(g, p.pot) \div (p.times * p.times)
             /\ p = [pot |-> p.pot, seat |-> p.seat, winner |-> p.winner,
                     times |-> p.times, amount |-> p.amount]
  <2>1. PICK pot \in pots : p \in paidTo(pot)
    BY <1>1
  <2>2. PICK i \in won(pot) : p = credit(pot, i)
    BY <2>1
  <2>3. p.pot = pot.contenders /\ p.seat = i /\ p.winner = g.seats[i].name
        /\ p.times = times(pot) /\ p.amount = pot.amount \div (times(pot) * times(pot))
    BY <1>4, <2>2
  <2>4. p = [pot |-> p.pot, seat |-> p.seat, winner |-> p.winner,
             times |-> p.times, amount |-> p.amount]
    BY <2>2
  <2> QED BY <1>2, <2>3, <2>4
<1>6. ASSUME NEW E \in Fields(g), E # {}, NEW i \in WinnersOf(E, strength)
      PROVE  \E p \in Payouts(g, strength) : p.pot = E /\ p.seat = i
  <2>1. PICK pot \in pots : pot.contenders = E
    BY <1>3, <1>6
  <2>2. credit(pot, i) \in paidTo(pot)
    BY <2>1
  <2>3. credit(pot, i) \in Payouts(g, strength)
    <3> HIDE DEF paidTo, credit
    <3> QED BY <1>1, <2>2
  <2>4. credit(pot, i).pot = E /\ credit(pot, i).seat = i
    BY <1>4, <2>1
  <2> HIDE DEF credit
  <2> QED BY <2>3, <2>4
<1>7. ASSUME NEW p \in Payouts(g, strength), NEW q \in Payouts(g, strength),
             p.pot = q.pot, p.seat = q.seat
      PROVE  p = q
  <2>1. p.winner = q.winner /\ p.times = q.times /\ p.amount = q.amount
    BY <1>5, <1>7
  <2>2. p = [pot |-> p.pot, seat |-> p.seat, winner |-> p.winner,
             times |-> p.times, amount |-> p.amount]
    BY <1>5
  <2>3. q = [pot |-> q.pot, seat |-> q.seat, winner |-> q.winner,
             times |-> q.times, amount |-> q.amount]
    BY <1>5
  <2> QED BY <1>7, <2>1, <2>2, <2>3
<1> QED BY <1>5, <1>6, <1>7

\* Of a pot split t ways every winner is paid t times a t * t-th of it.
LEMMA ShareWithin ==
  ASSUME NEW t \in Nat, t > 0, NEW x \in Nat
  PROVE  /\ x \div (t * t) \in Nat
         /\ t * (x \div (t * t)) \in Nat
         /\ t * (x \div (t * t)) <= x
         /\ t = 1 => t * (x \div (t * t)) = x
<1>1. PICK s \in Nat : s = t * t
  OBVIOUS
<1>2. s > 0 /\ s >= t
  <2>1. (t - 1) * t >= 0
    OBVIOUS
  <2>2. (t - 1) * t = t * t - t
    OBVIOUS
  <2> QED BY <1>1, <2>1, <2>2
<1>3. x \div s \in Nat /\ x % s \in 0 .. s - 1 /\ x = (x \div s) * s + (x % s)
  BY <1>2, Division
<1>4. PICK q \in Nat, r \in Nat : q = x \div s /\ r = x % s
  BY <1>3
<1>5. x = q * s + r
  BY <1>3, <1>4
<1>6. q * t <= q * s
  <2>1. q * (s - t) >= 0
    BY <1>2
  <2>2. q * (s - t) = q * s - q * t
    OBVIOUS
  <2>3. q * s \in Nat /\ q * t \in Nat
    OBVIOUS
  <2> QED BY <2>1, <2>2, <2>3
<1>7. q * t <= x
  <2>1. q * s \in Nat /\ q * t \in Nat
    OBVIOUS
  <2> QED BY <1>5, <1>6, <2>1
<1>8. t = 1 => q = x
  <2>1. t = 1 => s = 1 /\ x % 1 = 0
    BY <1>1
  <2> QED BY <1>3, <1>4, <1>5, <2>1
<1>9. t * q = q * t /\ t * q \in Nat
  OBVIOUS
<1>10. x \div (t * t) = q
  BY <1>1, <1>4
<1> QED BY <1>7, <1>8, <1>9, <1>10

\* What a payment brings, beside what its pot held.
LEMMA PaymentIs ==
  ASSUME NEW N, NEW n \in Nat, NEW g \in Games(n, N), NEW strength,
         NEW p \in Payouts(g, strength)
  PROVE  /\ p.times * p.amount \in Nat
         /\ p.times * p.amount <= Held(g, p.pot)
         /\ p.times = 1 => p.times * p.amount = Held(g, p.pot)
         /\ p.seat \in p.pot /\ p.pot \subseteq ActiveSeats(g)
         /\ p.seat \in 1 .. n
<1>1. /\ p.pot \in Fields(g) /\ p.seat \in WinnersOf(p.pot, strength)
      /\ p.times = Cardinality(WinnersOf(p.pot, strength))
      /\ p.amount = Held(g, p.pot) \div (p.times * p.times)
  BY PayoutsShare
<1>2. p.pot \subseteq ActiveSeats(g) /\ ActiveSeats(g) \subseteq 1 .. n
  <2>1. PICK l \in Levels(g) : p.pot = LayerOf(g, l).contenders
    BY <1>1 DEF Fields
  <2>2. p.pot \subseteq ActiveSeats(g)
    BY <2>1, LayerCounts
  <2> QED BY <2>2, PartsOfSeats
<1>3. p.seat \in p.pot
  BY <1>1 DEF WinnersOf
<1>4. p.times \in Nat /\ p.times > 0
  <2>1. PICK W : W = WinnersOf(p.pot, strength)
    OBVIOUS
  <2>2. W \subseteq 1 .. n /\ IsFiniteSet(1 .. n)
    BY <1>2, <2>1, FS_Interval DEF WinnersOf
  <2>3. IsFiniteSet(W) /\ Cardinality(W) \in Nat /\ W # {}
    BY <1>1, <2>1, <2>2, FS_Subset, FS_CardinalityType
  <2>4. Cardinality(W) # 0
    BY <2>3, FS_EmptySet
  <2> QED BY <1>1, <2>1, <2>3, <2>4
<1>5. Held(g, p.pot) \in Nat
  BY HeldIs
<1>6. PICK t \in Nat, x \in Nat : t = p.times /\ x = Held(g, p.pot) /\ t > 0
  BY <1>4, <1>5
<1>7. p.times * p.amount = t * (x \div (t * t))
  BY <1>1, <1>6
<1>8. /\ t * (x \div (t * t)) \in Nat
      /\ t * (x \div (t * t)) <= x
      /\ t = 1 => t * (x \div (t * t)) = x
  BY <1>6, ShareWithin
<1> QED BY <1>2, <1>3, <1>6, <1>7, <1>8

\* The layers of some fields, when all of them lie below a level.
LEMMA PaidFromBelow ==
  ASSUME NEW N, NEW n \in Nat, NEW g \in Games(n, N), NEW strength,
         NEW T \in SUBSET Payouts(g, strength), NEW f,
         \A p \in T : f[p] = p.times * p.amount,
         \A p, q \in T : p.pot = q.pot => p = q,
         NEW c \in Levels(g) \cup {0},
         \A p \in T : \E i \in p.pot : g.seats[i].totalBet <= c
  PROVE  SumFunctionOnSet(f, T) <= SumFunctionOnSet(UpTo(g, c), 1 .. n)
<1>1. PICK h, key, held : /\ h = [p \in T |-> Held(g, p.pot)]
                          /\ key = [p \in T |-> p.pot]
                          /\ held = [E \in Fields(g) |-> Held(g, E)]
  OBVIOUS
<1>2. PICK K : K = {key[p] : p \in T}
  OBVIOUS
<1>3. IsFiniteSet(T)
  BY PayoutsAre, FS_Subset
<1>4. ASSUME NEW p \in T
      PROVE  /\ p.pot \in Fields(g) /\ h[p] = Held(g, p.pot) /\ key[p] = p.pot
             /\ held[key[p]] = h[p] /\ h[p] \in Int
             /\ f[p] \in Int /\ f[p] <= h[p]
  <2>1. p.pot \in Fields(g)
    BY PayoutsShare
  <2>2. h[p] = Held(g, p.pot) /\ key[p] = p.pot /\ held[p.pot] = Held(g, p.pot)
    BY <1>1, <2>1
  <2>3. f[p] \in Nat /\ f[p] <= Held(g, p.pot)
    BY PaymentIs
  <2>4. Held(g, p.pot) \in Nat
    BY HeldIs
  <2> QED BY <2>1, <2>2, <2>3, <2>4
<1>5. K \in SUBSET Fields(g) /\ \A E \in K : held[E] = Held(g, E)
  BY <1>2, <1>4
<1>6. SumFunctionOnSet(f, T) <= SumFunctionOnSet(h, T)
  BY <1>3, <1>4, SumAtMost
<1>7. SumFunctionOnSet(held, K) = SumFunctionOnSet(h, T)
  <2>1. \A p \in T : h[p] \in Int /\ held[key[p]] = h[p]
    BY <1>4
  <2>2. \A p, q \in T : key[p] = key[q] => p = q
    BY <1>4
  <2>3. SumFunctionOnSet(held, {key[p] : p \in T}) = SumFunctionOnSet(h, T)
    BY <1>3, <2>1, <2>2, SumRenamed
  <2> QED BY <1>2, <2>3
<1>8. PICK A, B : /\ A = {l \in Levels(g) : LayerOf(g, l).contenders \in K}
                  /\ B = {l \in Levels(g) : l <= c}
  OBVIOUS
<1>9. SumFunctionOnSet(held, K) = SumFunctionOnSet(Layers(g), A)
  <2>1. SumFunctionOnSet(held, K)
          = SumFunctionOnSet(Layers(g), {l \in Levels(g) : LayerOf(g, l).contenders \in K})
    BY <1>5, FieldsHold
  <2> QED BY <1>8, <2>1
<1>10. A \in SUBSET B
  <2>1. ASSUME NEW l \in A
        PROVE  l \in B
    <3>1. l \in Levels(g) /\ LayerOf(g, l).contenders \in K
      BY <1>8
    <3>2. PICK p \in T : p.pot = LayerOf(g, l).contenders
      BY <1>2, <1>4, <3>1
    <3>3. PICK i \in LayerOf(g, l).contenders : g.seats[i].totalBet <= c
      BY <3>2
    <3>4. i \in ActiveSeats(g) /\ g.seats[i].totalBet >= l
      <4>1. LayerOf(g, l).contenders = {j \in ActiveSeats(g) : g.seats[j].totalBet >= l}
        BY <3>1, ContendersAre
      <4> QED BY <3>3, <4>1
    <3>5. g.seats[i].totalBet \in Nat
      BY <3>4, PartsOfSeats, SeatsOf DEF PlayerRecords
    <3>6. l \in Nat /\ c \in Nat
      BY <3>1, LevelsAre
    <3> QED BY <1>8, <3>1, <3>3, <3>4, <3>5, <3>6
  <2> QED BY <2>1
<1>11. SumFunctionOnSet(Layers(g), A) <= SumFunctionOnSet(Layers(g), B)
  <2>1. IsFiniteSet(B) /\ \A l \in B : Layers(g)[l] \in Nat
    BY <1>8, LevelsAre, LayerOfIs, FS_Subset DEF Layers
  <2> QED BY <1>10, <2>1, SumOfFewer
<1>12. SumFunctionOnSet(Layers(g), B) = SumFunctionOnSet(UpTo(g, c), 1 .. n)
  BY <1>8, LayersBelow
<1>13. /\ SumFunctionOnSet(f, T) \in Int /\ SumFunctionOnSet(h, T) \in Int
       /\ SumFunctionOnSet(Layers(g), B) \in Int
  <2>1. IsFiniteSet(B) /\ \A l \in B : Layers(g)[l] \in Int
    BY <1>8, LevelsAre, LayerOfIs, FS_Subset DEF Layers
  <2> QED BY <1>3, <1>4, <2>1, SumType
<1> QED BY <1>6, <1>7, <1>9, <1>11, <1>12, <1>13

\* A seat wins no more of anyone than it put in.
LEMMA WonWithinReach ==
  ASSUME NEW N, NEW n \in Nat, NEW g \in Games(n, N), NEW strength, NEW i \in 1 .. n
  PROVE  WonBySeat(Payouts(g, strength), i)
           <= SumFunctionOnSet(UpTo(g, g.seats[i].totalBet), 1 .. n)
<1>1. PICK T, f : /\ T = {p \in Payouts(g, strength) : p.seat = i}
                  /\ f = [p \in T |-> p.times * p.amount]
  OBVIOUS
<1>2. WonBySeat(Payouts(g, strength), i) = SumFunctionOnSet(f, T)
  BY <1>1 DEF WonBySeat, SumOver
<1>3. T \in SUBSET Payouts(g, strength) /\ \A p \in T : f[p] = p.times * p.amount
  BY <1>1
<1>4. \A p, q \in T : p.pot = q.pot => p = q
  BY <1>1, PayoutsShare
<1>5. PICK c \in Levels(g) \cup {0} : c = g.seats[i].totalBet
  <2>1. Seats(g) = 1 .. n /\ g.seats[i].totalBet \in Nat
    BY SeatsOf DEF PlayerRecords
  <2> QED BY <2>1 DEF Levels, Contributors
<1>6. ASSUME NEW p \in T
      PROVE  \E j \in p.pot : g.seats[j].totalBet <= c
  <2>1. p.seat \in p.pot /\ p.seat = i
    BY <1>1, PaymentIs
  <2>2. g.seats[i].totalBet \in Nat
    BY SeatsOf DEF PlayerRecords
  <2> QED BY <1>5, <2>1, <2>2
<1>7. SumFunctionOnSet(f, T) <= SumFunctionOnSet(UpTo(g, c), 1 .. n)
  BY <1>3, <1>4, <1>6, PaidFromBelow
<1> QED BY <1>2, <1>5, <1>7

\* Somebody wins every contested pot.
LEMMA SomebodyWins ==
  ASSUME NEW N, NEW n \in Nat, NEW g \in Games(n, N), NEW strength \in Rankings(g),
         NEW E \in SUBSET ActiveSeats(g), E # {}
  PROVE  WinnersOf(E, strength) # {}
<1>1. IsFiniteSet(E) /\ Cardinality(ActiveSeats(g)) \in Nat
  BY PartsOfSeats, FS_Subset
<1>2. \A i \in E : strength[i] \in Nat
  BY <1>1 DEF Rankings
<1>3. PICK V : V = {strength[i] : i \in E}
  OBVIOUS
<1>4. V \in SUBSET Nat /\ V # {} /\ IsFiniteSet(V)
  <2>1. V \subseteq {strength[i] : i \in E}
    BY <1>3
  <2>2. IsFiniteSet(V)
    BY <1>1, <2>1, ImageIsFinite
  <2> QED BY <1>2, <1>3, <2>2
<1>5. Max(V) \in V /\ \A v \in V : v <= Max(V)
  BY <1>4, MaxIs
<1>6. PICK i \in E : strength[i] = Max(V)
  BY <1>3, <1>5
<1>7. \A j \in E : strength[j] <= strength[i]
  BY <1>3, <1>5, <1>6
<1> QED BY <1>7 DEF WinnersOf

\* The highest bet of those still in, and the levels somebody contends for.
TopBet(g) == Max({g.seats[i].totalBet : i \in ActiveSeats(g)})

LEMMA TopBetIs ==
  ASSUME NEW N, NEW n \in Nat, NEW g \in Games(n, N), ActiveSeats(g) # {}
  PROVE  /\ TopBet(g) \in Levels(g) \cup {0}
         /\ TopBet(g) \in Nat
         /\ \A l \in Levels(g) : LayerOf(g, l).contenders # {} <=> l <= TopBet(g)
<1>1. PICK V : V = {g.seats[i].totalBet : i \in ActiveSeats(g)}
  OBVIOUS
<1>2. /\ ActiveSeats(g) \subseteq 1 .. n /\ IsFiniteSet(ActiveSeats(g)) /\ Seats(g) = 1 .. n
      /\ \A i \in 1 .. n : g.seats[i].totalBet \in Nat
  BY PartsOfSeats, SeatsOf DEF PlayerRecords
<1>3. V \in SUBSET Nat /\ V # {} /\ IsFiniteSet(V)
  <2> DEFINE f == [i \in ActiveSeats(g) |-> g.seats[i].totalBet]
  <2>1. V \subseteq {f[i] : i \in ActiveSeats(g)}
    BY <1>1
  <2> HIDE DEF f
  <2>2. IsFiniteSet(V)
    BY <1>2, <2>1, ImageIsFinite
  <2> QED BY <1>1, <1>2, <2>2
<1>4. Max(V) \in V /\ \A v \in V : v <= Max(V)
  BY <1>3, MaxIs
<1>5. TopBet(g) = Max(V)
  BY <1>1 DEF TopBet
<1>6. PICK m \in ActiveSeats(g) : TopBet(g) = g.seats[m].totalBet
  BY <1>1, <1>4, <1>5
<1>7. TopBet(g) \in Levels(g) \cup {0} /\ TopBet(g) \in Nat
  BY <1>2, <1>6 DEF Levels, Contributors
<1>8. ASSUME NEW l \in Levels(g)
      PROVE  LayerOf(g, l).contenders # {} <=> l <= TopBet(g)
  <2>1. LayerOf(g, l).contenders = {i \in ActiveSeats(g) : g.seats[i].totalBet >= l}
    BY ContendersAre
  <2>2. l \in Nat
    BY LevelsAre
  <2>3. ASSUME l <= TopBet(g)
        PROVE  m \in LayerOf(g, l).contenders
    BY <1>2, <1>6, <2>1, <2>2, <2>3
  <2>4. ASSUME NEW i \in LayerOf(g, l).contenders
        PROVE  l <= TopBet(g)
    <3>1. i \in ActiveSeats(g) /\ g.seats[i].totalBet >= l
      BY <2>1
    <3>2. g.seats[i].totalBet <= TopBet(g) /\ g.seats[i].totalBet \in Nat
      BY <1>1, <1>2, <1>4, <1>5, <3>1
    <3> QED BY <1>7, <2>2, <3>1, <3>2
  <2> QED BY <2>3, <2>4
<1> QED BY <1>7, <1>8

\* Seat by seat the winnings are what all the payments come to.
LEMMA WonSeatBySeat ==
  ASSUME NEW n \in Nat, NEW T, IsFiniteSet(T), NEW f, NEW won,
         \A p \in T : f[p] = p.times * p.amount /\ f[p] \in Int /\ p.seat \in 1 .. n,
         \A i \in 1 .. n : won[i] = WonBySeat(T, i)
  PROVE  SumFunctionOnSet(won, 1 .. n) = SumFunctionOnSet(f, T)
<1>1. PICK seat, S : seat = [p \in T |-> p.seat] /\ S = 1 .. n
  OBVIOUS
<1>2. ASSUME NEW i \in S
      PROVE  won[i] = SumFunctionOnSet(f, KeyedAs(T, seat, i))
  <2>1. PICK U, h : /\ U = {p \in T : p.seat = i}
                    /\ h = [p \in U |-> p.times * p.amount]
    OBVIOUS
  <2>2. WonBySeat(T, i) = SumFunctionOnSet(h, U)
    BY <2>1 DEF WonBySeat, SumOver
  <2>3. U = KeyedAs(T, seat, i)
    BY <1>1, <2>1 DEF KeyedAs
  <2>4. IsFiniteSet(U) /\ \A p \in U : h[p] = f[p]
    BY <2>1, FS_Subset
  <2>5. SumFunctionOnSet(h, U) = SumFunctionOnSet(f, U)
    BY <2>4, SumSame
  <2> QED BY <1>1, <2>2, <2>3, <2>5
<1>3. \A p \in T : f[p] \in Int
  OBVIOUS
<1>4. IsFiniteSet(S)
  BY <1>1, FS_Interval
<1>5. \A i \in S : won[i] = SumFunctionOnSet(f, KeyedAs(T, seat, i))
  BY <1>2
<1>6. SumFunctionOnSet(won, S) = SumFunctionOnSet(f, Keyed(T, seat, S))
  BY <1>3, <1>4, <1>5, SumByGroups
<1>7. Keyed(T, seat, S) = T
  BY <1>1 DEF Keyed
<1> QED BY <1>1, <1>6, <1>7

\* Without ties the winners take together what was put in up to the highest
\* bet of those still in.
LEMMA WonInAll ==
  ASSUME NEW N, NEW n \in Nat, NEW g \in Games(n, N), NEW strength \in Rankings(g),
         ActiveSeats(g) # {},
         \A p \in Payouts(g, strength) : p.times = 1,
         NEW won, \A i \in 1 .. n : won[i] = WonBySeat(Payouts(g, strength), i)
  PROVE  SumFunctionOnSet(won, 1 .. n) = SumFunctionOnSet(UpTo(g, TopBet(g)), 1 .. n)
<1>1. PICK T : T = Payouts(g, strength)
  OBVIOUS
<1>2. PICK f, pot, held :
        /\ f = [p \in T |-> p.times * p.amount]
        /\ pot = [p \in T |-> p.pot]
        /\ held = [E \in Fields(g) |-> Held(g, E)]
  OBVIOUS
<1>3. IsFiniteSet(T) /\ IsFiniteSet(1 .. n)
  BY <1>1, PayoutsAre, FS_Interval
<1>4. ASSUME NEW p \in T
      PROVE  /\ f[p] = p.times * p.amount /\ f[p] \in Int
             /\ f[p] = Held(g, p.pot)
             /\ p.pot \in Fields(g) /\ p.pot # {} /\ p.seat \in 1 .. n
             /\ pot[p] = p.pot /\ held[pot[p]] = f[p]
  <2>1. f[p] = p.times * p.amount /\ pot[p] = p.pot
    BY <1>2
  <2>2. /\ p.times * p.amount \in Nat /\ p.times * p.amount = Held(g, p.pot)
        /\ p.seat \in 1 .. n
    BY <1>1, PaymentIs
  <2>3. p.pot \in Fields(g) /\ p.pot # {}
    BY <1>1, PayoutsShare
  <2>4. held[p.pot] = Held(g, p.pot)
    BY <1>2, <2>3
  <2> QED BY <2>1, <2>2, <2>3, <2>4
<1>5. SumFunctionOnSet(won, 1 .. n) = SumFunctionOnSet(f, T)
  <2>1. \A p \in T : f[p] = p.times * p.amount /\ f[p] \in Int /\ p.seat \in 1 .. n
    BY <1>4
  <2>2. \A i \in 1 .. n : won[i] = WonBySeat(T, i)
    BY <1>1
  <2> QED BY <1>3, <2>1, <2>2, WonSeatBySeat
\* There is one payment for each contested pot.
<1>6. PICK K : K = {pot[p] : p \in T}
  OBVIOUS
<1>7. SumFunctionOnSet(held, K) = SumFunctionOnSet(f, T)
  <2>1. \A p \in T : f[p] \in Int /\ held[pot[p]] = f[p]
    BY <1>4
  <2>2. ASSUME NEW p \in T, NEW q \in T, pot[p] = pot[q]
        PROVE  p = q
    <3>1. PICK W : W = WinnersOf(p.pot, strength)
      OBVIOUS
    <3>2. p.pot = q.pot
      BY <1>4, <2>2
    <3>3. p.seat \in W /\ q.seat \in W /\ Cardinality(W) = 1
      BY <1>1, <3>1, <3>2, PayoutsShare
    <3>4. IsFiniteSet(W)
      <4>1. p.pot \subseteq ActiveSeats(g) /\ IsFiniteSet(ActiveSeats(g))
        BY <1>1, PaymentIs, PartsOfSeats
      <4>2. W \subseteq ActiveSeats(g)
        BY <3>1, <4>1 DEF WinnersOf
      <4> QED BY <4>1, <4>2, FS_Subset
    <3>5. p.seat = q.seat
      BY <3>3, <3>4, FS_Singleton
    <3> QED BY <1>1, <3>2, <3>5, PayoutsShare
  <2>3. \A p, q \in T : pot[p] = pot[q] => p = q
    BY <2>2
  <2>4. SumFunctionOnSet(held, {pot[p] : p \in T}) = SumFunctionOnSet(f, T)
    BY <1>3, <2>1, <2>3, SumRenamed
  <2> QED BY <1>6, <2>4
<1>8. ASSUME NEW E
      PROVE  E \in K <=> E \in Fields(g) /\ E # {}
  <2>1. ASSUME E \in K
        PROVE  E \in Fields(g) /\ E # {}
    <3>1. PICK p \in T : E = pot[p]
      BY <1>6, <2>1
    <3> QED BY <1>4, <3>1
  <2>2. ASSUME E \in Fields(g), E # {}
        PROVE  E \in K
    <3>1. E \in SUBSET ActiveSeats(g)
      <4>1. PICK l \in Levels(g) : E = LayerOf(g, l).contenders
        BY <2>2 DEF Fields
      <4>2. LayerOf(g, l).contenders = {i \in ActiveSeats(g) : g.seats[i].totalBet >= l}
        BY ContendersAre
      <4> QED BY <4>1, <4>2
    <3>2. PICK i : i \in WinnersOf(E, strength)
      BY <2>2, <3>1, SomebodyWins
    <3>3. PICK p \in Payouts(g, strength) : p.pot = E
      BY <2>2, <3>2, PayoutsShare
    <3>4. p \in T /\ pot[p] = E
      BY <1>1, <1>4, <3>3
    <3> QED BY <1>6, <3>4
  <2> QED BY <2>1, <2>2
<1>9. PICK A, B : /\ A = {l \in Levels(g) : LayerOf(g, l).contenders \in K}
                  /\ B = {l \in Levels(g) : l <= TopBet(g)}
  OBVIOUS
<1>10. SumFunctionOnSet(held, K) = SumFunctionOnSet(Layers(g), A)
  <2>1. K \in SUBSET Fields(g) /\ \A E \in K : held[E] = Held(g, E)
    BY <1>2, <1>8
  <2>2. SumFunctionOnSet(held, K)
          = SumFunctionOnSet(Layers(g), {l \in Levels(g) : LayerOf(g, l).contenders \in K})
    BY <2>1, FieldsHold
  <2> QED BY <1>9, <2>2
<1>11. A = B
  <2>1. \A l \in Levels(g) : LayerOf(g, l).contenders \in Fields(g)
    BY DEF Fields
  <2>2. \A l \in Levels(g) : LayerOf(g, l).contenders # {} <=> l <= TopBet(g)
    BY TopBetIs
  <2> QED BY <1>8, <1>9, <2>1, <2>2
<1>12. SumFunctionOnSet(Layers(g), B) = SumFunctionOnSet(UpTo(g, TopBet(g)), 1 .. n)
  <2>1. PICK c \in Levels(g) \cup {0} : c = TopBet(g)
    BY TopBetIs
  <2>2. SumFunctionOnSet(Layers(g), {l \in Levels(g) : l <= c})
          = SumFunctionOnSet(UpTo(g, c), 1 .. n)
    BY LayersBelow
  <2> QED BY <1>9, <2>1, <2>2
<1> QED BY <1>5, <1>7, <1>10, <1>11, <1>12

\* However many tie for a pot, they are paid no more than is in it.
LEMMA TiesShare ==
  ASSUME NEW N, NEW n \in Nat, NEW g \in Games(n, N), NEW strength, NEW E,
         NEW T, T = {p \in Payouts(g, strength) : p.pot = E},
         NEW f, \A p \in T : f[p] = p.times * p.amount
  PROVE  SumFunctionOnSet(f, T) <= Held(g, E)
<1>1. IsFiniteSet(T)
  BY PayoutsAre, FS_Subset
<1>2. PICK held \in Nat : held = Held(g, E)
  BY HeldIs
<1>3. CASE T = {}
  BY <1>2, <1>3, SumOfNothing
<1>4. CASE T # {}
  <2>1. PICK W : W = WinnersOf(E, strength)
    OBVIOUS
  <2>2. \A p \in T : /\ p.seat \in W /\ p.times = Cardinality(W)
                     /\ p.amount = held \div (p.times * p.times)
                     /\ p.pot \subseteq ActiveSeats(g)
    BY <1>2, <2>1, PayoutsShare, PaymentIs
  <2>3. \A p, q \in T : p.seat = q.seat => p = q
    BY PayoutsShare
  <2>4. IsFiniteSet(W)
    <3>1. E \subseteq ActiveSeats(g)
      BY <1>4, <2>2
    <3>2. W \subseteq ActiveSeats(g)
      BY <2>1, <3>1 DEF WinnersOf
    <3> QED BY <3>2, PartsOfSeats, FS_Subset
  <2>5. PICK t \in Nat : t = Cardinality(W) /\ t > 0
    <3>1. W # {}
      BY <1>4, <2>2
    <3>2. Cardinality(W) \in Nat /\ Cardinality(W) # 0
      BY <2>4, <3>1, FS_CardinalityType, FS_EmptySet
    <3> QED BY <3>2
  <2>6. PICK m \in Nat : m = Cardinality(T) /\ m <= t
    <3>1. PICK seat : seat = [p \in T |-> p.seat]
      OBVIOUS
    <3>2. seat \in Injection(T, W)
      BY <2>2, <2>3, <3>1 DEF Injection, IsInjective
    <3>3. Cardinality(T) <= Cardinality(W)
      BY <2>4, <3>2, FS_Injection
    <3> QED BY <1>1, <2>5, <3>3, FS_CardinalityType
  <2>7. PICK q \in Nat, k \in Nat : q = held \div (t * t) /\ k = t * q /\ k * t <= held
    <3>1. PICK d \in Nat : d = t * t /\ d > 0
      BY <2>5
    <3>2. PICK q \in Nat, r \in Nat : q = held \div d /\ held = q * d + r
      BY <3>1, Division
    <3>3. PICK k \in Nat : k = t * q
      OBVIOUS
    <3>4. k * t = q * d
      BY <3>1, <3>3
    <3>5. q * d \in Nat
      BY <3>1
    <3> QED BY <3>1, <3>2, <3>3, <3>4, <3>5
  <2>8. \A p \in T : f[p] = k
    <3>1. ASSUME NEW p \in T PROVE f[p] = k
      <4>1. p.times = t /\ p.amount = q
        BY <2>2, <2>5, <2>7
      <4> QED BY <2>7, <4>1
    <3> QED BY <3>1
  <2>9. SumFunctionOnSet(f, T) = k * m
    BY <1>1, <2>6, <2>8, SumConstant DEF Product
  <2>10. k * m <= k * t
    <3>1. k * (t - m) >= 0 /\ k * (t - m) = k * t - k * m /\ k * t \in Nat /\ k * m \in Nat
      BY <2>6
    <3> QED BY <3>1
  <2>11. k * m \in Nat /\ k * t \in Nat
    OBVIOUS
  <2> QED BY <1>2, <2>7, <2>9, <2>10, <2>11
<1> QED BY <1>3, <1>4

\* A showdown pays no more than was bet.
LEMMA WonAtMost ==
  ASSUME NEW N, NEW n \in Nat, NEW g \in Games(n, N), NEW strength,
         NEW won, \A i \in 1 .. n : won[i] = WonBySeat(Payouts(g, strength), i)
  PROVE  SumFunctionOnSet(won, 1 .. n) <= BetInAll(g)
<1>1. PICK T, f, pot, K :
        /\ T = Payouts(g, strength)
        /\ f = [p \in T |-> p.times * p.amount]
        /\ pot = [p \in T |-> p.pot]
        /\ K = {pot[p] : p \in T}
  OBVIOUS
<1>2. PICK held, group :
        /\ held = [E \in K |-> Held(g, E)]
        /\ group = [E \in K |-> SumFunctionOnSet(f, KeyedAs(T, pot, E))]
  OBVIOUS
<1>3. IsFiniteSet(T)
  BY <1>1, PayoutsAre
<1>4. ASSUME NEW p \in T
      PROVE  /\ f[p] = p.times * p.amount /\ f[p] \in Int /\ p.seat \in 1 .. n
             /\ pot[p] = p.pot /\ p.pot \in Fields(g)
  BY <1>1, PaymentIs, PayoutsShare
<1>5. K \in SUBSET Fields(g) /\ IsFiniteSet(K)
  <2>1. K \in SUBSET Fields(g)
    BY <1>1, <1>4
  <2>2. \A E \in K : held[E] = Held(g, E)
    BY <1>2
  <2> QED BY <2>1, <2>2, FieldsHold
<1>6. SumFunctionOnSet(won, 1 .. n) = SumFunctionOnSet(f, T)
  <2>1. \A p \in T : f[p] = p.times * p.amount /\ f[p] \in Int /\ p.seat \in 1 .. n
    BY <1>4
  <2>2. \A i \in 1 .. n : won[i] = WonBySeat(T, i)
    BY <1>1
  <2> QED BY <1>3, <2>1, <2>2, WonSeatBySeat
<1>7. SumFunctionOnSet(group, K) = SumFunctionOnSet(f, T)
  <2>1. \A p \in T : f[p] \in Int
    BY <1>4
  <2>2. \A E \in K : group[E] = SumFunctionOnSet(f, KeyedAs(T, pot, E))
    BY <1>2
  <2>3. SumFunctionOnSet(group, K) = SumFunctionOnSet(f, Keyed(T, pot, K))
    BY <1>3, <1>5, <2>1, <2>2, SumByGroups
  <2>4. Keyed(T, pot, K) = T
    BY <1>1 DEF Keyed
  <2> QED BY <2>3, <2>4
<1>8. ASSUME NEW E \in K
      PROVE  /\ group[E] \in Int /\ held[E] \in Int /\ group[E] <= held[E]
             /\ held[E] = Held(g, E)
  <2>1. PICK U : U = KeyedAs(T, pot, E)
    OBVIOUS
  <2>2. U = {p \in Payouts(g, strength) : p.pot = E}
    BY <1>1, <1>4, <2>1 DEF KeyedAs
  <2>3. \A p \in U : f[p] = p.times * p.amount
    BY <1>1, <2>2
  <2>4. SumFunctionOnSet(f, U) <= Held(g, E)
    BY <2>2, <2>3, TiesShare
  <2>5. IsFiniteSet(U) /\ \A p \in U : f[p] \in Int
    BY <1>1, <1>3, <1>4, <2>2, FS_Subset
  <2>6. SumFunctionOnSet(f, U) \in Int
    BY <2>5, SumType
  <2>7. Held(g, E) \in Nat
    BY HeldIs
  <2> QED BY <1>2, <2>1, <2>4, <2>6, <2>7
<1>9. SumFunctionOnSet(group, K) <= SumFunctionOnSet(held, K)
  BY <1>5, <1>8, SumAtMost
<1>10. PICK A, B : /\ A = {l \in Levels(g) : LayerOf(g, l).contenders \in K}
                   /\ B = Levels(g)
  OBVIOUS
<1>11. SumFunctionOnSet(held, K) = SumFunctionOnSet(Layers(g), A)
  <2>1. \A E \in K : held[E] = Held(g, E)
    BY <1>8
  <2>2. SumFunctionOnSet(held, K)
          = SumFunctionOnSet(Layers(g), {l \in Levels(g) : LayerOf(g, l).contenders \in K})
    BY <1>5, <2>1, FieldsHold
  <2> QED BY <1>10, <2>2
<1>12. SumFunctionOnSet(Layers(g), A) <= SumFunctionOnSet(Layers(g), B)
  <2>1. A \in SUBSET B /\ IsFiniteSet(B) /\ \A l \in B : Layers(g)[l] \in Nat
    BY <1>10, LevelsAre, LayerOfIs DEF Layers
  <2> QED BY <2>1, SumOfFewer
<1>13. SumFunctionOnSet(Layers(g), B) <= BetInAll(g)
  <2>1. CASE B = {}
    <3>1. BetInAll(g) \in Nat
      BY BetInAllIs
    <3> QED BY <2>1, <3>1, SumOfNothing
  <2>2. CASE B # {}
    <3>1. PICK c \in Levels(g) \cup {0} : c = Max(B)
      BY <1>10, <2>2, LevelsAre, MaxIs
    <3>2. {l \in Levels(g) : l <= c} = B
      BY <1>10, <2>2, <3>1, LevelsAre, MaxIs
    <3>3. SumFunctionOnSet(Layers(g), {l \in Levels(g) : l <= c})
            = SumFunctionOnSet(UpTo(g, c), 1 .. n)
      BY LayersBelow
    <3>4. PICK u, b, S : u = UpTo(g, c) /\ b = Bets(g.seats) /\ S = 1 .. n
      OBVIOUS
    <3>5. \A i \in S : u[i] \in Int /\ b[i] \in Int /\ u[i] <= b[i]
      <4>1. Seats(g) = 1 .. n /\ DOMAIN g.seats = 1 .. n
        BY SeatsOf DEF Seats
      <4>2. c \in Nat
        BY LevelsAre
      <4>3. \A i \in S : /\ u[i] = LesserOf(c, g.seats[i].totalBet)
                         /\ b[i] = g.seats[i].totalBet /\ g.seats[i].totalBet \in Nat
        BY <3>4, <4>1, SeatsOf DEF UpTo, Bets, PlayerRecords
      <4> QED BY <4>2, <4>3 DEF LesserOf
    <3>6. SumFunctionOnSet(u, S) <= SumFunctionOnSet(b, S)
      <4>1. IsFiniteSet(S)
        BY <3>4, FS_Interval
      <4> QED BY <3>5, <4>1, SumAtMost
    <3>7. BetInAll(g) = SumFunctionOnSet(b, S)
      BY <3>4, SeatsOf DEF BetInAll
    <3> QED BY <3>2, <3>3, <3>4, <3>6, <3>7
  <2> QED BY <2>1, <2>2
<1>14. /\ SumFunctionOnSet(f, T) \in Int
       /\ SumFunctionOnSet(held, K) \in Int
       /\ SumFunctionOnSet(Layers(g), B) \in Int
       /\ BetInAll(g) \in Int
  <2>1. IsFiniteSet(B) /\ \A l \in B : Layers(g)[l] \in Int
    BY <1>10, LevelsAre, LayerOfIs DEF Layers
  <2> QED BY <1>3, <1>4, <1>5, <1>8, <2>1, SumType, BetInAllIs
<1> QED BY <1>6, <1>7, <1>9, <1>11, <1>12, <1>13, <1>14

\* The end of a hand adds what was won to the stacks and clears the round.
LEMMA FinishIs ==
  ASSUME NEW N, NEW n \in Nat, NEW g \in Games(n, N),
         NEW paid \in SUBSET PayoutRecords(n, N), IsFiniteSet(paid)
  PROVE  /\ Finish(g, paid) \in Games(n, N)
         /\ RoundWithinHand(Finish(g, paid))
         /\ ~Finish(g, paid).started
         /\ Finish(g, paid).intermission
         /\ Finish(g, paid).payouts = paid
         /\ Finish(g, paid).lastWinner = (paid # {})
         /\ Finish(g, paid).phase = g.phase
         /\ SamePlayers(g, Finish(g, paid))
         /\ \A i \in 1 .. n :
              /\ WonBySeat(paid, i) \in Nat
              /\ Finish(g, paid).seats[i].chips = g.seats[i].chips + WonBySeat(paid, i)
              /\ Finish(g, paid).seats[i].totalBet = g.seats[i].totalBet
              /\ Finish(g, paid).seats[i].folded = g.seats[i].folded
<1> DEFINE won(i) == WonBySeat(paid, i)
           seat(i) == [g.seats[i] EXCEPT !.roundBet = 0, !.chips = @ + won(i)]
           q == [i \in 1 .. n |-> seat(i)]
           h == Finish(g, paid)
<1>1. ASSUME NEW i
      PROVE  won(i) \in Nat
  <2> DEFINE T == {p \in paid : p.seat = i}
             f == [p \in T |-> p.times * p.amount]
  <2>1. won(i) = SumFunctionOnSet(f, T)
    BY DEF WonBySeat, SumOver
  <2>2. IsFiniteSet(T)
    BY FS_Subset
  <2>3. ASSUME NEW p \in T
        PROVE  f[p] \in Nat
    <3>1. p.times \in Nat /\ p.amount \in Nat
      BY DEF PayoutRecords
    <3>2. f[p] = p.times * p.amount
      OBVIOUS
    <3> HIDE DEF f
    <3> QED BY <3>1, <3>2
  <2> HIDE DEF f, T
  <2> QED BY <2>1, <2>2, <2>3, SumNat
<1> HIDE DEF won
<1>2. ASSUME NEW i \in 1 .. n
      PROVE  /\ seat(i) \in PlayerRecords(N)
             /\ seat(i).roundBet = 0 /\ seat(i).totalBet \in Nat
             /\ seat(i).chips = g.seats[i].chips + won(i)
             /\ seat(i).totalBet = g.seats[i].totalBet
             /\ seat(i).folded = g.seats[i].folded
             /\ seat(i).name = g.seats[i].name
             /\ seat(i).sittingOut = g.seats[i].sittingOut
  <2>1. g.seats[i] \in PlayerRecords(N) /\ g.seats[i].chips \in Nat
    BY SeatsOf DEF PlayerRecords
  <2>2. PICK z \in Nat, c \in Nat : z = 0 /\ c = g.seats[i].chips + won(i)
    BY <1>1, <2>1
  <2>3. seat(i) = [g.seats[i] EXCEPT !.roundBet = z, !.chips = c]
    BY <2>2
  <2> HIDE DEF seat
  <2>4. /\ seat(i) \in PlayerRecords(N) /\ seat(i).roundBet = z /\ seat(i).chips = c
        /\ seat(i).totalBet = g.seats[i].totalBet
        /\ seat(i).folded = g.seats[i].folded
        /\ seat(i).name = g.seats[i].name
        /\ seat(i).sittingOut = g.seats[i].sittingOut
    BY <2>1, <2>3 DEF PlayerRecords
  <2> QED BY <2>2, <2>4 DEF PlayerRecords
<1>3. q \in [1 .. n -> PlayerRecords(N)] /\ \A i \in 1 .. n : q[i] = seat(i)
  <2> HIDE DEF seat
  <2> QED BY <1>2
<1> DEFINE seats == SeatsBy(g, LAMBDA i :
                 [g.seats[i] EXCEPT !.roundBet = 0, !.chips = @ + WonBySeat(paid, i)])
<1>4. seats = q
  <2>1. seats = SubSeq(q, 1, n)
    BY Zenon, SeatsOf DEF SeatsBy, won
  <2> HIDE DEF q, seats
  <2> QED BY <1>3, <2>1, SeatsRewritten
<1>5. h = [g EXCEPT !.seats = seats, !.payouts = paid, !.lastWinner = (paid # {}),
                    !.intermission = TRUE, !.started = FALSE, !.pot = 0]
  BY Zenon DEF Finish
<1> HIDE DEF q, seat, seats, h
<1>6. PICK f \in [1 .. n -> PlayerRecords(N)], b \in BOOLEAN, z \in Nat :
        f = q /\ b = (paid # {}) /\ z = 0
  BY <1>3
<1>7. h = [g EXCEPT !.seats = f, !.payouts = paid, !.lastWinner = b,
                    !.intermission = TRUE, !.started = FALSE, !.pot = z]
  BY <1>4, <1>5, <1>6
<1>8. h \in Games(n, N)
  BY <1>7 DEF Games
<1>9. /\ h.seats = f /\ ~h.started /\ h.intermission /\ h.payouts = paid
      /\ h.phase = g.phase /\ h.lastWinner = (paid # {})
  BY <1>6, <1>7 DEF Games
<1>10. RoundWithinHand(h)
  <2>1. Seats(h) = 1 .. n
    BY <1>8, SeatsOf
  <2> QED BY <1>2, <1>3, <1>6, <1>9, <2>1 DEF RoundWithinHand
<1>11. SamePlayers(g, h)
  <2>1. Seats(g) = 1 .. n
    BY SeatsOf
  <2> QED BY <1>2, <1>3, <1>6, <1>9, <2>1 DEF SamePlayers
<1>12. \A i \in 1 .. n :
         /\ won(i) \in Nat
         /\ h.seats[i].chips = g.seats[i].chips + won(i)
         /\ h.seats[i].totalBet = g.seats[i].totalBet
         /\ h.seats[i].folded = g.seats[i].folded
  BY <1>1, <1>2, <1>3, <1>6, <1>9
<1> QED BY <1>8, <1>9, <1>10, <1>11, <1>12 DEF h, won

\* What may come of a game once the showdown, where one is due, has run.
LEMMA OutcomesAre ==
  ASSUME NEW N, NEW n \in Nat, NEW g \in Games(n, N), RoundWithinHand(g),
         NEW h \in Outcomes(g)
  PROVE  /\ h \in Games(n, N)
         /\ RoundWithinHand(h)
         /\ SamePlayers(g, h)
         /\ h.started => h = g /\ ~ShowdownDue(g)
         /\ h # g => ~h.started /\ IsFiniteSet(h.payouts)
<1>1. CASE ~ShowdownDue(g)
  BY <1>1 DEF Outcomes, SamePlayers
<1>2. CASE ShowdownDue(g) /\ Cardinality(ActiveSeats(g)) = 1
  <2> DEFINE i == CHOOSE i \in ActiveSeats(g) : TRUE
             paid == UncontestedPayout(g, i)
  <2>1. h = Finish(g, paid)
    BY <1>2 DEF Outcomes, DoShowdown
  <2>2. i \in 1 .. n
    <3>1. ActiveSeats(g) # {}
      BY <1>2, FS_EmptySet
    <3> QED BY <3>1, PartsOfSeats
  <2> HIDE DEF i
  <2>3. paid \in SUBSET PayoutRecords(n, N)
    <3>1. g.pot \in Nat /\ g.seats[i].name \in N
      BY <2>2, SeatsOf DEF Games, PlayerRecords
    <3> QED BY <2>2, <3>1 DEF UncontestedPayout, PayoutRecords
  <2>4. IsFiniteSet(paid)
    BY FS_Singleton DEF UncontestedPayout
  <2> HIDE DEF paid
  <2> QED BY <2>1, <2>3, <2>4, FinishIs
<1>3. CASE ShowdownDue(g) /\ Cardinality(ActiveSeats(g)) # 1
  <2>1. PICK strength : h = Finish(g, Payouts(g, strength))
    BY <1>3 DEF Outcomes, DoShowdown
  <2> QED BY <2>1, PayoutsAre, FinishIs
<1> QED BY <1>1, <1>2, <1>3

-----------------------------------------------------------------------------
\* Moving no chips moves none in or out of the pot.
LEMMA SamePot ==
  ASSUME NEW N, NEW n \in Nat, NEW g \in Games(n, N), NEW h \in Games(n, N),
         SameMoney(g, h)
  PROVE  PotKept(g, h)
<1>1. Seats(g) = 1 .. n /\ Seats(h) = 1 .. n
  BY SeatsOf
<1>2. Bets(h.seats) = Bets(g.seats)
  <2>1. DOMAIN g.seats = 1 .. n /\ DOMAIN h.seats = 1 .. n
    BY <1>1 DEF Seats
  <2>2. \A i \in 1 .. n : h.seats[i].totalBet = g.seats[i].totalBet
    BY <1>1 DEF SameMoney
  <2> QED BY <2>1, <2>2 DEF Bets
<1> QED BY <1>1, <1>2 DEF PotKept, BetInAll, SameMoney

\* A running hand: somebody is on turn, and everyone has what he had.
Running(g, h) == h.started => OnTurn(h) /\ SameStake(g, h)

\* While a hand runs nothing has been paid; at its end, finitely many payments.
Unpaid(g, h) ==
  ~g.intermission /\ g.payouts = {} =>
    /\ IsFiniteSet(h.payouts)
    /\ h.started => ~h.intermission /\ h.payouts = {}

\* A step that keeps the books, then one that moves the turn or the board,
\* then the showdown where one is due.
LEMMA StepIs ==
  ASSUME NEW N, NEW n \in Nat, NEW g \in Games(n, N), NEW d, NEW b,
         KeepsBooks(g, d, n, N), Proper(d, b, n, N), NEW h \in Outcomes(b)
  PROVE  /\ h \in Games(n, N) /\ RoundWithinHand(h) /\ Running(g, h)
         /\ h.started => PotKept(d, h)
         /\ SamePlayers(g, h) /\ Unpaid(g, h)
<1>1. /\ d \in Games(n, N) /\ RoundWithinHand(d) /\ SameStake(g, d) /\ SamePlayers(g, d)
      /\ d.intermission = g.intermission /\ d.payouts = g.payouts
  BY DEF KeepsBooks
<1>2. /\ b \in Games(n, N) /\ RoundWithinHand(b) /\ SameMoney(d, b)
      /\ b.started /\ ~ShowdownDue(b) => OnTurn(b)
      /\ SamePlayers(d, b) /\ b.intermission = d.intermission /\ b.payouts = d.payouts
  BY <1>1 DEF Proper, SameMoney
<1>3. /\ h \in Games(n, N) /\ RoundWithinHand(h) /\ SamePlayers(b, h)
      /\ h.started => h = b /\ ~ShowdownDue(b)
      /\ h # b => ~h.started /\ IsFiniteSet(h.payouts)
  BY <1>2, OutcomesAre
<1>4. PotKept(d, b)
  BY <1>1, <1>2, SamePot
<1>5. SameStake(g, b)
  <2>1. Seats(g) = 1 .. n /\ Seats(d) = 1 .. n
    BY <1>1, SeatsOf
  <2> QED BY <1>1, <1>2, <2>1 DEF SameStake, SameMoney
<1>6. SamePlayers(g, h)
  <2>1. Seats(g) = 1 .. n
    BY SeatsOf
  <2>2. Seats(d) = 1 .. n
    BY <1>1, SeatsOf
  <2>3. Seats(b) = 1 .. n
    BY <1>2, SeatsOf
  <2> QED BY <1>1, <1>2, <1>3, <2>1, <2>2, <2>3 DEF SamePlayers
<1>7. Unpaid(g, h)
  BY <1>1, <1>2, <1>3, FS_EmptySet DEF Unpaid
<1> QED BY <1>2, <1>3, <1>4, <1>5, <1>6, <1>7 DEF Running

\* StartHand deals a hand whose books are kept.
LEMMA StartHandIs ==
  ASSUME NEW N, NEW n \in Nat, NEW g \in Games(n, N),
         SmallBlind \in Nat, BigBlind \in Nat,
         CanStartHand(g), NEW h \in StartHand(g)
  PROVE  /\ h \in Games(n, N)
         /\ RoundWithinHand(h)
         /\ h.started => /\ OnTurn(h)
                         /\ PotIs(h)
                         /\ ~h.intermission /\ h.payouts = {}
                         /\ \A i \in 1 .. n : h.seats[i].chips + h.seats[i].totalBet
                                                = g.seats[i].chips
         /\ SamePlayers(g, h)
<1> DEFINE d == DealIn(g)
           b == PostBlinds(d)
<1>1. h \in Outcomes(StartBettingRound(b))
  BY DEF StartHand
<1>2. /\ d \in Games(n, N) /\ DealtInSeats(d) = DealtInSeats(g)
      /\ \A i \in 1 .. n : /\ d.seats[i].chips = g.seats[i].chips
                           /\ d.seats[i].totalBet = 0
                           /\ d.seats[i].roundBet = 0
      /\ ~d.intermission /\ d.payouts = {} /\ SamePlayers(g, d)
  BY DealInIs
<1>3. Cardinality(DealtInSeats(g)) >= 2
  BY DEF CanStartHand
<1> HIDE DEF d
<1>4. KeepsBooks(d, b, n, N) /\ PotIs(b) /\ b \in Games(n, N)
  BY <1>2, <1>3, PostBlindsIs DEF KeepsBooks
<1>5. n > 0
  <2>1. DealtInSeats(g) # {}
    BY <1>3, FS_EmptySet
  <2>2. PICK i \in DealtInSeats(g) : i \in 1 .. n
    BY <2>1, PartsOfSeats
  <2> QED BY <2>2
<1> HIDE DEF b
<1>6. Proper(b, StartBettingRound(b), n, N)
  BY <1>4, <1>5, StartBettingRoundIs DEF KeepsBooks
<1>7. /\ h \in Games(n, N) /\ RoundWithinHand(h) /\ Running(d, h)
      /\ h.started => PotKept(b, h)
      /\ SamePlayers(d, h) /\ Unpaid(d, h)
  BY <1>1, <1>2, <1>4, <1>6, StepIs
<1>8. h.started => PotIs(h)
  BY <1>4, <1>7, PotStays
<1>9. ASSUME h.started, NEW i \in 1 .. n
      PROVE  h.seats[i].chips + h.seats[i].totalBet = g.seats[i].chips
  <2>1. Seats(d) = 1 .. n
    BY <1>2, SeatsOf
  <2>2. h.seats[i].chips + h.seats[i].totalBet = d.seats[i].chips + d.seats[i].totalBet
    BY <1>7, <1>9, <2>1 DEF Running, SameStake
  <2>3. g.seats[i].chips \in Nat
    BY SeatsOf DEF PlayerRecords
  <2> QED BY <1>2, <2>2, <2>3
<1>10. SamePlayers(g, h)
  <2>1. Seats(g) = 1 .. n
    BY SeatsOf
  <2>2. Seats(d) = 1 .. n
    BY <1>2, SeatsOf
  <2> QED BY <1>2, <1>7, <2>1, <2>2 DEF SamePlayers
<1>11. h.started => ~h.intermission /\ h.payouts = {}
  BY <1>2, <1>7 DEF Unpaid
<1> QED BY <1>7, <1>9, <1>8, <1>10, <1>11 DEF Running

\* The button moves with every hand, and stays while it is played.
LEMMA NextOrbitDiffers ==
  ASSUME NEW n \in Nat, n >= 2, NEW x \in Nat
  PROVE  (x + 1) % n # x
<1>1. PICK r : r = x % n
  OBVIOUS
<1>2. PICK y : y = (x + 1) % n
  OBVIOUS
<1>3. y = IF r = n - 1 THEN 0 ELSE r + 1
  <2>1. n > 0
    OBVIOUS
  <2>2. (x + 1) % n = IF x % n = n - 1 THEN 0 ELSE (x % n) + 1
    BY <2>1, ModStep
  <2> QED BY <1>1, <1>2, <2>2, Zenon
<1>4. r \in 0 .. n - 1
  BY <1>1, Division
<1>5. x \in 0 .. n - 1 => r = x
  <2>1. SUFFICES ASSUME x \in 0 .. n - 1 PROVE x % n = x
    BY <1>1
  <2>2. x = 0 * n + x /\ n > 0
    OBVIOUS
  <2> QED BY <2>1, <2>2, ModUnique
<1>6. y # x
  BY <1>3, <1>4, <1>5
<1> QED BY <1>2, <1>6

LEMMA RoundKeepsOrbit ==
  ASSUME NEW N, NEW n \in Nat, NEW g \in Games(n, N), BigBlind \in Nat
  PROVE  StartBettingRound(g).orbit = g.orbit
<1>1. ASSUME NEW f \in Games(n, N)
      PROVE  OpenRound(f).orbit = f.orbit
  <2>1. PICK p, q :
          /\ p = SeatsBy(f, LAMBDA i : [f.seats[i] EXCEPT !.hasActed = FALSE])
          /\ q = SeatsBy(f, LAMBDA i : [f.seats[i] EXCEPT !.hasActed = FALSE,
                                                          !.roundBet = 0])
    OBVIOUS
  <2>2. PICK x : x = BigBlind
    OBVIOUS
  <2>3. OpenRound(f) = IF f.phase = 0 THEN [f EXCEPT !.seats = p]
                       ELSE [f EXCEPT !.currentBet = 0, !.lastRaise = x, !.seats = q]
    BY <2>1, <2>2, Zenon DEF OpenRound
  <2> QED BY <2>3 DEF Games
<1>2. PICK r \in Games(n, N) : r = OpenRound(g) /\ r.orbit = g.orbit
  BY <1>1, OpenRoundIs
<1>3. PICK f \in Games(n, N) : f = [r EXCEPT !.phase = Showdown] /\ f.orbit = r.orbit
  <2>1. PICK z \in 0 .. Showdown : z = Showdown
    BY DEF Showdown
  <2>2. [r EXCEPT !.phase = z] \in Games(n, N)
    BY SetPhase
  <2>3. [r EXCEPT !.phase = z].orbit = r.orbit
    BY DEF Games
  <2> QED BY <2>1, <2>2, <2>3
<1>4. PICK t : t = FindNextActionablePlayer(r, FirstToAct(r))
  OBVIOUS
<1>5. [r EXCEPT !.turn = t].orbit = r.orbit
  BY DEF Games
<1>6. \/ StartBettingRound(g) = r \/ StartBettingRound(g) = OpenRound(f)
      \/ StartBettingRound(g) = [r EXCEPT !.turn = t]
  BY <1>2, <1>3, <1>4, Zenon DEF StartBettingRound
<1>7. OpenRound(f).orbit = f.orbit
  BY <1>1
<1> QED BY <1>2, <1>3, <1>5, <1>6, <1>7

LEMMA OrbitMoves ==
  ASSUME NEW N, NEW n \in Nat, NEW g \in Games(n, N),
         SmallBlind \in Nat, BigBlind \in Nat,
         CanStartHand(g), NEW h \in StartHand(g), h.started
  PROVE  h.orbit # g.orbit
<1>1. PICK d \in Games(n, N) :
        /\ d = DealIn(g) /\ DealtInSeats(d) = DealtInSeats(g)
        /\ \A i \in 1 .. n : d.seats[i].totalBet = 0 /\ d.seats[i].roundBet = 0
  BY DealInIs
<1>2. d.orbit = g.orbit
  <2>1. PICK q : q = SeatsBy(g, LAMBDA i :
                        [g.seats[i] EXCEPT !.folded = ~DealtIn(g.seats[i]),
                                           !.allIn = FALSE,
                                           !.hasActed = FALSE,
                                           !.totalBet = 0,
                                           !.roundBet = 0])
    OBVIOUS
  <2>2. d = [g EXCEPT !.started = TRUE, !.intermission = FALSE, !.phase = 0,
                      !.lastWinner = FALSE, !.payouts = {}, !.seats = q]
    BY <1>1, <2>1, Zenon DEF DealIn
  <2> QED BY <2>2 DEF Games
<1>3. PICK m \in Nat : m = Cardinality(DealtInSeats(d)) /\ m >= 2
  BY <1>1, PartsOfSeats DEF CanStartHand
<1>4. PICK b \in Games(n, N) : b = PostBlinds(d)
  <2>1. Cardinality(DealtInSeats(d)) >= 2
    BY <1>3
  <2>2. KeepsBooks(d, PostBlinds(d), n, N)
    BY <1>1, <2>1, PostBlindsIs
  <2> QED BY <2>2 DEF KeepsBooks
<1>5. b.orbit = IF d.orbit < 0 THEN 0 ELSE (d.orbit + 1) % m
  <2>1. PICK x : x = IF d.orbit < 0 THEN 0 ELSE (d.orbit + 1) % m
    OBVIOUS
  <2>2. \E q, pot, bet, raise :
          b = [d EXCEPT !.orbit = x, !.seats = q, !.pot = pot,
                        !.currentBet = bet, !.lastRaise = raise]
    BY <1>3, <1>4, <2>1, Zenon DEF PostBlinds
  <2>3. PICK q, pot, bet, raise :
          b = [d EXCEPT !.orbit = x, !.seats = q, !.pot = pot,
                        !.currentBet = bet, !.lastRaise = raise]
    BY <2>2
  <2> QED BY <2>1, <2>3 DEF Games
<1>6. b.orbit # d.orbit
  <2>1. d.orbit \in Nat \cup {-1}
    BY DEF Games
  <2>2. CASE d.orbit = -1
    BY <1>5, <2>2
  <2>3. CASE d.orbit \in Nat
    <3>1. PICK x \in Nat : x = d.orbit
      BY <2>3
    <3>2. (x + 1) % m # x
      BY <1>3, NextOrbitDiffers
    <3> QED BY <1>5, <3>1, <3>2
  <2> QED BY <2>1, <2>2, <2>3
<1>7. h \in Outcomes(StartBettingRound(b))
  BY <1>1, <1>4 DEF StartHand
<1>8. PICK r : r = StartBettingRound(b)
  OBVIOUS
<1>9. h = r
  <2>1. n > 0
    <3>1. DealtInSeats(d) # {}
      BY <1>3, FS_EmptySet
    <3>2. PICK i \in DealtInSeats(d) : i \in 1 .. n
      BY <3>1, PartsOfSeats
    <3> QED BY <3>2
  <2>2. Proper(b, r, n, N)
    BY <1>8, <2>1, StartBettingRoundIs
  <2>3. KeepsBooks(d, b, n, N)
    BY <1>1, <1>3, <1>4, PostBlindsIs
  <2>4. r \in Games(n, N) /\ RoundWithinHand(r)
    BY <2>2, <2>3 DEF Proper, KeepsBooks
  <2> QED BY <1>7, <1>8, <2>4, OutcomesAre
<1>10. r.orbit = b.orbit
  BY <1>8, RoundKeepsOrbit
<1> QED BY <1>2, <1>6, <1>9, <1>10

\* HumanAction carries a decision out and keeps the books.
LEMMA HumanActionIs ==
  ASSUME NEW N, NEW n \in Nat, NEW g \in Games(n, N), BigBlind \in Nat,
         RoundWithinHand(g), PotCovers(g), NEW i \in 1 .. n,
         NEW action \in Decisions, NEW amount \in Int,
         NEW h \in HumanAction(g, i, action, amount)
  PROVE  /\ h \in Games(n, N) /\ RoundWithinHand(h) /\ Running(g, h)
         /\ h.started => PotKept(g, h)
         /\ SamePlayers(g, h) /\ Unpaid(g, h)
<1> DEFINE d == ApplyDecision(g, i, action, amount)
<1>1. h \in Outcomes(Proceed(d))
  BY DEF HumanAction
<1>2. KeepsBooks(g, d, n, N) /\ PotKept(g, d)
  BY ApplyDecisionIs
<1> HIDE DEF d
<1>3. Proper(d, Proceed(d), n, N)
  BY <1>2, ProceedIs DEF KeepsBooks
<1>4. /\ h \in Games(n, N) /\ RoundWithinHand(h) /\ Running(g, h)
      /\ h.started => PotKept(d, h)
      /\ SamePlayers(g, h) /\ Unpaid(g, h)
  BY <1>1, <1>2, <1>3, StepIs
<1>5. PotKept(g, d) /\ PotKept(d, h) => PotKept(g, h)
  BY DEF PotKept
<1> QED BY <1>2, <1>4, <1>5
-----------------------------------------------------------------------------
(***************************************************************************)
(* The chips on the table: the stacks, and the pot being played for.  No    *)
(* bet, showdown or deal adds to them.                                      *)
(***************************************************************************)
\* The stacks of a game in all, and what is on its table: those and the pot
\* being played for.
Chips(seats) == [i \in DOMAIN seats |-> seats[i].chips]
StacksOf(g) == SumFunctionOnSet(Chips(g.seats), Seats(g))
OnFelt(g) == StacksOf(g) + IF g.started THEN g.pot ELSE 0

\* The stacks in all are a number of chips.
LEMMA StacksAre ==
  ASSUME NEW N, NEW n \in Nat, NEW g \in Games(n, N)
  PROVE  /\ StacksOf(g) \in Nat /\ OnFelt(g) \in Nat
         /\ \A c : (\A i \in 1 .. n : c[i] = g.seats[i].chips)
                     => StacksOf(g) = SumFunctionOnSet(c, 1 .. n)
<1>1. Seats(g) = 1 .. n /\ DOMAIN g.seats = 1 .. n /\ g.pot \in Nat
  BY SeatsOf DEF Seats, Games
<1>2. PICK k, S : k = Chips(g.seats) /\ S = 1 .. n
  OBVIOUS
<1>3. IsFiniteSet(S) /\ \A i \in S : k[i] = g.seats[i].chips /\ k[i] \in Nat
  BY <1>1, <1>2, SeatsOf, FS_Interval DEF Chips, PlayerRecords
<1>4. StacksOf(g) = SumFunctionOnSet(k, S)
  BY <1>1, <1>2 DEF StacksOf
<1>5. SumFunctionOnSet(k, S) \in Nat
  BY <1>3, SumNat
<1>6. ASSUME NEW c, \A i \in 1 .. n : c[i] = g.seats[i].chips
      PROVE  StacksOf(g) = SumFunctionOnSet(c, 1 .. n)
  <2>1. \A i \in S : c[i] = k[i]
    BY <1>2, <1>3, <1>6
  <2>2. SumFunctionOnSet(c, S) = SumFunctionOnSet(k, S)
    BY <1>3, <2>1, SumSame
  <2> QED BY <1>2, <1>4, <2>2
<1> QED BY <1>1, <1>4, <1>5, <1>6 DEF OnFelt

\* Where no stack changes, neither do they in all.
LEMMA SameStacks ==
  ASSUME NEW N, NEW n \in Nat, NEW g \in Games(n, N), NEW h \in Games(n, N),
         \A i \in 1 .. n : h.seats[i].chips = g.seats[i].chips
  PROVE  StacksOf(h) = StacksOf(g)
<1>1. PICK c : c = [i \in 1 .. n |-> g.seats[i].chips]
  OBVIOUS
<1>2. \A i \in 1 .. n : c[i] = g.seats[i].chips /\ c[i] = h.seats[i].chips
  BY <1>1
<1>3. StacksOf(g) = SumFunctionOnSet(c, 1 .. n)
  BY <1>2, StacksAre
<1>4. StacksOf(h) = SumFunctionOnSet(c, 1 .. n)
  BY <1>2, StacksAre
<1> QED BY <1>3, <1>4

\* What is bet leaves the stacks.
LEMMA StakesInAll ==
  ASSUME NEW N, NEW n \in Nat, NEW g \in Games(n, N), NEW s,
         \A i \in 1 .. n : s[i] = g.seats[i].chips + g.seats[i].totalBet
  PROVE  SumFunctionOnSet(s, 1 .. n) = StacksOf(g) + BetInAll(g)
<1>1. PICK c, b, S : c = [i \in 1 .. n |-> g.seats[i].chips] /\ b = Bets(g.seats) /\ S = 1 .. n
  OBVIOUS
<1>2. Seats(g) = S /\ DOMAIN g.seats = S /\ IsFiniteSet(S)
  BY <1>1, SeatsOf DEF Seats
<1>3. \A i \in S : /\ c[i] = g.seats[i].chips /\ b[i] = g.seats[i].totalBet
                   /\ c[i] \in Int /\ b[i] \in Int /\ s[i] = c[i] + b[i]
  BY <1>1, <1>2, SeatsOf DEF Bets, PlayerRecords
<1>4. SumFunctionOnSet(s, S) = SumFunctionOnSet(c, S) + SumFunctionOnSet(b, S)
  BY <1>2, <1>3, SumPlus
<1>5. StacksOf(g) = SumFunctionOnSet(c, S)
  <2>1. \A i \in 1 .. n : c[i] = g.seats[i].chips
    BY <1>1
  <2> QED BY <1>1, <2>1, StacksAre
<1>6. BetInAll(g) = SumFunctionOnSet(b, S)
  BY <1>1, <1>2 DEF BetInAll
<1> QED BY <1>1, <1>4, <1>5, <1>6

\* Where every stake stays, so do the stacks and the bets together.
LEMMA SameStakeInAll ==
  ASSUME NEW N, NEW n \in Nat, NEW g \in Games(n, N), NEW h \in Games(n, N), SameStake(g, h)
  PROVE  StacksOf(h) + BetInAll(h) = StacksOf(g) + BetInAll(g)
<1>1. PICK s : s = [i \in 1 .. n |-> g.seats[i].chips + g.seats[i].totalBet]
  OBVIOUS
<1>2. \A i \in 1 .. n : /\ s[i] = g.seats[i].chips + g.seats[i].totalBet
                        /\ s[i] = h.seats[i].chips + h.seats[i].totalBet
  BY <1>1, SeatsOf DEF SameStake
<1>3. SumFunctionOnSet(s, 1 .. n) = StacksOf(g) + BetInAll(g)
  BY <1>2, StakesInAll
<1>4. SumFunctionOnSet(s, 1 .. n) = StacksOf(h) + BetInAll(h)
  BY <1>2, StakesInAll
<1> QED BY <1>3, <1>4

\* What was paid went to the seats it names, and is on their stacks.
PaidOut(h, n) ==
  /\ IsFiniteSet(h.payouts)
  /\ \A p \in h.payouts : p.seat \in 1 .. n /\ p.winner = h.seats[p.seat].name
  /\ \A i \in 1 .. n : WonBySeat(h.payouts, i) <= h.seats[i].chips

\* A hand that has paid nothing.
LEMMA NothingPaid ==
  ASSUME NEW N, NEW n \in Nat, NEW g \in Games(n, N), g.payouts = {}
  PROVE  PaidOut(g, n)
<1>1. ASSUME NEW i \in 1 .. n PROVE WonBySeat(g.payouts, i) <= g.seats[i].chips
  <2>1. PICK f, T : T = {p \in g.payouts : p.seat = i} /\ f = [p \in T |-> p.times * p.amount]
    OBVIOUS
  <2>2. WonBySeat(g.payouts, i) = SumFunctionOnSet(f, T) /\ T = {}
    BY <2>1 DEF WonBySeat, SumOver
  <2>3. SumFunctionOnSet(f, T) = 0
    BY <2>2, SumOfNothing
  <2>4. g.seats[i].chips \in Nat
    BY SeatsOf DEF PlayerRecords
  <2> QED BY <2>2, <2>3, <2>4
<1> QED BY <1>1, FS_EmptySet DEF PaidOut

\* Paying what was won: the stacks grow by no more than "most".
LEMMA FinishPays ==
  ASSUME NEW N, NEW n \in Nat, NEW g \in Games(n, N), g.started,
         NEW paid \in SUBSET PayoutRecords(n, N), IsFiniteSet(paid),
         \A p \in paid : p.seat \in 1 .. n /\ p.winner = g.seats[p.seat].name,
         NEW won, \A i \in 1 .. n : won[i] = WonBySeat(paid, i),
         SumFunctionOnSet(won, 1 .. n) <= g.pot,
         NEW h, h = Finish(g, paid)
  PROVE  OnFelt(h) <= OnFelt(g) /\ PaidOut(h, n)
<1>1. /\ h \in Games(n, N) /\ ~h.started /\ h.payouts = paid
      /\ SamePlayers(g, h)
      /\ \A i \in 1 .. n :
           /\ WonBySeat(paid, i) \in Nat
           /\ h.seats[i].chips = g.seats[i].chips + WonBySeat(paid, i)
  BY FinishIs
<1>2. PICK S, c, k : /\ S = 1 .. n
                     /\ c = [i \in S |-> g.seats[i].chips]
                     /\ k = [i \in S |-> h.seats[i].chips]
  OBVIOUS
<1>3. \A i \in S : /\ c[i] = g.seats[i].chips /\ k[i] = h.seats[i].chips
                   /\ c[i] \in Nat /\ won[i] \in Nat /\ k[i] = c[i] + won[i]
  BY <1>1, <1>2, SeatsOf DEF PlayerRecords
<1>4. SumFunctionOnSet(k, S) = SumFunctionOnSet(c, S) + SumFunctionOnSet(won, S)
  <2>1. IsFiniteSet(S)
    BY <1>2, FS_Interval
  <2>2. \A i \in S : c[i] \in Int /\ won[i] \in Int /\ k[i] = c[i] + won[i]
    BY <1>3
  <2> QED BY <2>1, <2>2, SumPlus
<1>5. StacksOf(g) = SumFunctionOnSet(c, S)
  <2>1. \A i \in 1 .. n : c[i] = g.seats[i].chips
    BY <1>2
  <2> QED BY <1>2, <2>1, StacksAre
<1>6. StacksOf(h) = SumFunctionOnSet(k, S)
  <2>1. \A i \in 1 .. n : k[i] = h.seats[i].chips
    BY <1>2
  <2>2. h \in Games(n, N)
    BY <1>1
  <2>3. StacksOf(h) = SumFunctionOnSet(k, 1 .. n)
    BY <2>1, <2>2, StacksAre
  <2> QED BY <1>2, <2>3
<1>7. SumFunctionOnSet(won, S) \in Nat
  <2>1. IsFiniteSet(S) /\ \A i \in S : won[i] \in Nat
    BY <1>2, <1>3, FS_Interval
  <2> QED BY <2>1, SumNat
<1>8. OnFelt(g) = StacksOf(g) + g.pot /\ OnFelt(h) = StacksOf(h) /\ StacksOf(h) <= StacksOf(g) + g.pot
  <2>1. StacksOf(g) \in Nat /\ StacksOf(h) \in Nat /\ g.pot \in Nat
    BY <1>1, StacksAre DEF Games
  <2> QED BY <1>1, <1>2, <1>4, <1>5, <1>6, <1>7, <2>1 DEF OnFelt
<1>9. PaidOut(h, n)
  <2>1. \A p \in paid : p.winner = h.seats[p.seat].name
    BY <1>1, SeatsOf DEF SamePlayers
  <2>2. \A i \in 1 .. n : WonBySeat(paid, i) <= h.seats[i].chips
    <3>1. ASSUME NEW i \in 1 .. n PROVE WonBySeat(paid, i) <= h.seats[i].chips
      <4>1. /\ WonBySeat(paid, i) \in Nat /\ g.seats[i].chips \in Nat
            /\ h.seats[i].chips = g.seats[i].chips + WonBySeat(paid, i)
        BY <1>1, SeatsOf DEF PlayerRecords
      <4> QED BY <4>1
    <3> QED BY <3>1
  <2> QED BY <1>1, <2>1, <2>2 DEF PaidOut
<1> QED BY <1>8, <1>9

\* A showdown pays no more than the pot, where it covers the bets.
LEMMA ShowdownAddsNothing ==
  ASSUME NEW N, NEW n \in Nat, NEW g \in Games(n, N), g.started, PotCovers(g),
         g.payouts = {}, NEW h \in Outcomes(g)
  PROVE  OnFelt(h) <= OnFelt(g) /\ PaidOut(h, n)
<1>1. CASE ~ShowdownDue(g)
  <2>1. h = g
    BY <1>1 DEF Outcomes
  <2>2. OnFelt(g) \in Nat
    BY StacksAre
  <2> QED BY <2>1, <2>2, NothingPaid
<1>2. CASE ShowdownDue(g) /\ Cardinality(ActiveSeats(g)) = 1
  <2>1. PICK i : i \in ActiveSeats(g) /\ h = Finish(g, UncontestedPayout(g, i))
    <3>1. ActiveSeats(g) # {}
      BY <1>2, FS_EmptySet
    <3> QED BY <1>2, <3>1 DEF Outcomes, DoShowdown
  <2>2. i \in 1 .. n
    BY <2>1, PartsOfSeats
  <2>3. PICK e : e = [pot |-> {i}, seat |-> i, winner |-> g.seats[i].name, times |-> 1,
                      amount |-> g.pot]
    OBVIOUS
  <2>4. PICK paid \in SUBSET PayoutRecords(n, N) : paid = {e} /\ paid = UncontestedPayout(g, i)
    <3>1. g.pot \in Nat /\ g.seats[i].name \in N
      BY <2>2, SeatsOf DEF Games, PlayerRecords
    <3>2. e \in PayoutRecords(n, N)
      BY <2>2, <2>3, <3>1 DEF PayoutRecords
    <3>3. UncontestedPayout(g, i) = {e}
      BY <2>3 DEF UncontestedPayout
    <3> QED BY <3>2, <3>3
  <2>5. PICK won, f : /\ won = [j \in 1 .. n |-> WonBySeat(paid, j)]
                      /\ f = [p \in paid |-> p.times * p.amount]
    OBVIOUS
  <2>6. IsFiniteSet(paid) /\ g.pot \in Nat /\ f[e] = g.pot
    <3>1. e.times = 1 /\ e.amount = g.pot /\ g.pot \in Nat
      BY <2>3 DEF Games
    <3>2. f[e] = e.times * e.amount
      BY <2>4, <2>5
    <3>3. f[e] = 1 * g.pot
      BY <3>1, <3>2
    <3>4. IsFiniteSet(paid)
      BY <2>4, FS_Singleton
    <3> QED BY <3>1, <3>3, <3>4
  <2>7. \A p \in paid : f[p] = p.times * p.amount /\ f[p] \in Int /\ p.seat \in 1 .. n
    BY <2>2, <2>3, <2>4, <2>5, <2>6
  <2>8. \A j \in 1 .. n : won[j] = WonBySeat(paid, j)
    BY <2>5
  <2>9. SumFunctionOnSet(won, 1 .. n) = SumFunctionOnSet(f, paid)
    BY <2>6, <2>7, <2>8, WonSeatBySeat
  <2>10. SumFunctionOnSet(f, paid) = g.pot
    <3>1. SumFunctionOnSet(f, paid) = f[e] + SumFunctionOnSet(f, paid \ {e})
      <4>1. e \in paid /\ \A p \in paid : f[p] \in Int
        BY <2>4, <2>7
      <4> QED BY <2>6, <4>1, SumSplit
    <3>2. paid \ {e} = {}
      BY <2>4
    <3> QED BY <2>6, <3>1, <3>2, SumOfNothing
  <2>11. \A p \in paid : p.seat \in 1 .. n /\ p.winner = g.seats[p.seat].name
    BY <2>2, <2>3, <2>4
  <2>12. h = Finish(g, paid) /\ SumFunctionOnSet(won, 1 .. n) <= g.pot
    <3>1. h = Finish(g, paid)
      BY <2>1, <2>4
    <3>2. SumFunctionOnSet(won, 1 .. n) = g.pot
      BY <2>9, <2>10
    <3> QED BY <2>6, <3>1, <3>2
  <2> HIDE <2>2, <2>7
  <2> QED BY <2>6, <2>8, <2>11, <2>12, FinishPays
<1>3. CASE ShowdownDue(g) /\ Cardinality(ActiveSeats(g)) # 1
  <2>1. PICK strength : h = Finish(g, Payouts(g, strength))
    BY <1>3 DEF Outcomes, DoShowdown
  <2>2. PICK paid \in SUBSET PayoutRecords(n, N) :
          paid = Payouts(g, strength) /\ IsFiniteSet(paid)
    BY PayoutsAre
  <2>3. PICK won : won = [j \in 1 .. n |-> WonBySeat(paid, j)]
    OBVIOUS
  <2>4. \A j \in 1 .. n : won[j] = WonBySeat(paid, j)
    BY <2>3
  <2>5. SumFunctionOnSet(won, 1 .. n) <= BetInAll(g)
    BY <2>2, <2>4, WonAtMost
  <2>6. SumFunctionOnSet(won, 1 .. n) <= g.pot
    <3>1. \A j \in 1 .. n : won[j] \in Nat
      BY <2>2, <2>4, FinishIs
    <3>2. SumFunctionOnSet(won, 1 .. n) \in Nat
      <4>1. PICK S : S = 1 .. n
        OBVIOUS
      <4>2. IsFiniteSet(S) /\ \A j \in S : won[j] \in Nat
        BY <3>1, <4>1, FS_Interval
      <4>3. SumFunctionOnSet(won, S) \in Nat
        BY <4>2, SumNat
      <4> QED BY <4>1, <4>3
    <3>3. BetInAll(g) \in Nat /\ g.pot \in Nat
      BY BetInAllIs DEF Games
    <3> QED BY <2>5, <3>2, <3>3 DEF PotCovers
  <2>7. \A p \in paid : p.seat \in 1 .. n /\ p.winner = g.seats[p.seat].name
    BY <2>2, PaymentIs, PayoutsShare
  <2>8. h = Finish(g, paid)
    BY <2>1, <2>2
  <2> QED BY <2>2, <2>4, <2>6, <2>7, <2>8, FinishPays
<1> QED BY <1>1, <1>2, <1>3

\* However a hand goes on from d, nothing is put on the table.
LEMMA StepPays ==
  ASSUME NEW N, NEW n \in Nat, NEW d \in Games(n, N), d.started, d.payouts = {}, PotCovers(d),
         NEW b, Proper(d, b, n, N), NEW h \in Outcomes(b)
  PROVE  OnFelt(h) <= OnFelt(d) /\ PaidOut(h, n)
<1>1. /\ b \in Games(n, N) /\ SameMoney(d, b)
      /\ b.started /\ b.payouts = {} /\ b.pot = d.pot
      /\ \A i \in 1 .. n : b.seats[i].chips = d.seats[i].chips
  BY SeatsOf DEF Proper, SameMoney
<1>2. PotCovers(b)
  BY <1>1, SamePot, PotStays
<1>3. OnFelt(h) <= OnFelt(b) /\ PaidOut(h, n)
  BY <1>1, <1>2, ShowdownAddsNothing
<1>4. OnFelt(b) = OnFelt(d)
  <2>1. StacksOf(b) = StacksOf(d)
    BY <1>1, SameStacks
  <2> QED BY <1>1, <2>1 DEF OnFelt
<1> QED BY <1>3, <1>4

\* Nor does a decision, whatever comes of it.
LEMMA HumanActionPays ==
  ASSUME NEW N, NEW n \in Nat, NEW g \in Games(n, N), BigBlind \in Nat,
         g.started, g.payouts = {},
         RoundWithinHand(g), PotCovers(g), NEW i \in 1 .. n,
         NEW action \in Decisions, NEW amount \in Int,
         NEW h \in HumanAction(g, i, action, amount)
  PROVE  OnFelt(h) <= OnFelt(g) /\ PaidOut(h, n)
<1> DEFINE d == ApplyDecision(g, i, action, amount)
<1>1. h \in Outcomes(Proceed(d))
  BY DEF HumanAction
<1>2. KeepsBooks(g, d, n, N) /\ PotKept(g, d)
  BY ApplyDecisionIs
<1> HIDE DEF d
<1>3. /\ d \in Games(n, N) /\ d.started /\ d.payouts = {} /\ SameStake(g, d)
  BY <1>2 DEF KeepsBooks
<1>4. PotCovers(d)
  BY <1>2, <1>3, PotStays
<1>5. Proper(d, Proceed(d), n, N)
  BY <1>3, ProceedIs
<1>6. OnFelt(h) <= OnFelt(d) /\ PaidOut(h, n)
  BY <1>1, <1>3, <1>4, <1>5, StepPays
<1>7. OnFelt(d) = OnFelt(g)
  <2>1. StacksOf(d) + BetInAll(d) = StacksOf(g) + BetInAll(g)
    BY <1>3, SameStakeInAll
  <2>2. /\ StacksOf(d) \in Nat /\ StacksOf(g) \in Nat
        /\ BetInAll(d) \in Nat /\ BetInAll(g) \in Nat
    BY <1>3, StacksAre, BetInAllIs
  <2>3. d.pot \in Nat /\ g.pot \in Nat
    BY <1>3 DEF Games
  <2> QED BY <1>2, <1>3, <2>1, <2>2, <2>3 DEF PotKept, OnFelt
<1> QED BY <1>6, <1>7

\* A deal puts only stacks on the table.
LEMMA StartHandPays ==
  ASSUME NEW N, NEW n \in Nat, NEW g \in Games(n, N),
         SmallBlind \in Nat, BigBlind \in Nat,
         CanStartHand(g), NEW h \in StartHand(g)
  PROVE  OnFelt(h) <= StacksOf(g)
<1> DEFINE d == DealIn(g)
           b == PostBlinds(d)
<1>1. h \in Outcomes(StartBettingRound(b))
  BY DEF StartHand
<1>2. /\ d \in Games(n, N) /\ DealtInSeats(d) = DealtInSeats(g) /\ d.started
      /\ \A i \in 1 .. n : /\ d.seats[i].chips = g.seats[i].chips
                           /\ d.seats[i].totalBet = 0
                           /\ d.seats[i].roundBet = 0
      /\ d.payouts = {}
  BY DealInIs
<1>3. Cardinality(DealtInSeats(g)) >= 2
  BY DEF CanStartHand
<1> HIDE DEF d
<1>4. KeepsBooks(d, b, n, N) /\ PotIs(b)
  BY <1>2, <1>3, PostBlindsIs
<1>5. n > 0
  <2>1. DealtInSeats(g) # {}
    BY <1>3, FS_EmptySet
  <2>2. PICK i \in DealtInSeats(g) : i \in 1 .. n
    BY <2>1, PartsOfSeats
  <2> QED BY <2>2
<1> HIDE DEF b
<1>6. b \in Games(n, N) /\ b.started /\ b.payouts = {} /\ SameStake(d, b)
  BY <1>2, <1>4 DEF KeepsBooks
<1>7. PotCovers(b)
  BY <1>4, <1>6, PotIsCovers
<1>8. Proper(b, StartBettingRound(b), n, N)
  BY <1>5, <1>6, StartBettingRoundIs
<1>9. OnFelt(h) <= OnFelt(b)
  BY <1>1, <1>6, <1>7, <1>8, StepPays
<1>10. OnFelt(b) = StacksOf(g)
  <2>1. PICK s : s = [i \in 1 .. n |-> g.seats[i].chips]
    OBVIOUS
  <2>2. \A i \in 1 .. n : s[i] = g.seats[i].chips
    BY <2>1
  <2>3. \A i \in 1 .. n : s[i] = b.seats[i].chips + b.seats[i].totalBet
    <3>1. ASSUME NEW i \in 1 .. n
          PROVE  s[i] = b.seats[i].chips + b.seats[i].totalBet
      <4>1. b.seats[i].chips + b.seats[i].totalBet = d.seats[i].chips + d.seats[i].totalBet
        BY <1>2, <1>6, SeatsOf DEF SameStake
      <4>2. g.seats[i].chips \in Nat
        BY SeatsOf DEF PlayerRecords
      <4> QED BY <1>2, <2>2, <4>1, <4>2
    <3> QED BY <3>1
  <2>4. StacksOf(g) = SumFunctionOnSet(s, 1 .. n)
    BY <2>2, StacksAre
  <2>5. SumFunctionOnSet(s, 1 .. n) = StacksOf(b) + BetInAll(b)
    BY <1>6, <2>3, StakesInAll
  <2> QED BY <1>4, <1>6, <2>4, <2>5 DEF PotIs, OnFelt
<1> QED BY <1>9, <1>10
-----------------------------------------------------------------------------
\* The house and the referrer take no more of an award than there is.
LEMMA RakeIsPart ==
  ASSUME NEW user, NEW amount \in Nat
  PROVE  /\ SiteRake(amount) \in Nat /\ ReferralCut(user, amount) \in Nat
         /\ SiteRake(amount) + ReferralCut(user, amount) \in 0 .. amount
<1>1. ASSUME NEW percentage \in 0 .. 100
      PROVE  (amount * percentage) \div 100 \in 0 .. amount
  <2>1. PICK x \in Nat : x = amount * percentage
    OBVIOUS
  <2>2. x <= amount * 100
    <3>1. amount * (100 - percentage) >= 0
      OBVIOUS
    <3>2. amount * (100 - percentage) = amount * 100 - x
      BY <2>1
    <3> QED BY <3>1, <3>2
  <2>3. x \div 100 \in Nat /\ x % 100 \in 0 .. 99 /\ x = (x \div 100) * 100 + (x % 100)
    BY Division
  <2> QED BY <2>1, <2>2, <2>3
<1>2. SiteRake(amount) \in 0 .. amount
  <2>1. SmallBlind \in Nat /\ RakePercentage \in 0 .. 100
    BY BlindsAssumption, RakeAssumption
  <2>2. (amount * RakePercentage) \div 100 \in 0 .. amount
    BY <1>1, <2>1
  <2> QED BY <2>1, <2>2 DEF SiteRake, LesserOf
<1>3. ReferralCut(user, amount) \in 0 .. (amount - SiteRake(amount))
  <2>1. (amount * ReferralPercentage) \div 100 \in 0 .. amount
    BY <1>1, RakeAssumption
  <2> QED BY <1>2, <2>1 DEF ReferralCut, LesserOf
<1> QED BY <1>2, <1>3

\* What the rake takes off a player's stack, and brings an account.
LEMMA RakeIs ==
  ASSUME NEW N, NEW n \in Nat, NEW paid \in SUBSET PayoutRecords(n, N), IsFiniteSet(paid),
         NEW a
  PROVE  RakedFrom(a, paid) \in Nat /\ CommissionTo(a, paid) \in Nat
<1> DEFINE T == {p \in paid : p.winner = a}
           rake(p) == p.times * (SiteRake(p.amount) + ReferralCut(a, p.amount))
           house(p) == IF a = House THEN SiteRake(p.amount) ELSE 0
           referrer(p) == IF p.winner \in DOMAIN ReferrerOf /\ a = ReferrerOf[p.winner]
                          THEN ReferralCut(p.winner, p.amount) ELSE 0
           share(p) == p.times * (house(p) + referrer(p))
           rakes == [p \in T |-> rake(p)]
           shares == [p \in paid |-> share(p)]
<1>1. ASSUME NEW p \in paid
      PROVE  rake(p) \in Nat /\ share(p) \in Nat
  <2>1. PICK t \in Nat, x \in Nat : t = p.times /\ x = p.amount
    BY DEF PayoutRecords
  <2>2. PICK s \in Nat, c \in Nat, d \in Nat :
          s = SiteRake(x) /\ c = ReferralCut(a, x) /\ d = ReferralCut(p.winner, x)
    BY RakeIsPart
  <2>3. rake(p) = t * (s + c)
    BY <2>1, <2>2
  <2>4. PICK u \in Nat, v \in Nat : u = house(p) /\ v = referrer(p)
    BY <2>1, <2>2
  <2>5. share(p) = t * (u + v)
    BY <2>1, <2>4
  <2> HIDE DEF rake, share
  <2>6. t * (s + c) \in Nat /\ t * (u + v) \in Nat
    OBVIOUS
  <2> QED BY <2>3, <2>5, <2>6
<1>2. RakedFrom(a, paid) = SumFunctionOnSet(rakes, T)
  BY Zenon DEF RakedFrom, SumOver
<1>3. CommissionTo(a, paid) = SumFunctionOnSet(shares, paid)
  BY Zenon DEF CommissionTo, SumOver
<1> HIDE DEF rake, share
<1>4. IsFiniteSet(T) /\ \A p \in T : rakes[p] \in Nat
  BY <1>1, FS_Subset
<1>5. \A p \in paid : shares[p] \in Nat
  BY <1>1
<1> HIDE DEF T, rakes, shares
<1>6. SumFunctionOnSet(rakes, T) \in Nat
  BY <1>4, SumNat
<1>7. SumFunctionOnSet(shares, paid) \in Nat
  BY <1>5, SumNat
<1> QED BY <1>2, <1>3, <1>6, <1>7

\* The rake comes off the stacks, as far as they reach, and nothing else changes.
LEMMA RakedIs ==
  ASSUME NEW N, NEW n \in Nat, NEW g \in Games(n, N), IsFiniteSet(g.payouts)
  PROVE  /\ Raked(g) \in Games(n, N)
         /\ Raked(g).payouts = {} /\ Raked(g).pot = g.pot
         /\ Raked(g).started = g.started /\ Raked(g).intermission = g.intermission
         /\ SamePlayers(g, Raked(g))
         /\ \A i \in 1 .. n :
              /\ Raked(g).seats[i].chips
                   = g.seats[i].chips
                       - LesserOf(g.seats[i].chips, RakedFrom(g.seats[i].name, g.payouts))
              /\ Raked(g).seats[i].roundBet = g.seats[i].roundBet
              /\ Raked(g).seats[i].totalBet = g.seats[i].totalBet
<1> DEFINE taken(i) == LesserOf(g.seats[i].chips, RakedFrom(g.seats[i].name, g.payouts))
           seat(i) == [g.seats[i] EXCEPT
                         !.chips = @ - LesserOf(@, RakedFrom(g.seats[i].name, g.payouts))]
           q == [i \in 1 .. n |-> seat(i)]
<1>1. Seats(g) = 1 .. n /\ Len(g.seats) = n
  BY SeatsOf
<1>2. ASSUME NEW i \in 1 .. n
      PROVE  /\ seat(i) \in PlayerRecords(N)
             /\ seat(i).chips = g.seats[i].chips - taken(i)
             /\ seat(i).roundBet = g.seats[i].roundBet
             /\ seat(i).totalBet = g.seats[i].totalBet
             /\ seat(i).name = g.seats[i].name /\ seat(i).sittingOut = g.seats[i].sittingOut
  <2>1. PICK p \in PlayerRecords(N) : p = g.seats[i]
    BY SeatsOf
  <2>2. RakedFrom(p.name, g.payouts) \in Nat
    <3>1. g.payouts \in SUBSET PayoutRecords(n, N)
      BY DEF Games
    <3> QED BY <3>1, RakeIs
  <2>3. PICK r \in Nat : r = RakedFrom(p.name, g.payouts)
    BY <2>2
  <2>4. p.chips \in Nat
    BY DEF PlayerRecords
  <2>5. PICK c \in Nat : c = p.chips - LesserOf(p.chips, r)
    BY <2>3, <2>4 DEF LesserOf
  <2>6. seat(i) = [p EXCEPT !.chips = c] /\ c = g.seats[i].chips - taken(i)
    BY <2>1, <2>3, <2>5
  <2> HIDE DEF seat, taken
  <2> QED BY <2>1, <2>5, <2>6 DEF PlayerRecords
<1>3. Raked(g).seats = SubSeq(q, 1, n)
  <2>1. g = [g EXCEPT !.payouts = g.payouts]
    BY DEF Games
  <2> QED BY <1>1, <2>1 DEF Raked, SeatsBy, Games
<1> HIDE DEF seat, taken
<1>4. q \in [1 .. n -> PlayerRecords(N)] /\ \A i \in 1 .. n : q[i] = seat(i)
  BY <1>2
<1> HIDE DEF q
<1>5. Raked(g).seats = q
  BY <1>3, <1>4, SeatsRewritten
<1>6. PICK h : h = Raked(g)
  OBVIOUS
<1>7. PICK f \in [1 .. n -> PlayerRecords(N)], o \in SUBSET PayoutRecords(n, N) :
        f = q /\ o = {}
  BY <1>4
<1>8. h = [g EXCEPT !.payouts = o, !.seats = f]
  <2>1. PICK x : h = [g EXCEPT !.payouts = {}, !.seats = x]
    BY <1>6 DEF Raked
  <2>2. h.seats = x
    BY <2>1 DEF Games
  <2> QED BY <1>5, <1>6, <1>7, <2>1, <2>2
<1>9. /\ h \in Games(n, N) /\ h.payouts = o /\ h.seats = f
      /\ h.pot = g.pot /\ h.started = g.started /\ h.intermission = g.intermission
  BY <1>8 DEF Games
<1> QED BY <1>1, <1>2, <1>4, <1>6, <1>7, <1>9 DEF SamePlayers, taken

\* The two legs of the rake of a payment, and to whom they go.
HouseLeg(paid) == [p \in paid |-> p.times * SiteRake(p.amount)]
ReferralLeg(paid) ==
  [p \in paid |-> IF p.winner \in DOMAIN ReferrerOf
                  THEN p.times * ReferralCut(p.winner, p.amount) ELSE 0]
HouseOf(paid) == [p \in paid |-> House]
ReferrerOfWinner(paid) ==
  [p \in paid |-> IF p.winner \in DOMAIN ReferrerOf THEN ReferrerOf[p.winner] ELSE House]
RakeOf(paid) == [p \in paid |-> p.times * (SiteRake(p.amount) + ReferralCut(p.winner, p.amount))]

\* The legs are the rake, and no more than the payment.
LEMMA LegsAre ==
  ASSUME NEW N, NEW n \in Nat, NEW paid \in SUBSET PayoutRecords(n, N), NEW p \in paid
  PROVE  /\ HouseLeg(paid)[p] \in Nat /\ ReferralLeg(paid)[p] \in Nat
         /\ RakeOf(paid)[p] = HouseLeg(paid)[p] + ReferralLeg(paid)[p]
         /\ RakeOf(paid)[p] \in Nat
         /\ RakeOf(paid)[p] <= p.times * p.amount
         /\ p.times * p.amount \in Nat
<1>1. PICK t \in Nat, x \in Nat, u \in N : t = p.times /\ x = p.amount /\ u = p.winner
  BY DEF PayoutRecords
<1>2. PICK s \in Nat, c \in Nat : s = SiteRake(x) /\ c = ReferralCut(u, x) /\ s + c <= x
  BY RakeIsPart
<1>3. u \notin DOMAIN ReferrerOf => c = 0
  BY <1>2 DEF ReferralCut
<1>4. /\ HouseLeg(paid)[p] = t * s /\ RakeOf(paid)[p] = t * (s + c)
      /\ ReferralLeg(paid)[p] = IF u \in DOMAIN ReferrerOf THEN t * c ELSE 0
  BY <1>1, <1>2 DEF HouseLeg, RakeOf, ReferralLeg
<1>5. /\ t * (s + c) = t * s + t * c /\ t * s \in Nat /\ t * c \in Nat
      /\ t * x \in Nat /\ t * (x - (s + c)) >= 0 /\ t * (x - (s + c)) = t * x - t * (s + c)
  BY <1>2
<1>6. ReferralLeg(paid)[p] = t * c
  <2>1. CASE u \in DOMAIN ReferrerOf
    BY <1>4, <2>1
  <2>2. CASE u \notin DOMAIN ReferrerOf
    <3>1. t * c = 0
      BY <1>3, <2>2
    <3> QED BY <1>4, <2>2, <3>1
  <2> QED BY <2>1, <2>2
<1> QED BY <1>1, <1>4, <1>5, <1>6

\* What the rake brings one account.
LEMMA CommissionIs ==
  ASSUME NEW N, NEW n \in Nat, NEW paid \in SUBSET PayoutRecords(n, N), IsFiniteSet(paid),
         NEW a
  PROVE  CommissionTo(a, paid)
           = SumFunctionOnSet(HouseLeg(paid), KeyedAs(paid, HouseOf(paid), a))
             + SumFunctionOnSet(ReferralLeg(paid), KeyedAs(paid, ReferrerOfWinner(paid), a))
<1> DEFINE house(p) == IF a = House THEN SiteRake(p.amount) ELSE 0
           referrer(p) == IF p.winner \in DOMAIN ReferrerOf /\ a = ReferrerOf[p.winner]
                          THEN ReferralCut(p.winner, p.amount) ELSE 0
           share(p) == p.times * (house(p) + referrer(p))
           shares == [p \in paid |-> share(p)]
           mine == [p \in paid |-> IF a = House THEN HouseLeg(paid)[p] ELSE 0]
           owed == [p \in paid |-> IF ReferrerOfWinner(paid)[p] = a
                                   THEN ReferralLeg(paid)[p] ELSE 0]
           H == KeyedAs(paid, HouseOf(paid), a)
           R == KeyedAs(paid, ReferrerOfWinner(paid), a)
<1>1. CommissionTo(a, paid) = SumFunctionOnSet(shares, paid)
  BY Zenon DEF CommissionTo, SumOver
<1>2. ASSUME NEW p \in paid
      PROVE  /\ shares[p] = mine[p] + owed[p] /\ mine[p] \in Int /\ owed[p] \in Int
             /\ p \in H => mine[p] = HouseLeg(paid)[p]
             /\ p \notin H => mine[p] = 0
             /\ p \in R => owed[p] = ReferralLeg(paid)[p]
             /\ p \notin R => owed[p] = 0
  <2>1. PICK t \in Nat, x \in Nat, u \in N : t = p.times /\ x = p.amount /\ u = p.winner
    BY DEF PayoutRecords
  <2>2. PICK s \in Nat, c \in Nat : s = SiteRake(x) /\ c = ReferralCut(u, x)
    BY RakeIsPart
  <2>3. HouseLeg(paid)[p] = t * s
    BY <2>1, <2>2 DEF HouseLeg
  <2>4. ReferralLeg(paid)[p] = IF u \in DOMAIN ReferrerOf THEN t * c ELSE 0
    BY <2>1, <2>2 DEF ReferralLeg
  <2>5. mine[p] = IF a = House THEN t * s ELSE 0
    BY <2>3
  <2>6. owed[p] = IF u \in DOMAIN ReferrerOf /\ a = ReferrerOf[u] THEN t * c ELSE 0
    <3>1. ReferrerOfWinner(paid)[p] = IF u \in DOMAIN ReferrerOf THEN ReferrerOf[u] ELSE House
      BY <2>1 DEF ReferrerOfWinner
    <3> QED BY <2>4, <3>1
  <2>7. shares[p] = t * ((IF a = House THEN s ELSE 0)
                         + (IF u \in DOMAIN ReferrerOf /\ a = ReferrerOf[u] THEN c ELSE 0))
    BY <2>1, <2>2
  <2>8. /\ t * s \in Nat /\ t * c \in Nat /\ t * (s + c) = t * s + t * c
        /\ t * (s + 0) = t * s /\ t * (0 + c) = t * c /\ t * (0 + 0) = 0
    OBVIOUS
  <2>9. p \in H <=> a = House
    BY DEF KeyedAs, HouseOf
  <2>10. p \in R <=> ReferrerOfWinner(paid)[p] = a
    BY DEF KeyedAs
  <2>11. p \in R => owed[p] = ReferralLeg(paid)[p]
    BY <2>10
  <2>12. p \notin R => owed[p] = 0
    BY <2>10
  <2> HIDE DEF shares, mine, owed, H, R
  <2>13. shares[p] = mine[p] + owed[p] /\ mine[p] \in Int /\ owed[p] \in Int
    BY <2>5, <2>6, <2>7, <2>8
  <2> QED BY <2>3, <2>5, <2>9, <2>11, <2>12, <2>13
<1>3. H \in SUBSET paid /\ R \in SUBSET paid
  BY DEF KeyedAs
<1> HIDE DEF shares, mine, owed, H, R
<1>4. SumFunctionOnSet(shares, paid) = SumFunctionOnSet(mine, paid) + SumFunctionOnSet(owed, paid)
  <2>1. \A p \in paid : mine[p] \in Int /\ owed[p] \in Int /\ shares[p] = mine[p] + owed[p]
    BY <1>2
  <2> QED BY <2>1, SumPlus
<1>5. SumFunctionOnSet(mine, paid) = SumFunctionOnSet(HouseLeg(paid), H)
  <2>1. \A p \in paid : mine[p] \in Int
    BY <1>2
  <2>2. \A p \in H : mine[p] = HouseLeg(paid)[p]
    BY <1>2, <1>3
  <2>3. \A p \in paid \ H : mine[p] = 0
    BY <1>2
  <2> QED BY ONLY <1>3, <2>1, <2>2, <2>3, IsFiniteSet(paid), SumWhere, ZenonT(30)
<1>6. SumFunctionOnSet(owed, paid) = SumFunctionOnSet(ReferralLeg(paid), R)
  <2>1. \A p \in paid : owed[p] \in Int
    BY <1>2
  <2>2. \A p \in R : owed[p] = ReferralLeg(paid)[p]
    BY <1>2, <1>3
  <2>3. \A p \in paid \ R : owed[p] = 0
    BY <1>2
  <2> QED BY ONLY <1>3, <2>1, <2>2, <2>3, IsFiniteSet(paid), SumWhere, ZenonT(30)
<1> QED BY <1>1, <1>4, <1>5, <1>6 DEF H, R

\* The accounts take together no more than the rake of all the payments.
LEMMA CommissionsAtMost ==
  ASSUME NEW N, NEW n \in Nat, NEW paid \in SUBSET PayoutRecords(n, N), IsFiniteSet(paid),
         NEW A, IsFiniteSet(A),
         NEW com, \A a \in A : com[a] = CommissionTo(a, paid)
  PROVE  SumFunctionOnSet(com, A) <= SumFunctionOnSet(RakeOf(paid), paid)
<1>1. PICK h, r, rake : h = HouseLeg(paid) /\ r = ReferralLeg(paid) /\ rake = RakeOf(paid)
  OBVIOUS
<1>2. \A p \in paid : h[p] \in Nat /\ r[p] \in Nat /\ rake[p] = h[p] + r[p]
  BY <1>1, LegsAre
<1>3. PICK hs, rs : /\ hs = [a \in A |-> SumFunctionOnSet(h, KeyedAs(paid, HouseOf(paid), a))]
                    /\ rs = [a \in A |-> SumFunctionOnSet(r, KeyedAs(paid, ReferrerOfWinner(paid), a))]
  OBVIOUS
<1>4. /\ SumFunctionOnSet(hs, A) <= SumFunctionOnSet(h, paid)
      /\ \A a \in A : hs[a] \in Nat
  <2>1. \A p \in paid : h[p] \in Nat
    BY <1>2
  <2>2. \A a \in A : hs[a] = SumFunctionOnSet(h, KeyedAs(paid, HouseOf(paid), a))
    BY <1>3
  <2> QED BY ONLY <2>1, <2>2, IsFiniteSet(paid), IsFiniteSet(A), SharedOut, ZenonT(30)
<1>5. /\ SumFunctionOnSet(rs, A) <= SumFunctionOnSet(r, paid)
      /\ \A a \in A : rs[a] \in Nat
  <2>1. \A p \in paid : r[p] \in Nat
    BY <1>2
  <2>2. \A a \in A : rs[a] = SumFunctionOnSet(r, KeyedAs(paid, ReferrerOfWinner(paid), a))
    BY <1>3
  <2> QED BY ONLY <2>1, <2>2, IsFiniteSet(paid), IsFiniteSet(A), SharedOut, ZenonT(30)
<1>6. SumFunctionOnSet(com, A) = SumFunctionOnSet(hs, A) + SumFunctionOnSet(rs, A)
  <2>1. ASSUME NEW a \in A
        PROVE  hs[a] \in Int /\ rs[a] \in Int /\ com[a] = hs[a] + rs[a]
    <3>1. hs[a] = SumFunctionOnSet(HouseLeg(paid), KeyedAs(paid, HouseOf(paid), a))
      BY <1>1, <1>3
    <3>2. rs[a] = SumFunctionOnSet(ReferralLeg(paid), KeyedAs(paid, ReferrerOfWinner(paid), a))
      BY <1>1, <1>3
    <3>3. CommissionTo(a, paid) = hs[a] + rs[a]
      BY <3>1, <3>2, CommissionIs
    <3> QED BY <1>4, <1>5, <3>3
  <2> QED BY <2>1, SumPlus
<1>7. SumFunctionOnSet(rake, paid) = SumFunctionOnSet(h, paid) + SumFunctionOnSet(r, paid)
  <2>1. \A p \in paid : h[p] \in Int /\ r[p] \in Int /\ rake[p] = h[p] + r[p]
    BY <1>2
  <2> QED BY <2>1, SumPlus
<1>8. /\ SumFunctionOnSet(hs, A) \in Int /\ SumFunctionOnSet(rs, A) \in Int
      /\ SumFunctionOnSet(h, paid) \in Int /\ SumFunctionOnSet(r, paid) \in Int
  <2>1. \A p \in paid : h[p] \in Int /\ r[p] \in Int
    BY <1>2
  <2>2. \A a \in A : hs[a] \in Int /\ rs[a] \in Int
    BY <1>4, <1>5
  <2> QED BY <2>1, <2>2, SumType
<1> QED BY <1>1, <1>4, <1>5, <1>6, <1>7, <1>8

\* The rake moves chips from the stacks to the accounts, and makes none.
LEMMA RakeMovesChips ==
  ASSUME NEW N, NEW n \in Nat, NEW g \in Games(n, N), PaidOut(g, n),
         \A i, j \in 1 .. n : g.seats[i].name = g.seats[j].name => i = j,
         NEW A, IsFiniteSet(A),
         NEW com, \A a \in A : com[a] = CommissionTo(a, g.payouts)
  PROVE  /\ StacksOf(Raked(g)) + SumFunctionOnSet(com, A) <= StacksOf(g)
         /\ SumFunctionOnSet(com, A) \in Nat
<1>0. PICK rake : rake = RakeOf(g.payouts)
  OBVIOUS
<1>1. PICK paid \in SUBSET PayoutRecords(n, N) : paid = g.payouts /\ rake = RakeOf(paid)
  BY <1>0 DEF Games
<1>2. /\ IsFiniteSet(paid)
      /\ \A p \in paid : /\ p.seat \in 1 .. n /\ p.winner = g.seats[p.seat].name
                         /\ rake[p] \in Nat /\ rake[p] <= p.times * p.amount
                         /\ p.times * p.amount \in Nat
  BY <1>1, LegsAre DEF PaidOut
<1>3. PICK seat, S, taken, c, k :
        /\ seat = [p \in paid |-> p.seat]
        /\ S = 1 .. n
        /\ taken = [i \in S |-> SumFunctionOnSet(rake, KeyedAs(paid, seat, i))]
        /\ c = [i \in S |-> g.seats[i].chips]
        /\ k = [i \in S |-> Raked(g).seats[i].chips]
  OBVIOUS
<1>4. ASSUME NEW i \in S
      PROVE  /\ taken[i] \in Nat /\ taken[i] <= g.seats[i].chips
             /\ RakedFrom(g.seats[i].name, paid) = taken[i]
  <2>1. PICK T, f, w : /\ T = {p \in paid : p.seat = i}
                       /\ f = [p \in T |-> p.times * p.amount]
                       /\ w = g.seats[i].name
    OBVIOUS
  <2>2. T = KeyedAs(paid, seat, i) /\ IsFiniteSet(T)
    BY <1>2, <1>3, <2>1, FS_Subset DEF KeyedAs
  <2>3. T = {p \in paid : p.winner = w}
    <3>1. ASSUME NEW p \in paid PROVE p.seat = i <=> p.winner = w
      <4>1. i \in 1 .. n /\ p.seat \in 1 .. n /\ p.winner = g.seats[p.seat].name
        BY <1>2, <1>3
      <4> QED BY <2>1, <4>1
    <3> QED BY <2>1, <3>1
  <2>4. PICK r : r = [p \in T |-> p.times * (SiteRake(p.amount) + ReferralCut(w, p.amount))]
    OBVIOUS
  <2>5. RakedFrom(w, paid) = SumFunctionOnSet(r, T)
    BY <2>3, <2>4, Zenon DEF RakedFrom, SumOver
  <2>6. WonBySeat(paid, i) = SumFunctionOnSet(f, T)
    BY <2>1 DEF WonBySeat, SumOver
  <2>7. \A p \in T : rake[p] \in Nat /\ f[p] \in Int /\ rake[p] <= f[p]
    BY <1>2, <2>1
  <2>8. \A p \in T : r[p] = rake[p]
    BY <1>1, <2>3, <2>4 DEF RakeOf
  <2>9. SumFunctionOnSet(r, T) = SumFunctionOnSet(rake, T)
    BY <2>2, <2>8, SumSame
  <2>10. SumFunctionOnSet(rake, T) \in Nat
    BY <2>2, <2>7, SumNat
  <2>11. SumFunctionOnSet(rake, T) <= SumFunctionOnSet(f, T)
    <3>1. \A p \in T : rake[p] \in Int /\ f[p] \in Int /\ rake[p] <= f[p]
      BY <2>7
    <3> QED BY <2>2, <3>1, SumAtMost
  <2>12. SumFunctionOnSet(f, T) \in Int
    BY <2>2, <2>7, SumType
  <2>13. WonBySeat(paid, i) <= g.seats[i].chips
    BY <1>1, <1>3 DEF PaidOut
  <2>14. g.seats[i].chips \in Nat
    BY <1>3, SeatsOf DEF PlayerRecords
  <2>15. taken[i] = SumFunctionOnSet(rake, T)
    BY <1>3, <2>2
  <2>16. taken[i] \in Nat /\ taken[i] <= g.seats[i].chips
    BY <2>6, <2>10, <2>11, <2>12, <2>13, <2>14, <2>15
  <2> QED BY <2>1, <2>5, <2>9, <2>15, <2>16
<1>5. ASSUME NEW i \in S
      PROVE  /\ c[i] \in Int /\ k[i] \in Int /\ taken[i] \in Int /\ c[i] = k[i] + taken[i]
  <2>1. PICK x \in Nat, y \in Nat : x = g.seats[i].chips /\ y = taken[i] /\ y <= x
    BY <1>3, <1>4, SeatsOf DEF PlayerRecords
  <2>2. Raked(g).seats[i].chips = x - LesserOf(x, RakedFrom(g.seats[i].name, paid))
    BY <1>1, <1>2, <1>3, <2>1, RakedIs
  <2>3. LesserOf(x, y) = y
    BY <2>1 DEF LesserOf
  <2>4. k[i] = x - y /\ c[i] = x
    BY <1>3, <1>4, <2>1, <2>2, <2>3
  <2> QED BY <2>1, <2>4
<1>6. IsFiniteSet(S)
  <2>1. S = 1 .. n
    BY <1>3
  <2>2. 1 \in Int /\ n \in Int
    OBVIOUS
  <2>3. IsFiniteSet(1 .. n)
    BY ONLY <2>2, FS_Interval
  <2> QED BY ONLY <2>1, <2>3
<1>7. SumFunctionOnSet(c, S) = SumFunctionOnSet(k, S) + SumFunctionOnSet(taken, S)
  BY <1>5, <1>6, SumPlus
<1>8. StacksOf(g) = SumFunctionOnSet(c, S)
  <2>1. \A i \in 1 .. n : c[i] = g.seats[i].chips
    BY <1>3
  <2> QED BY <1>3, <2>1, StacksAre
<1>9. StacksOf(Raked(g)) = SumFunctionOnSet(k, S)
  <2>1. PICK h \in Games(n, N) : h = Raked(g)
    BY <1>1, <1>2, RakedIs
  <2>2. \A i \in 1 .. n : k[i] = h.seats[i].chips
    BY <1>3, <2>1
  <2>3. StacksOf(h) = SumFunctionOnSet(k, 1 .. n)
    BY <2>2, StacksAre
  <2> QED BY <1>3, <2>1, <2>3
<1>10. SumFunctionOnSet(taken, S) = SumFunctionOnSet(rake, paid)
  <2>1. \A p \in paid : rake[p] \in Int
    BY <1>2
  <2>2. \A i \in S : taken[i] = SumFunctionOnSet(rake, KeyedAs(paid, seat, i))
    BY <1>3
  <2>3. SumFunctionOnSet(taken, S) = SumFunctionOnSet(rake, Keyed(paid, seat, S))
    BY <1>2, <1>6, <2>1, <2>2, SumByGroups
  <2>4. Keyed(paid, seat, S) = paid
    BY <1>2, <1>3 DEF Keyed
  <2> QED BY <2>3, <2>4
<1>11. SumFunctionOnSet(com, A) <= SumFunctionOnSet(rake, paid)
  BY <1>1, <1>2, CommissionsAtMost
<1>12. SumFunctionOnSet(com, A) \in Nat
  <2>1. \A a \in A : com[a] \in Nat
    BY <1>1, <1>2, RakeIs
  <2> QED BY <2>1, SumNat
<1>13. SumFunctionOnSet(k, S) \in Int /\ SumFunctionOnSet(rake, paid) \in Int
  <2>1. \A i \in S : k[i] \in Int
    BY <1>5
  <2>2. \A p \in paid : rake[p] \in Int
    BY <1>2
  <2> QED BY <1>2, <1>6, <2>1, <2>2, SumType
<1> QED BY <1>7, <1>8, <1>9, <1>10, <1>11, <1>12, <1>13

-----------------------------------------------------------------------------
(***************************************************************************)
(* Somebody is paid.                                                        *)
(***************************************************************************)
\* What a player who is still in the hand has: chips to go on with, or all of
\* them bet; and, once the first round is over, a bet from before this round.
InFor(p, phase) ==
  /\ p.allIn \/ p.chips > 0
  /\ p.allIn => p.totalBet > 0
  /\ phase # 0 => p.totalBet > p.roundBet

PaidIn(g) ==
  /\ g.phase = 0 => g.currentBet > 0
  /\ \A i \in ActiveSeats(g) : InFor(g.seats[i], g.phase)

\* There is a bet that somebody can still win back.
Contested(g) == \E i \in ActiveSeats(g) : g.seats[i].totalBet > 0

\* The end of a hand that paid somebody.
PaidFor(h) == h.intermission /\ h.lastWinner /\ h.payouts # {}

\* Who is in a hand stays paid in while he and the bet to meet stay the same.
LEMMA PaidInStays ==
  ASSUME NEW g, NEW h, PaidIn(g),
         h.phase = 0 <=> g.phase = 0, h.currentBet = g.currentBet,
         \A i \in ActiveSeats(h) : \E j \in ActiveSeats(g) : SameHand(g.seats[j], h.seats[i])
  PROVE  PaidIn(h)
BY DEF PaidIn, InFor, SameHand

\* Contenders for a bet are paid.
LEMMA ContestedPays ==
  ASSUME NEW N, NEW n \in Nat, NEW g \in Games(n, N), Contested(g), NEW strength \in Rankings(g)
  PROVE  Payouts(g, strength) # {}
<1>1. PICK i \in ActiveSeats(g) : g.seats[i].totalBet > 0
  BY DEF Contested
<1>2. i \in 1 .. n /\ Seats(g) = 1 .. n
  BY PartsOfSeats, SeatsOf
<1>3. PICK level : level = g.seats[i].totalBet
  OBVIOUS
<1>4. level \in Levels(g)
  BY <1>1, <1>2, <1>3 DEF Levels, Contributors
<1>5. PICK E : E = LayerOf(g, level).contenders
  OBVIOUS
<1>6. E = {j \in ActiveSeats(g) : g.seats[j].totalBet >= level}
  BY <1>4, <1>5, ContendersAre
<1>7. i \in E
  <2>1. level \in Nat
    BY <1>4, LevelsAre
  <2> QED BY <1>1, <1>3, <1>6, <2>1
<1>8. E \in Fields(g) /\ E # {} /\ E \in SUBSET ActiveSeats(g)
  BY <1>4, <1>5, <1>6, <1>7 DEF Fields
<1>9. PICK j : j \in WinnersOf(E, strength)
  BY <1>8, SomebodyWins
<1>10. \E p \in Payouts(g, strength) : p.pot = E /\ p.seat = j
  BY <1>8, <1>9, PayoutsShare
<1> QED BY <1>10

\* A showdown pays the last one in, or somebody with a bet to win.
LEMMA SomebodyIsPaid ==
  ASSUME NEW N, NEW n \in Nat, NEW g \in Games(n, N),
         Cardinality(ActiveSeats(g)) = 1 \/ Contested(g), NEW h \in DoShowdown(g)
  PROVE  PaidFor(h)
<1>1. PICK paid : /\ h = Finish(g, paid) /\ paid \in SUBSET PayoutRecords(n, N)
                  /\ IsFiniteSet(paid) /\ paid # {}
  <2>1. CASE Cardinality(ActiveSeats(g)) = 1
    <3>1. PICK i : i = CHOOSE j \in ActiveSeats(g) : TRUE
      OBVIOUS
    <3>2. h = Finish(g, UncontestedPayout(g, i))
      BY <2>1, <3>1 DEF DoShowdown
    <3>3. i \in 1 .. n
      <4>1. ActiveSeats(g) # {}
        BY <2>1, FS_EmptySet
      <4> QED BY <3>1, <4>1, PartsOfSeats
    <3>4. g.pot \in Nat /\ g.seats[i].name \in N
      BY <3>3, SeatsOf DEF Games, PlayerRecords
    <3>5. UncontestedPayout(g, i) \in SUBSET PayoutRecords(n, N)
      BY <3>3, <3>4 DEF UncontestedPayout, PayoutRecords
    <3>6. IsFiniteSet(UncontestedPayout(g, i)) /\ UncontestedPayout(g, i) # {}
      BY FS_Singleton DEF UncontestedPayout
    <3> QED BY <3>2, <3>5, <3>6
  <2>2. CASE Cardinality(ActiveSeats(g)) # 1
    <3>1. PICK strength \in Rankings(g) : h = Finish(g, Payouts(g, strength))
      BY <2>2 DEF DoShowdown
    <3>2. Payouts(g, strength) # {}
      BY <2>2, ContestedPays
    <3> QED BY <3>1, <3>2, PayoutsAre
  <2> QED BY <2>1, <2>2
<1>2. h.intermission /\ h.payouts = paid /\ h.lastWinner = (paid # {})
  BY <1>1, FinishIs
<1> QED BY <1>1, <1>2 DEF PaidFor

-----------------------------------------------------------------------------
\* Who bets out of a stack is in for it.
LEMMA BetIsIn ==
  ASSUME NEW N, NEW p \in PlayerRecords(N), NEW amount \in Int, NEW phase,
         p.roundBet + amount >= 0, p.roundBet <= p.totalBet,
         ~p.allIn, InFor(p, phase),
         NEW q, q = [PlaceBet(p, amount) EXCEPT !.hasActed = TRUE]
  PROVE  InFor(q, phase) /\ q.folded = p.folded /\ q.roundBet = p.roundBet + Staked(p, amount)
<1>1. /\ PlaceBet(p, amount) \in PlayerRecords(N)
      /\ Staked(p, amount) \in Int
      /\ Staked(p, amount) <= p.chips
      /\ PlaceBet(p, amount).chips = p.chips - Staked(p, amount)
      /\ PlaceBet(p, amount).totalBet = p.totalBet + Staked(p, amount)
      /\ PlaceBet(p, amount).roundBet = p.roundBet + Staked(p, amount)
      /\ PlaceBet(p, amount).folded = p.folded
      /\ PlaceBet(p, amount).allIn <=> p.allIn \/ Staked(p, amount) = p.chips
  BY PlaceBetIs
<1>2. /\ q.chips = PlaceBet(p, amount).chips
      /\ q.totalBet = PlaceBet(p, amount).totalBet
      /\ q.roundBet = PlaceBet(p, amount).roundBet
      /\ q.folded = PlaceBet(p, amount).folded
      /\ q.allIn = PlaceBet(p, amount).allIn
  BY <1>1 DEF PlayerRecords
<1>3. p.chips \in Nat /\ p.totalBet \in Nat /\ p.roundBet \in Nat
  BY DEF PlayerRecords
<1>4. p.chips > 0
  BY DEF InFor
<1>5. q.allIn <=> Staked(p, amount) = p.chips
  BY <1>1, <1>2
<1>6. /\ q.chips = p.chips - Staked(p, amount)
      /\ q.totalBet = p.totalBet + Staked(p, amount)
      /\ q.roundBet = p.roundBet + Staked(p, amount)
  BY <1>1, <1>2
<1>7. q.allIn \/ q.chips > 0
  BY <1>1, <1>3, <1>5, <1>6
<1>8. q.allIn => q.totalBet > 0
  BY <1>3, <1>4, <1>5, <1>6
<1>9. phase # 0 => q.totalBet > q.roundBet
  BY <1>1, <1>3, <1>6 DEF InFor
<1> QED BY <1>1, <1>2, <1>7, <1>8, <1>9 DEF InFor
\* What a decision of the player in seat i may change: he bets or folds, and
\* the others are at most asked again.
DecidesIn(g, d, n, i) ==
  /\ PaidIn(d) /\ d.phase = g.phase
  /\ ActiveSeats(d) \subseteq ActiveSeats(g) /\ ActiveSeats(g) \ {i} \subseteq ActiveSeats(d)

\* Where seat i alone is rewritten.
LEMMA SeatDecides ==
  ASSUME NEW N, NEW n \in Nat, NEW g \in Games(n, N), PaidIn(g), NEW i \in 1 .. n,
         i \in ActiveSeats(g), NEW d \in Games(n, N),
         d.phase = g.phase, d.phase = 0 => d.currentBet >= g.currentBet,
         d.seats[i].folded \/ InFor(d.seats[i], d.phase),
         \A j \in 1 .. n : j # i => SameHand(g.seats[j], d.seats[j])
  PROVE  DecidesIn(g, d, n, i)
<1>1. Seats(g) = 1 .. n /\ Seats(d) = 1 .. n
  BY SeatsOf
<1>2. ActiveSeats(d) \subseteq ActiveSeats(g) /\ ActiveSeats(g) \ {i} \subseteq ActiveSeats(d)
  BY <1>1 DEF ActiveSeats, SameHand
<1>3. \A j \in ActiveSeats(d) : InFor(d.seats[j], d.phase)
  BY <1>1, <1>2 DEF ActiveSeats, SameHand, PaidIn, InFor
<1>4. d.phase = 0 => d.currentBet > 0
  BY DEF PaidIn, Games
<1> QED BY <1>2, <1>3, <1>4 DEF DecidesIn, PaidIn

\* A call, of whatever amount.
LEMMA CallPaysIn ==
  ASSUME NEW N, NEW n \in Nat, NEW g \in Games(n, N), RoundWithinHand(g), PotCovers(g),
         PaidIn(g), NEW i \in ActionableSeats(g), NEW amount \in Int
  PROVE  DecidesIn(g, Call(g, i, amount), n, i)
<1> DEFINE p == g.seats[i]
           bet == IF amount <= 0 THEN g.currentBet - p.roundBet ELSE amount
           paid == [PlaceBet(p, bet) EXCEPT !.hasActed = TRUE]
           d == Call(g, i, amount)
<1>1. i \in 1 .. n /\ i \in ActiveSeats(g) /\ Seats(g) = 1 .. n
  BY PartsOfSeats, SeatsOf
<1>2. p \in PlayerRecords(N) /\ p.roundBet \in Nat /\ g.currentBet \in Nat
  BY <1>1, SeatsOf DEF Games, PlayerRecords
<1>3. ~p.allIn /\ InFor(p, g.phase) /\ p.roundBet <= p.totalBet
  BY <1>1 DEF ActionableSeats, PaidIn, RoundWithinHand
<1>4. bet \in Int /\ p.roundBet + bet >= 0
  BY <1>2
<1>5. InFor(paid, g.phase)
  <2> HIDE DEF p, bet
  <2> QED BY <1>2, <1>3, <1>4, BetIsIn
<1>6. d \in Games(n, N)
  BY <1>1, CallIs DEF KeepsBooks
<1>7. d = [g EXCEPT !.seats[i] = paid, !.pot = g.pot + Staked(p, bet)]
  BY DEF Call
<1> HIDE DEF paid, d
<1>8. /\ d.seats = [g.seats EXCEPT ![i] = paid]
      /\ d.phase = g.phase /\ d.currentBet = g.currentBet
  BY <1>7 DEF Games
<1>9. d.seats[i] = paid /\ \A j \in 1 .. n : j # i => d.seats[j] = g.seats[j]
  BY <1>1, <1>8 DEF Seats
<1>10. \A j \in 1 .. n : j # i => SameHand(g.seats[j], d.seats[j])
  BY <1>9 DEF SameHand
<1>11. InFor(d.seats[i], d.phase) /\ d.currentBet >= g.currentBet
  <2> HIDE DEF p
  <2> QED BY <1>2, <1>5, <1>8, <1>9
<1> HIDE DEF p, bet
<1>12. DecidesIn(g, d, n, i)
  BY <1>1, <1>6, <1>8, <1>10, <1>11, SeatDecides
<1> QED BY <1>12 DEF d

\* A raise, which only makes the bet to meet higher.
LEMMA CommitBetPaysIn ==
  ASSUME NEW N, NEW n \in Nat, NEW g \in Games(n, N), RoundWithinHand(g), PotCovers(g),
         PaidIn(g), NEW i \in ActionableSeats(g), NEW bet \in Int, g.seats[i].roundBet + bet >= 0
  PROVE  DecidesIn(g, CommitBet(g, i, bet), n, i)
<1> DEFINE p == g.seats[i]
           s == Staked(p, bet)
           need == g.currentBet - p.roundBet
           raises == s > need
           paid == [PlaceBet(p, bet) EXCEPT !.hasActed = TRUE]
           again(j) == [g.seats[j] EXCEPT
                          !.hasActed = @ /\ ~(raises /\ j \in ActionableSeats(g))]
           q == [j \in 1 .. n |-> IF j = i THEN paid ELSE again(j)]
           d == CommitBet(g, i, bet)
<1>1. i \in 1 .. n /\ i \in ActiveSeats(g) /\ Seats(g) = 1 .. n /\ Len(g.seats) = n
  BY PartsOfSeats, SeatsOf
<1>2. p \in PlayerRecords(N) /\ p.roundBet \in Nat /\ g.currentBet \in Nat
  BY <1>1, SeatsOf DEF Games, PlayerRecords
<1>3. ~p.allIn /\ InFor(p, g.phase) /\ p.roundBet <= p.totalBet
  BY <1>1 DEF ActionableSeats, PaidIn, RoundWithinHand
<1>4. InFor(paid, g.phase) /\ paid.roundBet = p.roundBet + s
  <2> HIDE DEF p
  <2> QED BY <1>2, <1>3, BetIsIn DEF p
<1>5. s \in Int
  BY <1>2, <1>3, PlaceBetIs
<1>6. d \in Games(n, N)
  BY <1>1, CommitBetIs DEF KeepsBooks
<1>7. ASSUME NEW j \in 1 .. n
      PROVE  again(j) \in PlayerRecords(N) /\ SameHand(g.seats[j], again(j))
  <2>1. g.seats[j] \in PlayerRecords(N)
    BY SeatsOf
  <2>2. PICK b \in BOOLEAN :
          b = (g.seats[j].hasActed /\ ~(raises /\ j \in ActionableSeats(g)))
    OBVIOUS
  <2>3. again(j) = [g.seats[j] EXCEPT !.hasActed = b]
    BY <2>2
  <2> HIDE DEF again
  <2> QED BY <2>1, <2>3 DEF PlayerRecords, SameHand
<1>8. paid \in PlayerRecords(N)
  <2>1. PlaceBet(p, bet) \in PlayerRecords(N)
    BY <1>2, <1>3, PlaceBetIs
  <2> QED BY <2>1 DEF PlayerRecords
<1>9. q \in [1 .. n -> PlayerRecords(N)]
  <2> HIDE DEF paid, again
  <2> QED BY <1>7, <1>8
<1>10. d = [g EXCEPT !.seats = q,
                     !.currentBet = IF raises THEN paid.roundBet ELSE g.currentBet,
                     !.lastRaise = IF raises THEN s - need ELSE g.lastRaise,
                     !.pot = g.pot + s]
  <2> DEFINE seats == SeatsBy(g, LAMBDA j : IF j = i THEN paid ELSE again(j))
  <2>1. seats = q
    BY <1>1, <1>9, SeatsRewritten DEF SeatsBy
  <2>2. d = [g EXCEPT !.seats = seats,
                      !.currentBet = IF raises THEN paid.roundBet ELSE @,
                      !.lastRaise = IF raises THEN s - need ELSE @,
                      !.pot = @ + s]
    BY Zenon DEF CommitBet
  <2> HIDE DEF seats, q, d
  <2> QED BY <2>1, <2>2
<1>11. \A j \in 1 .. n : q[j] = IF j = i THEN paid ELSE again(j)
  OBVIOUS
<1> HIDE DEF s, q, d, again, paid
<1>12. /\ d.seats = q /\ d.phase = g.phase
       /\ d.currentBet = IF raises THEN paid.roundBet ELSE g.currentBet
  <2>1. PICK c : c = IF raises THEN paid.roundBet ELSE g.currentBet
    OBVIOUS
  <2>2. PICK r : r = IF raises THEN s - need ELSE g.lastRaise
    OBVIOUS
  <2>3. d = [g EXCEPT !.seats = q, !.currentBet = c, !.lastRaise = r, !.pot = g.pot + s]
    BY <1>10, <2>1, <2>2
  <2>4. d.seats = q /\ d.phase = g.phase /\ d.currentBet = c
    BY <2>3 DEF Games
  <2> QED BY <2>1, <2>4
<1>13. d.currentBet >= g.currentBet
  BY <1>2, <1>4, <1>5, <1>12
<1>14. d.seats[i] = paid /\ \A j \in 1 .. n : j # i => SameHand(g.seats[j], d.seats[j])
  BY <1>1, <1>7, <1>11, <1>12
<1> QED BY <1>1, <1>4, <1>6, <1>12, <1>13, <1>14, SeatDecides DEF d

\* Every decision of a player who may act.
LEMMA DecisionPaysIn ==
  ASSUME NEW N, NEW n \in Nat, NEW g \in Games(n, N), RoundWithinHand(g), PotCovers(g),
         PaidIn(g), NEW i \in ActionableSeats(g), NEW action \in Decisions, NEW amount \in Int
  PROVE  DecidesIn(g, ApplyDecision(g, i, action, amount), n, i)
<1> DEFINE p == g.seats[i]
           need == g.currentBet - p.roundBet
           d == ApplyDecision(g, i, action, amount)
<1>1. /\ p \in PlayerRecords(N) /\ p.chips \in Nat /\ p.roundBet \in Nat
      /\ g.currentBet \in Nat /\ g.lastRaise \in Nat
      /\ i \in 1 .. n /\ i \in ActiveSeats(g) /\ Seats(g) = 1 .. n
  BY PartsOfSeats, SeatsOf DEF Games, PlayerRecords
<1>2. d \in Games(n, N)
  BY <1>1, ApplyDecisionIs DEF KeepsBooks
<1>3. InFor(p, g.phase)
  BY <1>1 DEF PaidIn
<1>4. CASE action \in {"fold", "check"}
  <2>1. PICK q : /\ d = [g EXCEPT !.seats[i] = q]
                 /\ q.folded \/ InFor(q, g.phase)
    <3>1. CASE action = "fold"
      <4> DEFINE folded == [p EXCEPT !.folded = TRUE, !.hasActed = TRUE]
      <4>1. d = [g EXCEPT !.seats[i] = folded]
        BY <3>1 DEF ApplyDecision
      <4>2. folded.folded
        BY <1>1 DEF PlayerRecords
      <4> QED BY <4>1, <4>2
    <3>2. CASE action = "check"
      <4> DEFINE heard == [p EXCEPT !.hasActed = TRUE]
      <4>1. d = [g EXCEPT !.seats[i] = heard]
        BY <3>2 DEF ApplyDecision
      <4>2. InFor(heard, g.phase)
        BY <1>1, <1>3 DEF PlayerRecords, InFor
      <4> QED BY <4>1, <4>2
    <3> QED BY <1>4, <3>1, <3>2
  <2> HIDE DEF d
  <2>2. /\ d.seats = [g.seats EXCEPT ![i] = q]
        /\ d.phase = g.phase /\ d.currentBet = g.currentBet
    BY <2>1 DEF Games
  <2>3. d.seats[i] = q /\ \A j \in 1 .. n : j # i => d.seats[j] = g.seats[j]
    BY <1>1, <2>2 DEF Seats
  <2>4. \A j \in 1 .. n : j # i => SameHand(g.seats[j], d.seats[j])
    BY <2>3 DEF SameHand
  <2>5. /\ d.currentBet >= g.currentBet
        /\ d.seats[i].folded \/ InFor(d.seats[i], d.phase)
    BY <1>1, <2>1, <2>2, <2>3
  <2>6. DecidesIn(g, d, n, i)
    BY <1>1, <1>2, <2>2, <2>4, <2>5, SeatDecides
  <2> QED BY <2>6 DEF d
<1>5. CASE action = "call"
  <2>1. d = Call(g, i, amount)
    BY <1>5 DEF ApplyDecision
  <2> QED BY <2>1, CallPaysIn
<1>6. CASE action = "raise"
  <2> DEFINE bet == IF amount <= 0 THEN need + g.lastRaise ELSE amount
  <2>1. d = CommitBet(g, i, bet)
    BY <1>6 DEF ApplyDecision
  <2>2. bet \in Int /\ p.roundBet + bet >= 0
    BY <1>1
  <2> HIDE DEF bet
  <2> QED BY <2>1, <2>2, CommitBetPaysIn
<1>7. CASE action = "allin"
  <2>1. d = CommitBet(g, i, p.chips)
    BY <1>7 DEF ApplyDecision
  <2>2. p.chips \in Int /\ p.roundBet + p.chips >= 0
    BY <1>1
  <2> QED BY <2>1, <2>2, CommitBetPaysIn
<1> HIDE DEF d, p, need
<1> QED BY <1>4, <1>5, <1>6, <1>7 DEF Decisions
-----------------------------------------------------------------------------
\* Opening a round asks everyone again, and past the first clears its bets.
LEMMA OpenRoundClears ==
  ASSUME NEW N, NEW n \in Nat, NEW g \in Games(n, N), BigBlind \in Nat
  PROVE  /\ g.phase = 0 => OpenRound(g).currentBet = g.currentBet
         /\ \A i \in 1 .. n :
              /\ OpenRound(g).seats[i].folded = g.seats[i].folded
              /\ OpenRound(g).seats[i].allIn = g.seats[i].allIn
              /\ OpenRound(g).seats[i].chips = g.seats[i].chips
              /\ OpenRound(g).seats[i].totalBet = g.seats[i].totalBet
              /\ OpenRound(g).seats[i].roundBet = IF g.phase = 0 THEN g.seats[i].roundBet ELSE 0
<1> DEFINE r == OpenRound(g)
           p0 == [i \in 1 .. n |-> [g.seats[i] EXCEPT !.hasActed = FALSE]]
           p1 == [i \in 1 .. n |-> [g.seats[i] EXCEPT !.hasActed = FALSE, !.roundBet = 0]]
           seats0 == SeatsBy(g, LAMBDA i : [g.seats[i] EXCEPT !.hasActed = FALSE])
           seats1 == SeatsBy(g, LAMBDA i : [g.seats[i] EXCEPT !.hasActed = FALSE,
                                                              !.roundBet = 0])
<1>1. /\ g.phase = 0 => r = [g EXCEPT !.seats = seats0]
      /\ g.phase # 0 => r = [g EXCEPT !.currentBet = 0, !.lastRaise = BigBlind,
                                      !.seats = seats1]
  BY Zenon DEF OpenRound
<1>2. p0 \in [1 .. n -> PlayerRecords(N)] /\ p1 \in [1 .. n -> PlayerRecords(N)]
  <2>1. ASSUME NEW i \in 1 .. n
        PROVE  /\ [g.seats[i] EXCEPT !.hasActed = FALSE] \in PlayerRecords(N)
               /\ [g.seats[i] EXCEPT !.hasActed = FALSE, !.roundBet = 0] \in PlayerRecords(N)
    <3>1. g.seats[i] \in PlayerRecords(N)
      BY SeatsOf
    <3> QED BY <3>1 DEF PlayerRecords
  <2> QED BY <2>1
<1>3. seats0 = SubSeq(p0, 1, n) /\ seats1 = SubSeq(p1, 1, n)
  BY Zenon, SeatsOf DEF SeatsBy
<1> HIDE DEF r, seats0, seats1
<1>4. seats0 = p0 /\ seats1 = p1
  <2> HIDE DEF p0, p1
  <2> QED BY <1>2, <1>3, SeatsRewritten
<1>5. /\ g.phase = 0 => r.seats = p0 /\ r.currentBet = g.currentBet
      /\ g.phase # 0 => r.seats = p1
  <2> HIDE DEF p0, p1
  <2> QED BY <1>1, <1>4 DEF Games
<1>6. ASSUME NEW i \in 1 .. n
      PROVE  /\ r.seats[i].folded = g.seats[i].folded /\ r.seats[i].allIn = g.seats[i].allIn
             /\ r.seats[i].chips = g.seats[i].chips /\ r.seats[i].totalBet = g.seats[i].totalBet
             /\ r.seats[i].roundBet = IF g.phase = 0 THEN g.seats[i].roundBet ELSE 0
  <2>1. g.seats[i] \in PlayerRecords(N)
    BY SeatsOf
  <2>2. /\ g.phase = 0 => r.seats[i] = [g.seats[i] EXCEPT !.hasActed = FALSE]
        /\ g.phase # 0 => r.seats[i] = [g.seats[i] EXCEPT !.hasActed = FALSE, !.roundBet = 0]
    BY <1>5
  <2> QED BY <2>1, <2>2 DEF PlayerRecords
<1> QED BY <1>5, <1>6 DEF r

\* Everyone still in has bet, or it is the first round and its blinds are posted.
BetsAreIn(g) ==
  /\ Contested(g)
  /\ IF g.phase = 0 THEN PaidIn(g)
     ELSE \A i \in ActiveSeats(g) : /\ g.seats[i].totalBet > 0
                                    /\ g.seats[i].allIn \/ g.seats[i].chips > 0

\* What the round leads to: a hand that goes on paid in, or a contested showdown.
LeadsOn(b) == Contested(b) /\ (~ShowdownDue(b) => PaidIn(b))

LEMMA RoundOpensPaidIn ==
  ASSUME NEW N, NEW n \in Nat, NEW g \in Games(n, N), BigBlind \in Nat, BetsAreIn(g)
  PROVE  PaidIn(OpenRound(g)) /\ Contested(OpenRound(g))
<1> DEFINE r == OpenRound(g)
<1>1. /\ ActiveSeats(r) = ActiveSeats(g) /\ r.phase = g.phase
      /\ ActiveSeats(g) \subseteq 1 .. n
  BY OpenRoundIs, PartsOfSeats
<1>2. /\ g.phase = 0 => r.currentBet = g.currentBet
      /\ \A i \in 1 .. n :
           /\ r.seats[i].allIn = g.seats[i].allIn
           /\ r.seats[i].chips = g.seats[i].chips
           /\ r.seats[i].totalBet = g.seats[i].totalBet
           /\ r.seats[i].roundBet = IF g.phase = 0 THEN g.seats[i].roundBet ELSE 0
  BY OpenRoundClears
<1> HIDE DEF r
<1>3. Contested(r)
  BY <1>1, <1>2 DEF Contested, BetsAreIn
<1>4. PaidIn(r)
  BY <1>1, <1>2 DEF PaidIn, InFor, BetsAreIn
<1> QED BY <1>3, <1>4 DEF r

LEMMA RoundLeadsOn ==
  ASSUME NEW N, NEW n \in Nat, n > 0, NEW g \in Games(n, N), BigBlind \in Nat, g.started,
         BetsAreIn(g)
  PROVE  LeadsOn(StartBettingRound(g))
<1> DEFINE r == OpenRound(g)
           nobodyLeftToBet == Cardinality(ActionableSeats(r)) <= 1 /\ AllInSettled(r)
<1>1. r \in Games(n, N) /\ PaidIn(r) /\ Contested(r)
  BY OpenRoundIs, RoundOpensPaidIn
<1>2. r.started
  BY OpenRoundIs DEF SameMoney
<1> HIDE DEF r
<1>3. CASE ShowdownDue(r)
  BY <1>1, <1>3 DEF StartBettingRound, LeadsOn, r
<1>4. CASE ~ShowdownDue(r) /\ nobodyLeftToBet
  <2> DEFINE last == [r EXCEPT !.phase = Showdown]
             h == OpenRound(last)
  <2>1. StartBettingRound(g) = h
    BY <1>4 DEF StartBettingRound, r
  <2>2. Showdown \in 0 .. Showdown
    BY DEF Showdown
  <2>3. /\ last \in Games(n, N) /\ last.seats = r.seats /\ last.phase = Showdown
        /\ last.started
    BY <1>1, <1>2, <2>2, SetPhase
  <2> HIDE DEF last
  <2>4. ActiveSeats(h) = ActiveSeats(last) /\ h.phase = Showdown /\ h.started
    BY <2>3, OpenRoundIs DEF SameMoney
  <2>5. ActiveSeats(last) = ActiveSeats(r) /\ ActiveSeats(r) \subseteq 1 .. n
    BY <1>1, <2>3, SameSeats, PartsOfSeats
  <2>6. \A i \in 1 .. n : h.seats[i].totalBet = r.seats[i].totalBet
    BY <2>3, OpenRoundClears
  <2> HIDE DEF h
  <2>7. Contested(h)
    BY <1>1, <2>4, <2>5, <2>6 DEF Contested
  <2>8. ShowdownDue(h)
    BY <2>4 DEF ShowdownDue
  <2> QED BY <2>1, <2>7, <2>8 DEF LeadsOn
<1>5. CASE ~ShowdownDue(r) /\ ~nobodyLeftToBet
  <2> DEFINE t == FindNextActionablePlayer(r, FirstToAct(r))
             h == [r EXCEPT !.turn = t]
  <2>1. StartBettingRound(g) = h
    BY <1>5 DEF StartBettingRound, r
  <2>2. t \in Nat
    BY <1>1, FirstToActIs, FindNextIs
  <2> HIDE DEF t
  <2>3. /\ h \in Games(n, N) /\ h.seats = r.seats /\ h.phase = r.phase
        /\ h.currentBet = r.currentBet
    BY <1>1, <2>2, SetTurn
  <2> HIDE DEF h
  <2>4. ActiveSeats(h) = ActiveSeats(r)
    BY <1>1, <2>3, SameSeats
  <2>5. Contested(h) /\ PaidIn(h)
    BY <1>1, <2>3, <2>4 DEF Contested, PaidIn
  <2> QED BY <2>1, <2>5 DEF LeadsOn
<1> QED BY <1>3, <1>4, <1>5

\* Whoever is left when a round is complete has bet in this hand.
LEMMA CompleteRoundIsIn ==
  ASSUME NEW N, NEW n \in Nat, NEW g \in Games(n, N), RoundWithinHand(g), PaidIn(g),
         Cardinality(ActiveSeats(g)) > 1, BettingRoundComplete(g)
  PROVE  /\ Contested(g)
         /\ \A i \in ActiveSeats(g) : /\ g.seats[i].totalBet > 0
                                      /\ g.seats[i].allIn \/ g.seats[i].chips > 0
<1>1. Seats(g) = 1 .. n /\ ActiveSeats(g) \subseteq 1 .. n
  BY SeatsOf, PartsOfSeats
<1>2. \A i \in ActionableSeats(g) : g.seats[i].roundBet >= g.currentBet
  <2>1. ~(Cardinality(ActiveSeats(g)) <= 1)
    BY PartsOfSeats
  <2> QED BY <2>1 DEF BettingRoundComplete
<1>3. ASSUME NEW i \in ActiveSeats(g)
      PROVE  g.seats[i].totalBet > 0 /\ (g.seats[i].allIn \/ g.seats[i].chips > 0)
  <2>1. InFor(g.seats[i], g.phase) /\ g.seats[i].roundBet <= g.seats[i].totalBet
    BY <1>1 DEF PaidIn, RoundWithinHand
  <2>2. /\ g.seats[i].totalBet \in Nat /\ g.seats[i].roundBet \in Nat /\ g.currentBet \in Nat
    BY <1>1, SeatsOf DEF Games, PlayerRecords
  <2>3. CASE g.seats[i].allIn
    BY <2>1, <2>3 DEF InFor
  <2>4. CASE ~g.seats[i].allIn
    <3>1. g.seats[i].roundBet >= g.currentBet
      BY <1>2, <2>4 DEF ActionableSeats
    <3>2. g.phase = 0 => g.currentBet > 0
      BY DEF PaidIn
    <3> QED BY <2>1, <2>2, <3>1, <3>2 DEF InFor
  <2> QED BY <2>3, <2>4
<1>4. ActiveSeats(g) # {}
  BY FS_EmptySet
<1> QED BY <1>3, <1>4 DEF Contested

\* How a hand goes on from d, a decision with somebody left in: paid in, or to
\* a showdown that pays.
LEMMA ProceedLeadsOn ==
  ASSUME NEW N, NEW n \in Nat, n > 0, NEW d \in Games(n, N), BigBlind \in Nat,
         RoundWithinHand(d), PaidIn(d), d.started
  PROVE  /\ ~ShowdownDue(Proceed(d)) => PaidIn(Proceed(d))
         /\ ShowdownDue(Proceed(d)) /\ ActiveSeats(d) # {}
              => Cardinality(ActiveSeats(Proceed(d))) = 1 \/ Contested(Proceed(d))
<1> DEFINE b == Proceed(d)
<1>1. IsFiniteSet(ActiveSeats(d)) /\ Cardinality(ActiveSeats(d)) \in Nat
  BY PartsOfSeats
<1>2. d.phase \in 0 .. Showdown
  BY DEF Games
<1>3. CASE Cardinality(ActiveSeats(d)) <= 1
  <2>1. b = d /\ ShowdownDue(d)
    BY <1>3 DEF Proceed, BettingRoundComplete, AdvancePhase, ShowdownDue
  <2>2. ActiveSeats(d) # {} => Cardinality(ActiveSeats(d)) = 1
    BY <1>1, <1>3, FS_EmptySet
  <2> QED BY <2>1, <2>2
<1>4. CASE Cardinality(ActiveSeats(d)) > 1 /\ BettingRoundComplete(d)
  <2>1. /\ Contested(d)
        /\ \A i \in ActiveSeats(d) : /\ d.seats[i].totalBet > 0
                                     /\ d.seats[i].allIn \/ d.seats[i].chips > 0
    BY <1>4, CompleteRoundIsIn
  <2>2. b = AdvancePhase(d)
    BY <1>4 DEF Proceed
  <2>3. CASE ShowdownDue(d)
    BY <2>1, <2>2, <2>3 DEF AdvancePhase
  <2>4. CASE ~ShowdownDue(d) /\ d.phase + 1 >= Showdown
    <3>1. b = [d EXCEPT !.phase = Showdown]
      BY <2>2, <2>4 DEF AdvancePhase
    <3>2. Showdown \in 0 .. Showdown
      BY DEF Showdown
    <3>3. b \in Games(n, N) /\ b.seats = d.seats /\ b.phase = Showdown /\ b.started
      BY <3>1, <3>2, SetPhase
    <3> HIDE DEF b
    <3>4. ActiveSeats(b) = ActiveSeats(d)
      BY <3>3, SameSeats
    <3>5. Contested(b) /\ ShowdownDue(b)
      BY <2>1, <3>3, <3>4 DEF Contested, ShowdownDue
    <3> QED BY <3>5 DEF b
  <2>5. CASE ~ShowdownDue(d) /\ ~(d.phase + 1 >= Showdown)
    <3> DEFINE next == [d EXCEPT !.phase = d.phase + 1]
    <3>1. b = StartBettingRound(next)
      BY <2>2, <2>5 DEF AdvancePhase
    <3>2. d.phase + 1 \in 0 .. Showdown /\ d.phase + 1 # 0
      BY <1>2, <2>5 DEF Showdown
    <3>3. /\ next \in Games(n, N) /\ next.seats = d.seats /\ next.started
          /\ next.phase = d.phase + 1
      BY <3>2, SetPhase
    <3> HIDE DEF next
    <3>4. ActiveSeats(next) = ActiveSeats(d)
      BY <3>3, SameSeats
    <3>5. BetsAreIn(next)
      BY <2>1, <3>2, <3>3, <3>4 DEF BetsAreIn, Contested
    <3>6. LeadsOn(StartBettingRound(next))
      BY <3>3, <3>5, RoundLeadsOn
    <3> QED BY <3>1, <3>6 DEF LeadsOn
  <2> QED BY <2>3, <2>4, <2>5
<1>5. CASE ~BettingRoundComplete(d)
  <2> DEFINE t == FindNextActionablePlayer(d, d.turn + 1)
  <2>1. b = [d EXCEPT !.turn = t]
    BY <1>5 DEF Proceed
  <2>2. d.turn + 1 \in Nat
    BY DEF Games
  <2>3. t \in Nat
    BY <2>2, FindNextIs
  <2> HIDE DEF t
  <2>4. /\ b \in Games(n, N) /\ b.seats = d.seats /\ b.phase = d.phase
        /\ b.currentBet = d.currentBet /\ b.started
    BY <2>1, <2>3, SetTurn
  <2> HIDE DEF b
  <2>5. ActiveSeats(b) = ActiveSeats(d)
    BY <2>4, SameSeats
  <2>6. PaidIn(b)
    BY <2>4, <2>5 DEF PaidIn
  <2>7. ShowdownDue(b) => Contested(b)
    <3>1. ASSUME ShowdownDue(b)
          PROVE  Contested(b)
      <4>1. b.phase # 0 /\ Cardinality(ActiveSeats(b)) > 1
        BY <1>1, <1>5, <2>5, <3>1 DEF ShowdownDue, BettingRoundComplete, Showdown
      <4>2. PICK i : i \in ActiveSeats(b)
        BY <4>1, FS_EmptySet
      <4>3. b.seats[i].totalBet \in Nat /\ b.seats[i].roundBet \in Nat
        BY <2>4, <4>2, PartsOfSeats, SeatsOf DEF PlayerRecords
      <4>4. b.seats[i].totalBet > b.seats[i].roundBet
        BY <2>6, <4>1, <4>2 DEF PaidIn, InFor
      <4> QED BY <4>2, <4>3, <4>4 DEF Contested
    <3> QED BY <3>1
  <2> QED BY <2>6, <2>7 DEF b
<1> QED BY <1>1, <1>3, <1>4, <1>5

-----------------------------------------------------------------------------
\* The blinds are paid by players who are dealt in, and so have chips.
LEMMA DealPaysIn ==
  ASSUME NEW N, NEW n \in Nat, NEW g \in Games(n, N),
         SmallBlind \in Nat \ {0}, BigBlind \in Nat \ {0},
         CanStartHand(g), NEW b, b = PostBlinds(DealIn(g))
  PROVE  b \in Games(n, N) /\ b.started /\ RoundWithinHand(b) /\ BetsAreIn(b)
<1> DEFINE d == DealIn(g)
<1>1. /\ d \in Games(n, N) /\ d.started /\ d.phase = 0 /\ DealtInSeats(d) = DealtInSeats(g)
      /\ \A i \in 1 .. n : /\ d.seats[i].chips = g.seats[i].chips
                           /\ d.seats[i].totalBet = 0 /\ d.seats[i].roundBet = 0
                           /\ d.seats[i].folded <=> ~DealtIn(g.seats[i])
                           /\ ~d.seats[i].allIn
  BY DealInIs
<1>2. Seats(g) = 1 .. n /\ Seats(d) = 1 .. n
  BY <1>1, SeatsOf
<1>3. Cardinality(DealtInSeats(d)) >= 2
  BY <1>1 DEF CanStartHand
<1> HIDE DEF d
<1>4. /\ KeepsBooks(d, b, n, N) /\ b.phase = 0 /\ b.currentBet = BigBlind
      /\ \A i \in 1 .. n : b.seats[i].folded = d.seats[i].folded
  BY <1>1, <1>3, PostBlindsIs DEF d
<1>5. PICK sb \in DealtInSeats(d), bb \in DealtInSeats(d) : \A i \in 1 .. n :
         SameHand(IF i = sb THEN PlaceBet(d.seats[i], SmallBlind)
                  ELSE IF i = bb THEN PlaceBet(d.seats[i], BigBlind) ELSE d.seats[i],
                  b.seats[i])
  BY <1>1, <1>3, PostBlindsIs DEF d
<1>6. b \in Games(n, N) /\ b.started /\ RoundWithinHand(b) /\ Seats(b) = 1 .. n
  BY <1>1, <1>4, SeatsOf DEF KeepsBooks
<1>7. \A i \in 1 .. n : ~b.seats[i].folded <=> i \in DealtInSeats(d)
  BY <1>1, <1>2, <1>4 DEF DealtInSeats
<1>8. \A i \in DealtInSeats(d) : i \in 1 .. n /\ d.seats[i].chips > 0
  BY <1>2 DEF DealtInSeats, DealtIn
<1>9. ASSUME NEW i \in 1 .. n, NEW blind \in Nat \ {0}, d.seats[i].chips > 0,
             SameHand(PlaceBet(d.seats[i], blind), b.seats[i])
      PROVE  InFor(b.seats[i], 0) /\ b.seats[i].totalBet > 0
  <2>1. /\ d.seats[i] \in PlayerRecords(N) /\ d.seats[i].chips \in Nat
        /\ d.seats[i].totalBet = 0 /\ d.seats[i].roundBet = 0
    BY <1>1, SeatsOf DEF PlayerRecords
  <2>2. PICK s \in Int :
          /\ s <= d.seats[i].chips /\ (s = blind \/ s = d.seats[i].chips)
          /\ PlaceBet(d.seats[i], blind).chips = d.seats[i].chips - s
          /\ PlaceBet(d.seats[i], blind).totalBet = d.seats[i].totalBet + s
          /\ (PlaceBet(d.seats[i], blind).allIn <=> d.seats[i].allIn \/ s = d.seats[i].chips)
    <3>1. PICK p \in PlayerRecords(N) : p = d.seats[i]
      BY <2>1
    <3>2. p.roundBet + blind >= 0 /\ p.roundBet <= p.totalBet /\ blind \in Int
      BY <2>1, <3>1
    <3>3. /\ Staked(p, blind) \in Int /\ Staked(p, blind) <= p.chips
          /\ Staked(p, blind) = blind \/ Staked(p, blind) = p.chips
          /\ PlaceBet(p, blind).chips = p.chips - Staked(p, blind)
          /\ PlaceBet(p, blind).totalBet = p.totalBet + Staked(p, blind)
          /\ PlaceBet(p, blind).allIn <=> p.allIn \/ Staked(p, blind) = p.chips
      BY <3>2, PlaceBetIs
    <3> QED BY <3>1, <3>3
  <2>3. /\ b.seats[i].chips = d.seats[i].chips - s
        /\ b.seats[i].totalBet = s
        /\ b.seats[i].allIn <=> s = d.seats[i].chips
    BY <1>1, <1>9, <2>1, <2>2 DEF SameHand
  <2> QED BY <1>9, <2>1, <2>2, <2>3 DEF InFor
<1>10. b.seats[sb].totalBet > 0 /\ sb \in ActiveSeats(b)
  <2>1. SameHand(PlaceBet(d.seats[sb], SmallBlind), b.seats[sb])
    BY <1>5, <1>8
  <2> QED BY <1>6, <1>7, <1>8, <1>9, <2>1 DEF ActiveSeats
<1>11. ASSUME NEW i \in ActiveSeats(b)
       PROVE  InFor(b.seats[i], 0)
  <2>1. i \in 1 .. n /\ i \in DealtInSeats(d) /\ d.seats[i].chips > 0
    BY <1>6, <1>7, <1>8 DEF ActiveSeats
  <2>2. CASE i = sb
    <3>1. SameHand(PlaceBet(d.seats[i], SmallBlind), b.seats[i])
      BY <1>5, <2>1, <2>2
    <3> QED BY <1>9, <2>1, <3>1
  <2>3. CASE i # sb /\ i = bb
    <3>1. SameHand(PlaceBet(d.seats[i], BigBlind), b.seats[i])
      BY <1>5, <2>1, <2>3
    <3> QED BY <1>9, <2>1, <3>1
  <2>4. CASE i # sb /\ i # bb
    <3>1. SameHand(d.seats[i], b.seats[i])
      BY <1>5, <2>1, <2>4
    <3> QED BY <1>1, <2>1, <3>1 DEF SameHand, InFor
  <2> QED BY <2>2, <2>3, <2>4
<1>12. PaidIn(b)
  BY <1>4, <1>11 DEF PaidIn
<1> QED BY <1>4, <1>6, <1>10, <1>12 DEF BetsAreIn, Contested

\* A deal leaves a hand everyone is paid in, or one that is over and paid.
LEMMA StartHandPaysIn ==
  ASSUME NEW N, NEW n \in Nat, NEW g \in Games(n, N),
         SmallBlind \in Nat \ {0}, BigBlind \in Nat \ {0},
         CanStartHand(g), NEW h \in StartHand(g)
  PROVE  IF h.started THEN PaidIn(h) ELSE PaidFor(h)
<1>1. PICK b : b = PostBlinds(DealIn(g))
  OBVIOUS
<1>2. b \in Games(n, N) /\ b.started /\ RoundWithinHand(b) /\ BetsAreIn(b)
  BY <1>1, DealPaysIn
<1>3. h \in Outcomes(StartBettingRound(b))
  BY <1>1 DEF StartHand
<1>4. n > 0
  BY <1>2, PartsOfSeats DEF BetsAreIn, Contested
<1>5. PICK r : r = StartBettingRound(b)
  OBVIOUS
<1>6. LeadsOn(r) /\ r \in Games(n, N) /\ r.started /\ RoundWithinHand(r)
  <2>1. Proper(b, r, n, N)
    BY <1>2, <1>4, <1>5, StartBettingRoundIs
  <2> QED BY <1>2, <1>4, <1>5, <2>1, RoundLeadsOn DEF Proper, SameMoney
<1>7. CASE ShowdownDue(r)
  <2>1. h \in DoShowdown(r)
    BY <1>3, <1>5, <1>7 DEF Outcomes
  <2>2. PaidFor(h)
    BY <1>6, <2>1, SomebodyIsPaid DEF LeadsOn
  <2>3. ~h.started
    BY <1>3, <1>5, <1>6, <1>7, OutcomesAre
  <2> QED BY <2>2, <2>3
<1>8. CASE ~ShowdownDue(r)
  BY <1>3, <1>5, <1>6, <1>8 DEF Outcomes, LeadsOn
<1> QED BY <1>7, <1>8

\* So does a decision, where two players were in.
LEMMA HumanActionPaysIn ==
  ASSUME NEW N, NEW n \in Nat, NEW g \in Games(n, N), BigBlind \in Nat,
         RoundWithinHand(g), PotCovers(g), g.started, PaidIn(g), NEW i \in ActionableSeats(g),
         NEW action \in Decisions, NEW amount \in Int,
         NEW h \in HumanAction(g, i, action, amount)
  PROVE  /\ h.started => PaidIn(h)
         /\ ~h.started /\ Cardinality(ActiveSeats(g)) >= 2 => PaidFor(h)
<1>1. PICK d : d = ApplyDecision(g, i, action, amount)
  OBVIOUS
<1>2. h \in Outcomes(Proceed(d))
  BY <1>1 DEF HumanAction
<1>3. i \in 1 .. n /\ n > 0
  BY PartsOfSeats
<1>4. DecidesIn(g, d, n, i)
  BY <1>1, DecisionPaysIn
<1>5. d \in Games(n, N) /\ RoundWithinHand(d) /\ d.started
  BY <1>1, <1>3, ApplyDecisionIs DEF KeepsBooks
<1>6. PICK b : b = Proceed(d)
  OBVIOUS
<1>7. /\ ~ShowdownDue(b) => PaidIn(b)
      /\ ShowdownDue(b) /\ ActiveSeats(d) # {}
           => Cardinality(ActiveSeats(b)) = 1 \/ Contested(b)
  BY <1>3, <1>4, <1>5, <1>6, ProceedLeadsOn DEF DecidesIn
<1>8. b \in Games(n, N) /\ RoundWithinHand(b)
  BY <1>3, <1>5, <1>6, ProceedIs DEF Proper
<1>9. h.started => h = b /\ ~ShowdownDue(b)
  BY <1>2, <1>6, <1>8, OutcomesAre
<1>10. ASSUME ~h.started, Cardinality(ActiveSeats(g)) >= 2
       PROVE  PaidFor(h)
  <2>1. b.started
    BY <1>3, <1>5, <1>6, ProceedIs DEF Proper, SameMoney
  <2>2. ShowdownDue(b) /\ h \in DoShowdown(b)
    BY <1>2, <1>6, <1>10, <2>1 DEF Outcomes
  <2>3. ActiveSeats(d) # {}
    <3>1. ASSUME ActiveSeats(d) = {}
          PROVE  FALSE
      <4>1. ActiveSeats(g) \subseteq {i}
        BY <1>4, <3>1 DEF DecidesIn
      <4>2. Cardinality(ActiveSeats(g)) <= Cardinality({i})
        BY <4>1, FS_Singleton, FS_Subset
      <4>3. Cardinality({i}) = 1 /\ Cardinality(ActiveSeats(g)) \in Nat
        BY FS_Singleton, PartsOfSeats
      <4> QED BY <1>10, <4>2, <4>3
    <3> QED BY <3>1
  <2> QED BY <1>7, <1>8, <2>2, <2>3, SomebodyIsPaid
<1> QED BY <1>7, <1>9, <1>10
=============================================================================
