----------------------------- MODULE TableProof -----------------------------
(***************************************************************************)
(* Theorems about Table.tla, for any users, buy-in, number of seats, refills*)
(* and late callbacks: the stacks and wallets are never negative, the map   *)
(* of users leads to their seats, no step creates money, only a departure,  *)
(* a deal that is over at once and a restart can stop the table, and, while *)
(* the process is not restarted, whoever is sat out is on an eviction clock.*)
(***************************************************************************)
EXTENDS Table, EngineProof, SequenceTheorems, TLAPS

\* The games of n seats of this table.  Payments that nobody has raked stay on
\* the books, and the seats they name may have moved or gone.
OldPayouts ==
  [pot : SUBSET Nat, seat : Nat, winner : Users, times : Nat, amount : Nat]

TableGames(n) ==
  [started : BOOLEAN, intermission : BOOLEAN, phase : 0 .. Showdown,
   pot : Nat, currentBet : Nat, lastRaise : Nat, orbit : Nat \cup {-1}, turn : Nat,
   lastWinner : BOOLEAN, payouts : SUBSET OldPayouts,
   seats : [1 .. n -> PlayerRecords(Users)]]

\* Everyone has one seat.
OneSeatEach(g) == \A i, j \in Seats(g) : Name(g, i) = Name(g, j) => i = j

(***************************************************************************)
(* The inductive invariant.  A decision keeps bets and stacks numbers of    *)
(* chips only where RoundWithinHand says so (see HandProof), and the pot    *)
(* only where it covers the bets: it need not be their sum any more, since  *)
(* whoever leaves in the middle of a hand leaves his bets in the pot.  What *)
(* the database holds is as sound as what is in memory.                     *)
(***************************************************************************)
Sound(g, n) ==
  /\ g \in TableGames(n)
  /\ RoundWithinHand(g)
  /\ OneSeatEach(g)
  /\ g.started => ~g.intermission /\ g.payouts = {} /\ PotCovers(g)

Timers == [armed : SUBSET Kinds, loose : SUBSET Kinds]

\* While a hand runs, the database has the stacks and the bets as they are.
Mirrored(g, s) ==
  g.started =>
    /\ s.orbit = g.orbit /\ Seats(s) = Seats(g)
    /\ \A i \in Seats(g) : /\ s.seats[i].name = g.seats[i].name
                           /\ s.seats[i].chips = g.seats[i].chips
                           /\ s.seats[i].totalBet = g.seats[i].totalBet

IInv ==
  /\ \E n \in 0 .. MaxPlayers : Sound(game, n)
  /\ \E n \in 0 .. MaxPlayers : Sound(saved, n)
  /\ Mirrored(game, saved)
  /\ SeatMapOK
  /\ wallet \in [Users \cup {House} -> Nat]
  /\ timers \in Timers
-----------------------------------------------------------------------------
(***************************************************************************)
(* Games of a table.                                                        *)
(***************************************************************************)
LEMMA TableSeats ==
  ASSUME NEW n \in Nat, NEW g \in TableGames(n)
  PROVE  /\ Seats(g) = 1 .. n
         /\ Len(g.seats) = n
         /\ \A i \in 1 .. n : g.seats[i] \in PlayerRecords(Users)
<1>1. g.seats \in [1 .. n -> PlayerRecords(Users)]
  BY DEF TableGames
<1>2. Seats(g) = 1 .. n
  BY <1>1 DEF Seats
<1>3. Len(g.seats) = n
  BY <1>1
<1> QED BY <1>1, <1>2, <1>3

\* A game is one of the engine's but for payments nobody has raked.
LEMMA TableGamesAre ==
  ASSUME NEW n \in Nat
  PROVE  /\ Games(n, Users) \subseteq TableGames(n)
         /\ \A g \in TableGames(n) : g.payouts = {} => g \in Games(n, Users)
<1>1. PayoutRecords(n, Users) \subseteq OldPayouts
  BY DEF PayoutRecords, OldPayouts
<1>2. ASSUME NEW g \in Games(n, Users)
      PROVE  g \in TableGames(n)
  <2>1. g.payouts \in SUBSET OldPayouts
    BY <1>1 DEF Games
  <2> QED BY <2>1 DEF Games, TableGames
<1>3. ASSUME NEW g \in TableGames(n), g.payouts = {}
      PROVE  g \in Games(n, Users)
  <2>1. g.payouts \in SUBSET PayoutRecords(n, Users)
    BY <1>3
  <2> QED BY <2>1 DEF Games, TableGames
<1> QED BY <1>2, <1>3

\* What a handler leaves is sound if it moves no bets and no names, and does
\* not start a hand.
LEMMA SoundStays ==
  ASSUME NEW n \in Nat, NEW g, Sound(g, n), NEW h \in TableGames(n),
         h.pot = g.pot,
         \A i \in 1 .. n : /\ h.seats[i].name = g.seats[i].name
                           /\ h.seats[i].roundBet = g.seats[i].roundBet
                           /\ h.seats[i].totalBet = g.seats[i].totalBet,
         h.started => g.started /\ ~h.intermission /\ h.payouts = {}
  PROVE  Sound(h, n)
<1>1. Seats(g) = 1 .. n
  BY TableSeats DEF Sound
<1>2. Seats(h) = 1 .. n
  BY TableSeats
<1>3. RoundWithinHand(h) /\ OneSeatEach(h)
  BY <1>1, <1>2 DEF Sound, RoundWithinHand, OneSeatEach, Name
<1>4. Bets(h.seats) = Bets(g.seats)
  BY <1>1, <1>2 DEF Bets, Seats
<1>5. PotCovers(g) => PotCovers(h)
  BY <1>1, <1>2, <1>4 DEF PotCovers, BetInAll
<1> QED BY <1>3, <1>5 DEF Sound

\* What the database keeps of a sound game.
LEMMA StoredIs ==
  ASSUME NEW n \in Nat, NEW g, Sound(g, n)
  PROVE  /\ Sound(Stored(g), n) /\ Mirrored(g, Stored(g))
         /\ \A i \in 1 .. n : Stored(g).seats[i].chips = g.seats[i].chips
<1> DEFINE kept(i) == [g.seats[i] EXCEPT !.hasActed = FALSE]
           q == [i \in 1 .. n |-> kept(i)]
<1>1. g \in TableGames(n)
  BY DEF Sound
<1>2. Seats(g) = 1 .. n /\ Len(g.seats) = n
  BY <1>1, TableSeats
<1>3. ASSUME NEW i \in 1 .. n
      PROVE  /\ kept(i) \in PlayerRecords(Users) /\ kept(i).name = g.seats[i].name
             /\ kept(i).roundBet = g.seats[i].roundBet
             /\ kept(i).totalBet = g.seats[i].totalBet
             /\ kept(i).chips = g.seats[i].chips
  <2>1. g.seats[i] \in PlayerRecords(Users)
    BY <1>1, TableSeats
  <2> QED BY <2>1 DEF PlayerRecords
<1>4. SeatsBy(g, LAMBDA i : [g.seats[i] EXCEPT !.hasActed = FALSE]) = SubSeq(q, 1, n)
  BY <1>2 DEF SeatsBy
<1> HIDE DEF kept
<1>5. q \in [1 .. n -> PlayerRecords(Users)] /\ \A i \in 1 .. n : q[i] = kept(i)
  BY <1>3
<1> HIDE DEF q
<1>6. SubSeq(q, 1, n) = q
  BY <1>5, SeatsRewritten
<1>7. Stored(g) = [g EXCEPT !.turn = 0, !.payouts = {}, !.lastWinner = TRUE, !.seats = q]
  BY <1>4, <1>6, Zenon DEF Stored
<1>8. /\ Stored(g) \in TableGames(n) /\ Stored(g).seats = q
      /\ Stored(g).orbit = g.orbit
      /\ Stored(g).pot = g.pot /\ Stored(g).started = g.started
      /\ Stored(g).intermission = g.intermission /\ Stored(g).payouts = {}
  <2>1. PICK f \in [1 .. n -> PlayerRecords(Users)], t \in Nat, p \in SUBSET OldPayouts :
          f = q /\ t = 0 /\ p = {}
    BY <1>5
  <2>2. Stored(g) = [g EXCEPT !.turn = t, !.payouts = p, !.lastWinner = TRUE, !.seats = f]
    BY <1>7, <2>1
  <2> QED BY <1>1, <2>1, <2>2 DEF TableGames
<1>9. \A i \in 1 .. n : /\ Stored(g).seats[i].name = g.seats[i].name
                        /\ Stored(g).seats[i].roundBet = g.seats[i].roundBet
                        /\ Stored(g).seats[i].totalBet = g.seats[i].totalBet
  BY <1>3, <1>5, <1>8
<1>10. Stored(g).started => g.started /\ ~Stored(g).intermission /\ Stored(g).payouts = {}
  BY <1>8 DEF Sound
<1>11. Sound(Stored(g), n)
  BY <1>8, <1>9, <1>10, SoundStays
<1>12. Seats(Stored(g)) = 1 .. n
  BY <1>8, TableSeats
<1>13. \A i \in 1 .. n : Stored(g).seats[i].chips = g.seats[i].chips
  BY <1>3, <1>5, <1>8
<1> QED BY <1>2, <1>8, <1>9, <1>11, <1>12, <1>13 DEF Mirrored

\* One seat's stack or chair changes.
WithSeat(g, s, p) == [g EXCEPT !.seats[s] = p]
OnlySeat(g, h, n, s, p) == \A i \in 1 .. n : h.seats[i] = IF i = s THEN p ELSE g.seats[i]

LEMMA SetSeat ==
  ASSUME NEW n \in Nat, NEW g, Sound(g, n), NEW s \in 1 .. n,
         NEW p \in PlayerRecords(Users),
         p.name = g.seats[s].name, p.roundBet = g.seats[s].roundBet,
         p.totalBet = g.seats[s].totalBet
  PROVE  /\ Sound(WithSeat(g, s, p), n)
         /\ OnlySeat(g, WithSeat(g, s, p), n, s, p)
<1> DEFINE h == WithSeat(g, s, p)
<1>1. g \in TableGames(n) /\ g.seats \in [1 .. n -> PlayerRecords(Users)]
  BY DEF Sound, TableGames
<1>2. PICK q \in [1 .. n -> PlayerRecords(Users)] : q = [g.seats EXCEPT ![s] = p]
  BY <1>1
<1>3. h = [g EXCEPT !.seats = q]
  BY <1>1, <1>2 DEF TableGames, WithSeat
<1> HIDE DEF h
<1>4. /\ h \in TableGames(n) /\ h.seats = q
      /\ h.pot = g.pot /\ h.started = g.started /\ h.intermission = g.intermission
      /\ h.payouts = g.payouts
  BY <1>1, <1>3 DEF TableGames
<1>5. \A i \in 1 .. n : h.seats[i] = IF i = s THEN p ELSE g.seats[i]
  BY <1>1, <1>2, <1>4
<1>6. \A i \in 1 .. n : /\ h.seats[i].name = g.seats[i].name
                        /\ h.seats[i].roundBet = g.seats[i].roundBet
                        /\ h.seats[i].totalBet = g.seats[i].totalBet
  BY <1>5
<1>7. h.started => g.started /\ ~h.intermission /\ h.payouts = {}
  BY <1>4 DEF Sound
<1>8. Sound(h, n)
  BY <1>4, <1>6, <1>7, SoundStays
<1> QED BY <1>5, <1>8 DEF h, OnlySeat

\* Sitting players out changes nothing else.
LEMMA SatOutIs ==
  ASSUME NEW n \in Nat, NEW g \in Games(n, Users), NEW out
  PROVE  /\ SatOut(g, out) \in Games(n, Users)
         /\ SatOut(g, out).payouts = g.payouts /\ SatOut(g, out).pot = g.pot
         /\ SatOut(g, out).started = g.started
         /\ SatOut(g, out).intermission = g.intermission
         /\ SatOut(g, out).orbit = g.orbit
         /\ \A i \in 1 .. n :
              /\ SatOut(g, out).seats[i].name = g.seats[i].name
              /\ SatOut(g, out).seats[i].chips = g.seats[i].chips
              /\ SatOut(g, out).seats[i].roundBet = g.seats[i].roundBet
              /\ SatOut(g, out).seats[i].totalBet = g.seats[i].totalBet
              /\ SatOut(g, out).seats[i].sittingOut = (g.seats[i].sittingOut \/ i \in out)
<1> DEFINE seat(i) == [g.seats[i] EXCEPT !.sittingOut = @ \/ i \in out]
           q == [i \in 1 .. n |-> seat(i)]
<1>1. Seats(g) = 1 .. n /\ Len(g.seats) = n
  BY SeatsOf
<1>2. ASSUME NEW i \in 1 .. n
      PROVE  /\ seat(i) \in PlayerRecords(Users) /\ seat(i).name = g.seats[i].name
             /\ seat(i).chips = g.seats[i].chips
             /\ seat(i).roundBet = g.seats[i].roundBet
             /\ seat(i).totalBet = g.seats[i].totalBet
             /\ seat(i).sittingOut = (g.seats[i].sittingOut \/ i \in out)
  <2>1. PICK p \in PlayerRecords(Users) : p = g.seats[i]
    BY SeatsOf
  <2>2. PICK b \in BOOLEAN : b = (p.sittingOut \/ i \in out)
    OBVIOUS
  <2>3. seat(i) = [p EXCEPT !.sittingOut = b]
    BY <2>1, <2>2
  <2> HIDE DEF seat
  <2>4. seat(i).sittingOut = b
    BY <2>3 DEF PlayerRecords
  <2>5. b = (g.seats[i].sittingOut \/ i \in out)
    BY <2>1, <2>2
  <2>6. seat(i).sittingOut = (g.seats[i].sittingOut \/ i \in out)
    BY <2>4, <2>5, Zenon
  <2> QED BY <2>1, <2>3, <2>6 DEF PlayerRecords
<1>3. SeatsBy(g, LAMBDA i : [g.seats[i] EXCEPT !.sittingOut = @ \/ i \in out]) = SubSeq(q, 1, n)
  BY <1>1 DEF SeatsBy
<1> HIDE DEF seat
<1>4. q \in [1 .. n -> PlayerRecords(Users)] /\ \A i \in 1 .. n : q[i] = seat(i)
  BY <1>2
<1> HIDE DEF q
<1>5. SubSeq(q, 1, n) = q
  BY <1>4, SeatsRewritten
<1>6. PICK h : h = SatOut(g, out)
  OBVIOUS
<1>7. PICK f \in [1 .. n -> PlayerRecords(Users)] : f = q
  BY <1>4
<1>8. h = [g EXCEPT !.seats = f]
  BY <1>3, <1>5, <1>6, <1>7, Zenon DEF SatOut
<1>9. /\ h \in Games(n, Users) /\ h.seats = f /\ h.payouts = g.payouts
      /\ h.pot = g.pot /\ h.started = g.started /\ h.intermission = g.intermission
      /\ h.orbit = g.orbit
  BY <1>8 DEF Games
<1> QED BY <1>2, <1>4, <1>6, <1>7, <1>9

\* Somebody sits down.
Joined(g, u) == [g EXCEPT !.seats = Append(@, NewPlayer(u, BuyIn))]

LEMMA JoinIs ==
  ASSUME NEW n \in Nat, NEW g, Sound(g, n), ~g.started, NEW u \in Users,
         \A i \in 1 .. n : Name(g, i) # u,
         NEW h, h = Joined(g, u), NEW m, m = n + 1
  PROVE  /\ Sound(h, m)
         /\ \A i \in 1 .. n : h.seats[i] = g.seats[i]
         /\ h.seats[m] = NewPlayer(u, BuyIn)
<1>1. /\ g \in TableGames(n) /\ g.seats \in [1 .. n -> PlayerRecords(Users)]
      /\ Seats(g) = 1 .. n
  BY TableSeats DEF Sound, TableGames
<1>2. PICK p \in PlayerRecords(Users) : p = NewPlayer(u, BuyIn)
  BY TableAssumption DEF NewPlayer, PlayerRecords
<1>3. p.name = u /\ p.roundBet = 0 /\ p.totalBet = 0
  BY <1>2 DEF NewPlayer
<1>4. PICK q : q = Append(g.seats, p)
  OBVIOUS
<1>5. /\ q \in [1 .. n + 1 -> PlayerRecords(Users)]
      /\ \A i \in 1 .. n : q[i] = g.seats[i]
      /\ q[n + 1] = p
  <2>1. PICK S : S = PlayerRecords(Users)
    OBVIOUS
  <2>2. PICK f \in [1 .. n -> S] : f = g.seats
    BY <1>1, <2>1
  <2>3. f \in Seq(S) /\ Len(f) = n /\ p \in S
    BY <2>1
  <2>4. /\ Append(f, p) \in Seq(S) /\ Len(Append(f, p)) = n + 1
        /\ \A i \in 1 .. n : Append(f, p)[i] = f[i]
        /\ Append(f, p)[n + 1] = p
    BY <2>3
  <2>5. q \in Seq(S) /\ Len(q) = n + 1
    BY <1>4, <2>2, <2>4
  <2>6. q \in [1 .. n + 1 -> S]
    BY <2>5
  <2> QED BY <1>4, <2>1, <2>2, <2>4, <2>6
<1>6. h = [g EXCEPT !.seats = q]
  BY <1>2, <1>4 DEF Joined
<1>7. h \in TableGames(n + 1) /\ h.seats = q /\ ~h.started
  BY <1>1, <1>5, <1>6 DEF TableGames
<1>8. Seats(h) = 1 .. n + 1
  BY <1>5, <1>7 DEF Seats
<1>9. RoundWithinHand(h) /\ OneSeatEach(h)
  <2>1. \A i \in 1 .. n + 1 : i \in 1 .. n \/ i = n + 1
    OBVIOUS
  <2>2. RoundWithinHand(h)
    BY <1>1, <1>3, <1>5, <1>7, <1>8, <2>1 DEF Sound, RoundWithinHand
  <2>3. OneSeatEach(h)
    BY <1>1, <1>3, <1>5, <1>7, <1>8, <2>1 DEF Sound, OneSeatEach, Name
  <2> QED BY <2>2, <2>3
<1> QED BY <1>2, <1>5, <1>7, <1>9 DEF Sound

\* The bets of the seats that stay are no more than the bets there were.
LEMMA FewerBets ==
  ASSUME NEW n \in Nat, NEW m \in Nat, n = m + 1, NEW s \in 1 .. n,
         NEW q \in [1 .. n -> PlayerRecords(Users)], NEW r \in [1 .. m -> PlayerRecords(Users)],
         \A i \in 1 .. m : r[i] = q[IF i < s THEN i ELSE i + 1]
  PROVE  SumFunctionOnSet(Bets(r), 1 .. m) <= SumFunctionOnSet(Bets(q), 1 .. n)
<1>1. PICK f, g, S, T, key :
        /\ f = Bets(r) /\ g = Bets(q) /\ S = 1 .. m /\ T = 1 .. n
        /\ key = [i \in 1 .. m |-> IF i < s THEN i ELSE i + 1]
  OBVIOUS
<1>2. ASSUME NEW i \in T
      PROVE  g[i] \in Nat
  BY <1>1 DEF Bets, PlayerRecords
<1>3. ASSUME NEW i \in S
      PROVE  key[i] \in T /\ f[i] = g[key[i]] /\ f[i] \in Int
  <2>1. key[i] = (IF i < s THEN i ELSE i + 1) /\ i \in 1 .. m
    BY <1>1
  <2>2. key[i] \in 1 .. n
    BY <2>1
  <2>3. f[i] = r[i].totalBet
    BY <1>1 DEF Bets
  <2>4. g[key[i]] = q[key[i]].totalBet
    BY <1>1, <2>2 DEF Bets
  <2>5. f[i] = g[key[i]]
    BY <2>1, <2>3, <2>4
  <2>6. g[key[i]] \in Nat
    BY <1>1, <1>2, <2>2
  <2> QED BY <1>1, <2>2, <2>5, <2>6
<1>4. ASSUME NEW i \in S, NEW j \in S, key[i] = key[j]
      PROVE  i = j
  BY <1>1, <1>4
<1>5. PICK U : U = {key[i] : i \in S}
  OBVIOUS
<1>6. U \in SUBSET T
  BY <1>3, <1>5
<1>7. IsFiniteSet(S) /\ IsFiniteSet(T)
  BY <1>1, FS_Interval
<1>8. SumFunctionOnSet(g, U) = SumFunctionOnSet(f, S)
  <2>1. \A i \in S : f[i] \in Int /\ g[key[i]] = f[i]
    BY <1>3
  <2>2. \A i, j \in S : key[i] = key[j] => i = j
    BY <1>4
  <2>3. SumFunctionOnSet(g, {key[i] : i \in S}) = SumFunctionOnSet(f, S)
    BY <1>7, <2>1, <2>2, SumRenamed
  <2> QED BY <1>5, <2>3
<1>9. SumFunctionOnSet(g, U) <= SumFunctionOnSet(g, T)
  BY <1>2, <1>6, <1>7, SumOfFewer
<1> QED BY <1>1, <1>8, <1>9

\* Somebody leaves.
LEMMA WithoutSeatIs ==
  ASSUME NEW n \in Nat, NEW g, Sound(g, n), NEW s \in 1 .. n, NEW m \in Nat, n = m + 1
  PROVE  /\ Sound(WithoutSeat(g, s), m)
         /\ \A i \in 1 .. m : WithoutSeat(g, s).seats[i]
                                = g.seats[IF i < s THEN i ELSE i + 1]
<1>1. /\ g \in TableGames(n) /\ g.seats \in [1 .. n -> PlayerRecords(Users)]
      /\ Seats(g) = 1 .. n /\ Len(g.seats) = n
  BY TableSeats DEF Sound, TableGames
<1>2. n = m + 1
  OBVIOUS
<1>3. PICK h, q : h = WithoutSeat(g, s)
                  /\ q = SubSeq(g.seats, 1, s - 1) \o SubSeq(g.seats, s + 1, n)
  OBVIOUS
<1>4. /\ q \in [1 .. m -> PlayerRecords(Users)]
      /\ \A i \in 1 .. m : q[i] = g.seats[IF i < s THEN i ELSE i + 1]
  <2>1. PICK S : S = PlayerRecords(Users)
    OBVIOUS
  <2>2. PICK f \in [1 .. n -> S] : f = g.seats
    BY <1>1, <2>1
  <2>3. f \in Seq(S) /\ Len(f) = n
    OBVIOUS
  <2>4. PICK a, b : a = SubSeq(f, 1, s - 1) /\ b = SubSeq(f, s + 1, n)
    OBVIOUS
  <2>5. /\ a \in Seq(S) /\ Len(a) = s - 1 /\ \A i \in 1 .. s - 1 : a[i] = f[i]
    BY <2>3, <2>4
  <2>6. /\ b \in Seq(S) /\ Len(b) = n - s /\ \A i \in 1 .. n - s : b[i] = f[s + i]
    BY <2>3, <2>4
  <2>7. q = a \o b
    BY <1>3, <2>2, <2>4
  <2>8. q \in Seq(S) /\ Len(q) = m
    <3>1. a \in Seq(S) /\ b \in Seq(S)
      BY <2>5, <2>6
    <3>2. a \o b \in Seq(S) /\ Len(a \o b) = Len(a) + Len(b)
      BY <3>1, ConcatProperties
    <3> QED BY <1>2, <2>5, <2>6, <2>7, <3>1, <3>2
  <2>9. ASSUME NEW i \in 1 .. m
        PROVE  q[i] = f[IF i < s THEN i ELSE i + 1]
    <3>1. CASE i < s
      BY <1>2, <2>5, <2>6, <2>7, <3>1
    <3>2. CASE ~(i < s)
      <4>1. q[i] = b[i - (s - 1)]
        BY <1>2, <2>5, <2>6, <2>7, <3>2
      <4>2. i - (s - 1) \in 1 .. n - s /\ s + (i - (s - 1)) = i + 1
        BY <1>2, <3>2
      <4>3. b[i - (s - 1)] = f[s + (i - (s - 1))]
        BY <2>6, <4>2
      <4> QED BY <3>2, <4>1, <4>2, <4>3
    <3> QED BY <3>1, <3>2
  <2> QED BY <2>1, <2>2, <2>8, <2>9
<1>5. PICK b \in BOOLEAN : b = (g.started /\ n > 2)
  OBVIOUS
<1>6. h = [g EXCEPT !.seats = q, !.started = b]
  BY <1>1, <1>3, <1>5 DEF WithoutSeat, TableGames
<1>7. /\ h \in TableGames(m) /\ h.seats = q /\ h.started = b
      /\ h.pot = g.pot /\ h.intermission = g.intermission /\ h.payouts = g.payouts
  BY <1>1, <1>4, <1>6 DEF TableGames
<1>8. Seats(h) = 1 .. m
  BY <1>4, <1>7 DEF Seats
<1> DEFINE old(i) == IF i < s THEN i ELSE i + 1
<1>9. ASSUME NEW i \in 1 .. m
      PROVE  old(i) \in 1 .. n /\ h.seats[i] = g.seats[old(i)]
  BY <1>2, <1>4, <1>7
<1>10. RoundWithinHand(h)
  BY <1>1, <1>8, <1>9 DEF Sound, RoundWithinHand
<1>11. OneSeatEach(h)
  <2>1. SUFFICES ASSUME NEW i \in 1 .. m, NEW j \in 1 .. m, Name(h, i) = Name(h, j)
                 PROVE  i = j
    BY <1>8 DEF OneSeatEach
  <2>2. old(i) = old(j)
    <3>1. Name(g, old(i)) = Name(g, old(j)) /\ old(i) \in 1 .. n /\ old(j) \in 1 .. n
      BY <1>9, <2>1 DEF Name
    <3> HIDE DEF old
    <3> QED BY <1>1, <3>1 DEF Sound, OneSeatEach
  <2> QED BY <2>2
<1>12. h.started => ~h.intermission /\ h.payouts = {} /\ PotCovers(h)
  <2>1. SUFFICES ASSUME g.started PROVE PotCovers(h)
    BY <1>5, <1>7 DEF Sound
  <2>2. SumFunctionOnSet(Bets(q), 1 .. m) <= SumFunctionOnSet(Bets(g.seats), 1 .. n)
    BY <1>1, <1>2, <1>4, FewerBets
  <2>3. BetInAll(h) <= BetInAll(g)
    BY <1>1, <1>7, <1>8, <2>2 DEF BetInAll
  <2>4. BetInAll(h) \in Nat
    BY <1>4, <1>7, <1>8, SumOfBets DEF BetInAll
  <2>5. BetInAll(g) \in Nat
    BY <1>1, SumOfBets DEF BetInAll
  <2>6. g.pot \in Nat /\ g.pot >= BetInAll(g)
    BY <1>1, <2>1 DEF Sound, PotCovers, TableGames
  <2> QED BY <1>7, <2>3, <2>4, <2>5, <2>6 DEF PotCovers
<1>13. Sound(h, m)
  BY <1>7, <1>10, <1>11, <1>12 DEF Sound
<1> QED BY <1>3, <1>4, <1>7, <1>13
-----------------------------------------------------------------------------
(***************************************************************************)
(* The map of users.                                                        *)
(***************************************************************************)
MapOK(g, m) ==
  /\ \A u \in DOMAIN m : m[u] \in Seats(g) /\ Name(g, m[u]) = u
  /\ \A i \in Seats(g) : Name(g, i) \in DOMAIN m /\ m[Name(g, i)] = i

LEMMA SeatsByUserIs ==
  ASSUME NEW g, OneSeatEach(g)
  PROVE  MapOK(g, SeatsByUser(g))
<1>1. ASSUME NEW u, NEW i \in Seats(g), Name(g, i) = u
      PROVE  u \in DOMAIN SeatsByUser(g) /\ SeatsByUser(g)[u] = i
  <2>1. \A j \in Seats(g) : Name(g, j) = u => j = i
    BY <1>1 DEF OneSeatEach
  <2>2. (CHOOSE j \in Seats(g) : Name(g, j) = u) = i
    BY <1>1, <2>1
  <2> QED BY <1>1, <2>2 DEF SeatsByUser
<1>2. DOMAIN SeatsByUser(g) = {Name(g, i) : i \in Seats(g)}
  BY DEF SeatsByUser
<1> QED BY <1>1, <1>2 DEF MapOK

\* The map stays right while everybody keeps his seat.
LEMMA MapStays ==
  ASSUME NEW g, NEW h, NEW m, MapOK(g, m), Seats(h) = Seats(g),
         \A i \in Seats(g) : h.seats[i].name = g.seats[i].name
  PROVE  MapOK(h, m)
BY DEF MapOK, Name
-----------------------------------------------------------------------------
(***************************************************************************)
(* Timers.  Nothing that is done to the table's own three clocks takes an   *)
(* eviction callback away.                                                  *)
(***************************************************************************)
TableClocks == {"turn", "countdown", "intermission"}

\* What tm becomes: no eviction is forgotten but those of X.
Keeps(tm, t, X) ==
  t \in Timers /\ \A u \in Users \ X : Due(tm, u) => Due(t, u)

LEMMA KeepsTransitive ==
  ASSUME NEW r, NEW s, NEW t, NEW X, Keeps(r, s, X), Keeps(s, t, X)
  PROVE  Keeps(r, t, X)
BY DEF Keeps

LEMMA NoUserIsAClock ==
  TableClocks \subseteq Kinds /\ Users \subseteq Kinds /\ TableClocks \cap Users = {}
BY TableAssumption DEF TableClocks, Kinds

LEMMA StartKeeps ==
  ASSUME NEW tm \in Timers, NEW x \in Kinds
  PROVE  Keeps(tm, Start(tm, x), {})
BY DEF Timers, Start, Keeps, Due

LEMMA StopKeeps ==
  ASSUME NEW tm \in Timers, NEW x \in Kinds, NEW t \in Stop(tm, x)
  PROVE  Keeps(tm, t, {x})
<1>1. CASE x \notin tm.armed
  BY <1>1 DEF Stop, Keeps
<1>2. CASE x \in tm.armed
  <2>1. PICK late \in {{}, {x}} : t = [armed |-> tm.armed \ {x}, loose |-> tm.loose \cup late]
    <3>1. PICK S \in {{{}, {x}}, {{}}} :
            Stop(tm, x) = {[armed |-> tm.armed \ {x}, loose |-> tm.loose \cup l] : l \in S}
      BY <1>2 DEF Stop
    <3> QED BY <3>1
  <2>2. t.armed = tm.armed \ {x} /\ t.loose = tm.loose \cup late
    BY <2>1
  <2>3. t \in Timers
    BY <2>1 DEF Timers
  <2> QED BY <2>2, <2>3 DEF Keeps, Due
<1> QED BY <1>1, <1>2

LEMMA StopClock ==
  ASSUME NEW tm \in Timers, NEW x \in TableClocks, NEW t \in Stop(tm, x)
  PROVE  Keeps(tm, t, {})
<1>1. x \in Kinds /\ x \notin Users
  BY NoUserIsAClock
<1>2. Keeps(tm, t, {x})
  BY <1>1, StopKeeps
<1> QED BY <1>1, <1>2 DEF Keeps

LEMMA DropClock ==
  ASSUME NEW tm \in Timers, NEW x \in TableClocks
  PROVE  Keeps(tm, Drop(tm, x), {})
<1>1. x \in Kinds /\ x \notin Users
  BY NoUserIsAClock
<1> QED BY <1>1 DEF Keeps, Drop, Due, Timers

LEMMA CallbackKeeps ==
  ASSUME NEW tm \in Timers, NEW x \in Kinds, NEW t \in Callbacks(tm, x)
  PROVE  Keeps(tm, t, {x})
<1>1. t = Fired(tm, x) \/ t = RanLoose(tm, x)
  BY DEF Callbacks
<1> QED BY <1>1 DEF Fired, RanLoose, Keeps, Due, Timers

LEMMA CallbackOfClock ==
  ASSUME NEW tm \in Timers, NEW x \in TableClocks, NEW t \in Callbacks(tm, x)
  PROVE  Keeps(tm, t, {})
<1>1. x \in Kinds /\ x \notin Users
  BY NoUserIsAClock
<1>2. Keeps(tm, t, {x})
  BY <1>1, CallbackKeeps
<1> QED BY <1>1, <1>2 DEF Keeps

LEMMA EvaluateCountdownKeeps ==
  ASSUME NEW tm \in Timers, NEW g, NEW t \in EvaluateCountdown(tm, g)
  PROVE  Keeps(tm, t, {})
<1>1. "countdown" \in TableClocks /\ "countdown" \in Kinds
  BY DEF TableClocks, Kinds
<1>2. \/ t = tm \/ t \in Stop(tm, "countdown") \/ t = Start(tm, "countdown")
      \/ \E s \in Stop(tm, "countdown") : t = Start(s, "countdown")
  BY Zenon DEF EvaluateCountdown
<1>3. CASE t = tm
  BY <1>3 DEF Keeps
<1>4. CASE t \in Stop(tm, "countdown")
  BY <1>1, <1>4, StopClock
<1>5. CASE t = Start(tm, "countdown")
  BY <1>1, <1>5, StartKeeps
<1>6. ASSUME NEW s \in Stop(tm, "countdown"), t = Start(s, "countdown")
      PROVE  Keeps(tm, t, {})
  <2>1. Keeps(tm, s, {})
    BY <1>1, StopClock
  <2>2. Keeps(s, t, {})
    BY <1>1, <1>6, <2>1, StartKeeps DEF Keeps
  <2> QED BY <2>1, <2>2, KeepsTransitive
<1> QED BY <1>2, <1>3, <1>4, <1>5, <1>6

LEMMA ResetTurnTimerKeeps ==
  ASSUME NEW tms \in SUBSET Timers, NEW g, NEW t \in ResetTurnTimer(tms, g)
  PROVE  \E tm \in tms : Keeps(tm, t, {})
<1>1. "turn" \in TableClocks /\ "turn" \in Kinds
  BY DEF TableClocks, Kinds
<1>2. PICK s \in StopAll(tms, "turn") : t = IF ClockDue(g) THEN Start(s, "turn") ELSE s
  BY DEF ResetTurnTimer
<1>3. PICK tm \in tms : s \in Stop(tm, "turn")
  BY <1>2 DEF StopAll
<1>4. Keeps(tm, s, {})
  BY <1>1, <1>3, StopClock
<1>5. Keeps(s, t, {})
  BY <1>1, <1>2, <1>4, StartKeeps DEF Keeps
<1> QED BY <1>4, <1>5, KeepsTransitive

LEMMA StartEvictionsKeep ==
  ASSUME NEW tm \in Timers, NEW names \in SUBSET Users, NEW t \in StartEvictions(tm, names)
  PROVE  Keeps(tm, t, {}) /\ \A u \in names : Due(t, u)
<1>1. PICK late \in SUBSET (tm.armed \cap names) :
        t = [armed |-> tm.armed \cup names, loose |-> tm.loose \cup late]
  BY DEF StartEvictions
<1>2. t.armed = tm.armed \cup names /\ t.loose = tm.loose \cup late
  BY <1>1
<1>3. t \in Timers
  BY <1>1, NoUserIsAClock DEF Timers
<1> QED BY <1>2, <1>3 DEF Keeps, Due
-----------------------------------------------------------------------------
(***************************************************************************)
(* The handlers.  Each keeps the invariant, and, but for a restart, whoever *)
(* is sat out on his clock.                                                 *)
(***************************************************************************)
OnTheClock(g, tm) ==
  \A i \in Seats(g) : g.seats[i].sittingOut => Due(tm, Name(g, i))

\* Whoever is in the same hand before and after has the same stake in it.
SameStakes(g, h) ==
  \A u \in Users : InHand(g, u) /\ InHand(h, u) /\ h.orbit = g.orbit
                    => Stake(h, u) = Stake(g, u)

LEMMA NoHandNoStakes ==
  ASSUME NEW g, NEW h, g = h \/ ~g.started \/ ~h.started
  PROVE  SameStakes(g, h)
BY DEF SameStakes, InHand

LEMMA SameStakesIs ==
  ASSUME NEW n \in Nat, NEW g, Sound(g, n), NEW m \in Nat, NEW h, Sound(h, m),
         \A i \in 1 .. n, j \in 1 .. m :
           /\ g.started /\ h.started /\ h.orbit = g.orbit /\ Name(g, i) = Name(h, j)
           /\ ~g.seats[i].folded
           => h.seats[j].chips + h.seats[j].totalBet = g.seats[i].chips + g.seats[i].totalBet
  PROVE  SameStakes(g, h)
<1>1. Seats(g) = 1 .. n /\ Seats(h) = 1 .. m
  BY TableSeats DEF Sound
<1>2. SUFFICES ASSUME NEW u \in Users, InHand(g, u), InHand(h, u), h.orbit = g.orbit
               PROVE  Stake(h, u) = Stake(g, u)
  BY DEF SameStakes
<1>3. PICK i \in 1 .. n : g.started /\ Name(g, i) = u /\ ~g.seats[i].folded
  BY <1>1, <1>2 DEF InHand
<1>4. PICK j \in 1 .. m : h.started /\ Name(h, j) = u
  BY <1>1, <1>2 DEF InHand
<1>5. ASSUME NEW f, OneSeatEach(f), NEW k \in Seats(f), Name(f, k) = u
      PROVE  Stake(f, u) = f.seats[k].chips + f.seats[k].totalBet
  <2>1. (CHOOSE l \in Seats(f) : Name(f, l) = u) = k
    <3>1. \A l \in Seats(f) : Name(f, l) = u => l = k
      BY <1>5 DEF OneSeatEach
    <3> QED BY <1>5, <3>1
  <2> QED BY <2>1 DEF Stake
<1>6. Stake(g, u) = g.seats[i].chips + g.seats[i].totalBet
  BY <1>1, <1>3, <1>5 DEF Sound
<1>7. Stake(h, u) = h.seats[j].chips + h.seats[j].totalBet
  BY <1>1, <1>4, <1>5 DEF Sound
<1> QED BY <1>2, <1>3, <1>4, <1>6, <1>7

Fine == IInv' /\ (SatOutIsOnTheClock => SatOutIsOnTheClock') /\ SameStakes(game, game')

\* What a handler has to show.
LEMMA FineIs ==
  ASSUME \E n \in 0 .. MaxPlayers : Sound(game', n),
         \E n \in 0 .. MaxPlayers : Sound(saved', n),
         Mirrored(game', saved'),
         SameStakes(game, game'),
         MapOK(game', userMap'),
         wallet' \in [Users \cup {House} -> Nat],
         timers' \in Timers,
         OnTheClock(game, timers) => OnTheClock(game', timers')
  PROVE  Fine
<1>1. SeatMapOK'
  BY DEF SeatMapOK, MapOK, Seated
<1>2. IInv'
  BY <1>1 DEF IInv
<1>3. SatOutIsOnTheClock <=> OnTheClock(game, timers)
  BY DEF SatOutIsOnTheClock, OnTheClock, Due
<1>4. SatOutIsOnTheClock' <=> OnTheClock(game', timers')
  BY DEF SatOutIsOnTheClock, OnTheClock, Due
<1> QED BY <1>2, <1>3, <1>4 DEF Fine

\* Nobody is sat out, and nobody's eviction is forgotten.
LEMMA ClockStays ==
  ASSUME NEW n \in Nat, NEW g, Sound(g, n), NEW h, Sound(h, n),
         NEW tm, NEW t, Keeps(tm, t, {}),
         \A i \in 1 .. n : /\ h.seats[i].name = g.seats[i].name
                           /\ h.seats[i].sittingOut => g.seats[i].sittingOut
  PROVE  OnTheClock(g, tm) => OnTheClock(h, t)
<1>1. Seats(g) = 1 .. n /\ \A i \in 1 .. n : Name(g, i) \in Users
  BY TableSeats DEF Sound, PlayerRecords, Name
<1>2. Seats(h) = 1 .. n
  BY TableSeats DEF Sound
<1> QED BY <1>1, <1>2 DEF OnTheClock, Keeps, Name

\* The parts of the invariant.
LEMMA IInvIs ==
  ASSUME IInv
  PROVE  /\ MaxPlayers \in Nat /\ MapOK(game, userMap)
         /\ \E n \in 0 .. MaxPlayers :
              /\ n \in Nat /\ Sound(game, n) /\ game \in TableGames(n)
              /\ Seats(game) = 1 .. n /\ Len(game.seats) = n
              /\ \A i \in 1 .. n : /\ game.seats[i] \in PlayerRecords(Users)
                                   /\ Name(game, i) \in Users
              /\ \A u \in Seated : /\ u \in Users /\ userMap[u] \in 1 .. n
                                   /\ Name(game, userMap[u]) = u
<1>1. MaxPlayers \in Nat /\ MapOK(game, userMap)
  BY TableAssumption DEF IInv, SeatMapOK, MapOK, Seated
<1>2. PICK n \in 0 .. MaxPlayers : Sound(game, n)
  BY DEF IInv
<1>3. n \in Nat /\ game \in TableGames(n)
  BY <1>1, <1>2 DEF Sound
<1>4. /\ Seats(game) = 1 .. n /\ Len(game.seats) = n
      /\ \A i \in 1 .. n : game.seats[i] \in PlayerRecords(Users)
  BY <1>3, TableSeats
<1>5. \A i \in 1 .. n : Name(game, i) \in Users
  BY <1>4 DEF PlayerRecords, Name
<1>6. \A u \in Seated : /\ u \in Users /\ userMap[u] \in 1 .. n
                        /\ Name(game, userMap[u]) = u
  BY <1>1, <1>4, <1>5 DEF MapOK, Seated
<1> QED BY <1>1, <1>2, <1>3, <1>4, <1>5, <1>6

LEMMA JoinFine ==
  ASSUME IInv, NEW u \in Users, JoinTable(u)
  PROVE  Fine
<1>1. PICK n \in 0 .. MaxPlayers :
        /\ n \in Nat /\ Sound(game, n) /\ MapOK(game, userMap) /\ MaxPlayers \in Nat
        /\ Seats(game) = 1 .. n /\ Len(game.seats) = n
        /\ \A i \in 1 .. n : Name(game, i) \in Users
  BY IInvIs
<1>2. PICK g : g = Joined(game, u)
  OBVIOUS
<1>3. /\ game' = g /\ u \notin Seated /\ ~game.started /\ Len(game.seats) < MaxPlayers
      /\ timers' \in EvaluateCountdown(timers, g)
      /\ saved' = Stored(g)
      /\ wallet' = [wallet EXCEPT ![u] = @ - BuyIn] /\ wallet[u] >= BuyIn
      /\ userMap' = [v \in Seated \cup {u} |-> IF v = u THEN n + 1 ELSE userMap[v]]
  BY <1>1, <1>2 DEF JoinTable, Save, Sound, Joined
<1>4. \A i \in 1 .. n : Name(game, i) # u /\ Name(game, i) \in Seated
  BY <1>1, <1>3 DEF MapOK, Seated
<1>5. /\ Sound(g, n + 1)
      /\ \A i \in 1 .. n : g.seats[i] = game.seats[i]
      /\ g.seats[n + 1] = NewPlayer(u, BuyIn)
  <2>1. n \in Nat /\ Sound(game, n) /\ ~game.started
    BY <1>1, <1>3
  <2>2. \A i \in 1 .. n : Name(game, i) # u
    BY <1>4
  <2>3. PICK m : m = n + 1
    OBVIOUS
  <2>4. Sound(g, m) /\ (\A i \in 1 .. n : g.seats[i] = game.seats[i]) /\ g.seats[m] = NewPlayer(u, BuyIn)
    BY <1>2, <2>1, <2>2, <2>3, JoinIs
  <2> QED BY <2>3, <2>4
<1>6. n + 1 \in 0 .. MaxPlayers /\ n + 1 \in Nat
  BY <1>1, <1>3
<1>7. Sound(saved', n + 1) /\ Mirrored(g, saved')
  BY <1>3, <1>5, <1>6, StoredIs
<1>8. Seats(g) = 1 .. n + 1
  BY <1>5, <1>6, TableSeats DEF Sound
<1>9. \A i \in 1 .. n + 1 : i \in 1 .. n \/ i = n + 1
  BY <1>1
<1>10. Name(g, n + 1) = u /\ ~g.seats[n + 1].sittingOut
  BY <1>5 DEF Name, NewPlayer
<1>11. MapOK(g, userMap')
  <2>1. ASSUME NEW v \in Seated \cup {u}
        PROVE  userMap'[v] \in 1 .. n + 1 /\ Name(g, userMap'[v]) = v
    <3>1. CASE v = u
      BY <1>1, <1>3, <1>10, <3>1
    <3>2. CASE v # u
      <4>1. userMap'[v] = userMap[v] /\ userMap[v] \in 1 .. n /\ Name(game, userMap[v]) = v
        BY <1>1, <1>3, <2>1, <3>2 DEF MapOK, Seated
      <4> QED BY <1>1, <1>5, <4>1 DEF Name
    <3> QED BY <3>1, <3>2
  <2>2. ASSUME NEW i \in 1 .. n + 1
        PROVE  Name(g, i) \in Seated \cup {u} /\ userMap'[Name(g, i)] = i
    <3>1. CASE i = n + 1
      BY <1>3, <1>10, <3>1
    <3>2. CASE i \in 1 .. n
      <4>1. Name(g, i) = Name(game, i)
        BY <1>5, <3>2 DEF Name
      <4>2. userMap[Name(game, i)] = i
        BY <1>1, <3>2 DEF MapOK
      <4> QED BY <1>3, <1>4, <3>2, <4>1, <4>2
    <3> QED BY <1>9, <3>1, <3>2
  <2>3. DOMAIN userMap' = Seated \cup {u}
    BY <1>3
  <2> QED BY <1>8, <2>1, <2>2, <2>3 DEF MapOK
<1>12. wallet' \in [Users \cup {House} -> Nat]
  <2>1. wallet \in [Users \cup {House} -> Nat] /\ BuyIn \in Nat
    BY TableAssumption DEF IInv
  <2>2. wallet[u] \in Nat
    BY <2>1
  <2>3. wallet[u] - BuyIn \in Nat
    BY <1>3, <2>1, <2>2
  <2> QED BY <1>3, <2>1, <2>3
<1>13. Keeps(timers, timers', {})
  BY <1>3, EvaluateCountdownKeeps DEF IInv
<1>14. OnTheClock(game, timers) => OnTheClock(g, timers')
  <2>1. SUFFICES ASSUME OnTheClock(game, timers), NEW i \in 1 .. n + 1, g.seats[i].sittingOut
                 PROVE  Due(timers', Name(g, i))
    BY <1>8 DEF OnTheClock
  <2>2. i \in 1 .. n
    BY <1>9, <1>10, <2>1
  <2>3. Due(timers, Name(game, i))
    BY <1>1, <1>5, <2>1, <2>2 DEF OnTheClock
  <2> QED BY <1>1, <1>5, <1>13, <2>2, <2>3 DEF Keeps, Name
<1>15. timers' \in Timers
  BY <1>13 DEF Keeps
<1>16. SameStakes(game, g)
  BY <1>3, NoHandNoStakes
<1> QED BY <1>3, <1>5, <1>6, <1>7, <1>11, <1>12, <1>14, <1>15, <1>16, FineIs

\* LeaveTable, on whatever timers the caller left.
LEMMA LeaveWithFine ==
  ASSUME IInv, NEW u \in Users, NEW tms \in SUBSET Timers,
         \A tm \in tms : Keeps(timers, tm, {u}), LeaveWith(u, tms)
  PROVE  Fine
<1>1. PICK n \in 0 .. MaxPlayers :
        /\ n \in Nat /\ Sound(game, n) /\ MaxPlayers \in Nat
        /\ Seats(game) = 1 .. n /\ Len(game.seats) = n
        /\ \A i \in 1 .. n : game.seats[i] \in PlayerRecords(Users) /\ Name(game, i) \in Users
        /\ \A v \in Seated : /\ v \in Users /\ userMap[v] \in 1 .. n
                             /\ Name(game, userMap[v]) = v
  BY IInvIs
<1>2. PICK s, g : s = userMap[u] /\ g = WithoutSeat(game, s)
  OBVIOUS
<1>3. /\ u \in Seated /\ game' = g /\ userMap' = SeatsByUser(g) /\ saved' = Stored(g)
      /\ wallet' = [wallet EXCEPT ![u] = @ + game.seats[s].chips]
  BY <1>2, Zenon DEF LeaveWith, Save
<1>4. s \in 1 .. n /\ Name(game, s) = u
  BY <1>1, <1>2, <1>3
<1>5. PICK m \in Nat : n = m + 1
  <2>1. n - 1 \in Nat /\ n = (n - 1) + 1
    BY <1>1, <1>4
  <2> QED BY <2>1
<1> DEFINE old(i) == IF i < s THEN i ELSE i + 1
<1>6. Sound(g, m) /\ \A i \in 1 .. m : g.seats[i] = game.seats[old(i)]
  <2>1. PICK f : f = game
    OBVIOUS
  <2>2. Sound(f, n) /\ g = WithoutSeat(f, s)
    BY <1>1, <1>2, <2>1
  <2>3. Sound(g, m) /\ \A i \in 1 .. m : g.seats[i] = f.seats[old(i)]
    BY <1>1, <1>4, <1>5, <2>2, WithoutSeatIs
  <2> QED BY <2>1, <2>3
<1>7. m \in 0 .. MaxPlayers
  BY <1>1, <1>5
<1>8. Sound(saved', m) /\ Mirrored(g, saved')
  BY <1>3, <1>6, StoredIs
<1>9. MapOK(g, userMap')
  BY <1>3, <1>6, SeatsByUserIs DEF Sound
<1>10. wallet' \in [Users \cup {House} -> Nat]
  <2>1. wallet \in [Users \cup {House} -> Nat] /\ game.seats[s].chips \in Nat
    BY <1>1, <1>4 DEF IInv, PlayerRecords
  <2>2. wallet[u] \in Nat
    BY <2>1
  <2>3. wallet[u] + game.seats[s].chips \in Nat
    BY <2>1, <2>2
  <2> QED BY <1>3, <2>1, <2>3
<1>11. Keeps(timers, timers', {u})
  <2>1. PICK unevicted : unevicted = StopAll(tms, u)
    OBVIOUS
  <2>2. ASSUME NEW t \in unevicted
        PROVE  Keeps(timers, t, {u})
    <3>1. PICK tm \in tms : t \in Stop(tm, u)
      BY <2>1, <2>2 DEF StopAll
    <3>2. tm \in Timers /\ u \in Kinds
      BY NoUserIsAClock
    <3>3. Keeps(tm, t, {u})
      BY <3>1, <3>2, StopKeeps
    <3> QED BY <3>1, <3>3, KeepsTransitive
  <2>3. \/ timers' \in unevicted
        \/ timers' \in StopAll(StopAll(StopAll(unevicted, "turn"), "intermission"), "countdown")
    BY <1>2, <2>1, Zenon DEF LeaveWith
  <2>4. ASSUME NEW ts, \A t \in ts : Keeps(timers, t, {u}), NEW x \in TableClocks,
               NEW t \in StopAll(ts, x)
        PROVE  Keeps(timers, t, {u})
    <3>1. PICK tm \in ts : t \in Stop(tm, x)
      BY <2>4 DEF StopAll
    <3>2. Keeps(timers, tm, {u})
      BY <2>4
    <3>3. Keeps(tm, t, {})
      BY <3>1, <3>2, StopClock DEF Keeps
    <3> QED BY <3>2, <3>3 DEF Keeps
  <2>5. CASE timers' \in unevicted
    BY <2>2, <2>5
  <2>6. CASE timers' \in StopAll(StopAll(StopAll(unevicted, "turn"), "intermission"), "countdown")
    <3>1. "turn" \in TableClocks /\ "intermission" \in TableClocks /\ "countdown" \in TableClocks
      BY DEF TableClocks
    <3>2. PICK a : a = StopAll(unevicted, "turn")
      OBVIOUS
    <3>3. PICK b : b = StopAll(a, "intermission")
      OBVIOUS
    <3>4. \A t \in a : Keeps(timers, t, {u})
      BY <2>2, <2>4, <3>1, <3>2
    <3>5. \A t \in b : Keeps(timers, t, {u})
      BY <2>4, <3>1, <3>3, <3>4
    <3> QED BY <2>4, <2>6, <3>1, <3>2, <3>3, <3>5
  <2> QED BY <2>3, <2>5, <2>6
<1>12. OnTheClock(game, timers) => OnTheClock(g, timers')
  <2>1. Seats(g) = 1 .. m
    BY <1>6, TableSeats DEF Sound
  <2>2. SUFFICES ASSUME OnTheClock(game, timers), NEW i \in 1 .. m, g.seats[i].sittingOut
                 PROVE  Due(timers', Name(g, i))
    BY <2>1 DEF OnTheClock
  <2>3. old(i) \in 1 .. n /\ old(i) # s
    BY <1>4, <1>5
  <2>4. g.seats[i] = game.seats[old(i)]
    BY <1>6
  <2> HIDE DEF old
  <2>5. Name(g, i) = Name(game, old(i)) /\ Name(game, old(i)) \in Users
    BY <1>1, <2>3, <2>4 DEF Name
  <2>6. Name(game, old(i)) # u
    BY <1>1, <1>4, <2>3 DEF Sound, OneSeatEach
  <2>7. Due(timers, Name(game, old(i)))
    BY <1>1, <2>2, <2>3, <2>4 DEF OnTheClock
  <2> QED BY <1>11, <2>5, <2>6, <2>7 DEF Keeps
<1>13. timers' \in Timers
  BY <1>11 DEF Keeps
<1>14. SameStakes(game, g)
  <2>1. PICK f : f = game
    OBVIOUS
  <2>2. ASSUME NEW i \in 1 .. n, NEW j \in 1 .. m, Name(f, i) = Name(g, j)
        PROVE  g.seats[j] = f.seats[i]
    <3>1. old(j) \in 1 .. n
      BY <1>4, <1>5
    <3>2. g.seats[j] = f.seats[old(j)]
      BY <1>6, <2>1
    <3> HIDE DEF old
    <3>3. Name(f, i) = Name(f, old(j))
      BY <2>2, <3>2 DEF Name
    <3>4. i = old(j)
      BY <1>1, <2>1, <3>1, <3>3 DEF Sound, OneSeatEach
    <3> QED BY <3>2, <3>4
  <2>3. Sound(f, n)
    BY <1>1, <2>1
  <2>4. ASSUME NEW i \in 1 .. n, NEW j \in 1 .. m, Name(f, i) = Name(g, j)
        PROVE  g.seats[j].chips + g.seats[j].totalBet
                 = f.seats[i].chips + f.seats[i].totalBet
    BY <2>2, <2>4
  <2>5. n \in Nat /\ Sound(g, m)
    BY <1>1, <1>6
  <2>6. SameStakes(f, g)
    BY <2>3, <2>4, <2>5, SameStakesIs
  <2> QED BY <2>1, <2>6
<1> QED BY <1>3, <1>6, <1>7, <1>8, <1>9, <1>10, <1>12, <1>13, <1>14, FineIs

LEMMA LeaveFine ==
  ASSUME IInv, NEW u \in Users, LeaveTable(u) \/ SitOutEviction(u)
  PROVE  Fine
<1>1. timers \in Timers /\ u \in Kinds
  BY NoUserIsAClock DEF IInv
<1>2. CASE LeaveTable(u)
  <2>1. Keeps(timers, timers, {u})
    BY <1>1 DEF Keeps
  <2>2. {timers} \in SUBSET Timers /\ \A tm \in {timers} : Keeps(timers, tm, {u})
    BY <1>1, <2>1
  <2> QED BY <1>2, <2>2, LeaveWithFine DEF LeaveTable
<1>3. ASSUME NEW tm \in Callbacks(timers, u), LeaveWith(u, {tm})
      PROVE  Fine
  <2>1. Keeps(timers, tm, {u}) /\ tm \in Timers
    BY <1>1, CallbackKeeps DEF Keeps
  <2>2. {tm} \in SUBSET Timers /\ \A t \in {tm} : Keeps(timers, t, {u})
    BY <2>1
  <2> QED BY <1>3, <2>2, LeaveWithFine
<1>4. ASSUME NEW tm \in Callbacks(timers, u), u \notin Seated, timers' = tm,
             UNCHANGED <<game, userMap, wallet, saved>>
      PROVE  Fine
  <2>1. Keeps(timers, tm, {u}) /\ tm \in Timers
    BY <1>1, CallbackKeeps DEF Keeps
  <2>2. OnTheClock(game, timers) => OnTheClock(game, tm)
    <3>1. SUFFICES ASSUME OnTheClock(game, timers), NEW i \in Seats(game),
                          game.seats[i].sittingOut
                   PROVE  Due(tm, Name(game, i))
      BY DEF OnTheClock
    <3>2. Name(game, i) \in Seated /\ Name(game, i) \in Users
      BY IInvIs DEF MapOK, Seated
    <3> QED BY <1>4, <2>1, <3>1, <3>2 DEF OnTheClock, Keeps
  <2>3. SameStakes(game, game') /\ Mirrored(game', saved')
    BY <1>4, NoHandNoStakes DEF IInv
  <2>4. MapOK(game, userMap)
    BY IInvIs
  <2> QED BY <1>4, <2>1, <2>2, <2>3, <2>4, FineIs DEF IInv
<1> QED BY <1>2, <1>3, <1>4 DEF SitOutEviction

\* A handler that changes one seat, wakes its player, and looks at the countdown.
LEMMA ComesBack ==
  ASSUME IInv, NEW u \in Seated, NEW p \in PlayerRecords(Users),
         p.name = u, ~p.sittingOut,
         p.roundBet = game.seats[userMap[u]].roundBet,
         p.totalBet = game.seats[userMap[u]].totalBet,
         p.chips = game.seats[userMap[u]].chips \/ ~InLiveHand(game, userMap[u]),
         game' = WithSeat(game, userMap[u], p),
         wallet' \in [Users \cup {House} -> Nat],
         NEW tm, Keeps(timers, tm, {u}),
         timers' \in EvaluateCountdown(tm, game'),
         saved' = Stored(game'), userMap' = userMap
  PROVE  Fine
<1>1. PICK n \in 0 .. MaxPlayers :
        /\ n \in Nat /\ Sound(game, n) /\ MapOK(game, userMap)
        /\ Seats(game) = 1 .. n
        /\ \A i \in 1 .. n : Name(game, i) \in Users
        /\ userMap[u] \in 1 .. n /\ Name(game, userMap[u]) = u /\ u \in Users
  BY IInvIs
<1>2. PICK f, g, s : f = game /\ g = game' /\ s = userMap[u]
  OBVIOUS
<1>3. Sound(g, n) /\ \A i \in 1 .. n : g.seats[i] = IF i = s THEN p ELSE f.seats[i]
  <2>1. n \in Nat /\ Sound(f, n) /\ s \in 1 .. n /\ g = WithSeat(f, s, p)
    BY <1>1, <1>2
  <2>2. /\ p.name = f.seats[s].name /\ p.roundBet = f.seats[s].roundBet
        /\ p.totalBet = f.seats[s].totalBet
    BY <1>1, <1>2 DEF Name
  <2>3. Sound(WithSeat(f, s, p), n)
    BY <2>1, <2>2, SetSeat
  <2>4. OnlySeat(f, WithSeat(f, s, p), n, s, p)
    BY <2>1, <2>2, SetSeat
  <2> QED BY <2>1, <2>3, <2>4 DEF OnlySeat
<1>4. Seats(g) = 1 .. n
  BY <1>1, <1>3, TableSeats DEF Sound
<1>5. \A i \in 1 .. n : g.seats[i].name = f.seats[i].name
  BY <1>1, <1>2, <1>3 DEF Name
<1>6. MapOK(g, userMap)
  <2>1. MapOK(f, userMap) /\ Seats(g) = Seats(f)
    BY <1>1, <1>2, <1>4
  <2>2. \A i \in Seats(f) : g.seats[i].name = f.seats[i].name
    BY <1>1, <1>2, <1>5
  <2> QED BY <2>1, <2>2, MapStays
<1>7. Sound(saved', n) /\ Mirrored(g, saved')
  BY <1>1, <1>2, <1>3, StoredIs
<1>8. Keeps(timers, timers', {u})
  <2>1. Keeps(tm, timers', {})
    BY EvaluateCountdownKeeps DEF Keeps
  <2> QED BY <2>1 DEF Keeps
<1>9. OnTheClock(game, timers) => OnTheClock(g, timers')
  <2>1. SUFFICES ASSUME OnTheClock(game, timers), NEW i \in 1 .. n, g.seats[i].sittingOut
                 PROVE  Due(timers', Name(g, i))
    BY <1>4 DEF OnTheClock
  <2>2. i # s /\ g.seats[i] = f.seats[i]
    BY <1>3, <2>1
  <2>3. Name(game, i) # u
    BY <1>1, <1>2, <2>2 DEF MapOK
  <2>4. Due(timers, Name(game, i))
    BY <1>1, <1>2, <2>1, <2>2 DEF OnTheClock
  <2> QED BY <1>1, <1>2, <1>8, <2>2, <2>3, <2>4 DEF Keeps, Name
<1>10. SameStakes(f, g)
  <2>1. Sound(f, n)
    BY <1>1, <1>2
  <2>2. ASSUME NEW i \in 1 .. n, NEW j \in 1 .. n,
               f.started, Name(f, i) = Name(g, j), ~f.seats[i].folded
        PROVE  g.seats[j].chips + g.seats[j].totalBet = f.seats[i].chips + f.seats[i].totalBet
    <3>1. i = j
      <4>1. Name(f, i) = Name(f, j)
        BY <1>5, <2>2 DEF Name
      <4>2. OneSeatEach(f) /\ Seats(f) = 1 .. n
        BY <1>1, <1>2, <2>1 DEF Sound
      <4> QED BY <4>1, <4>2 DEF OneSeatEach
    <3>2. ~f.intermission
      BY <2>1, <2>2 DEF Sound
    <3>3. i = s => p.chips = f.seats[s].chips /\ p.totalBet = f.seats[s].totalBet
      BY <1>2, <2>2, <3>2 DEF InLiveHand
    <3>4. g.seats[j] = IF i = s THEN p ELSE f.seats[i]
      BY <1>3, <3>1
    <3> QED BY <3>3, <3>4
  <2> QED BY <1>1, <1>3, <2>1, <2>2, SameStakesIs
<1> QED BY <1>1, <1>2, <1>3, <1>6, <1>7, <1>8, <1>9, <1>10, FineIs DEF Keeps

LEMMA SitInFine ==
  ASSUME IInv, NEW u \in Users, SitIn(u)
  PROVE  Fine
<1>1. PICK n \in 0 .. MaxPlayers :
        /\ game \in TableGames(n)
        /\ \A i \in 1 .. n : game.seats[i] \in PlayerRecords(Users)
        /\ \A v \in Seated : userMap[v] \in 1 .. n /\ Name(game, userMap[v]) = v
  BY IInvIs
<1>2. PICK s : s = userMap[u]
  OBVIOUS
<1>3. u \in Seated /\ s \in 1 .. n /\ game.seats[s].name = u
  BY <1>1, <1>2 DEF SitIn, Name
<1>4. PICK p \in PlayerRecords(Users) : p = [game.seats[s] EXCEPT !.sittingOut = FALSE]
  <2>1. PICK r \in PlayerRecords(Users) : r = game.seats[s]
    BY <1>1, <1>3
  <2>2. [r EXCEPT !.sittingOut = FALSE] \in PlayerRecords(Users)
    BY DEF PlayerRecords
  <2> QED BY <2>1, <2>2
<1>5. /\ p.name = u /\ ~p.sittingOut /\ p.roundBet = game.seats[s].roundBet
      /\ p.totalBet = game.seats[s].totalBet /\ p.chips = game.seats[s].chips
  BY <1>1, <1>3, <1>4 DEF PlayerRecords
<1>6. game' = WithSeat(game, s, p)
  <2>1. game' = [game EXCEPT !.seats[s].sittingOut = FALSE]
    BY <1>2 DEF SitIn
  <2> QED BY <1>4, <2>1 DEF WithSeat
<1>7. PICK tm \in Stop(timers, u) : timers' \in EvaluateCountdown(tm, game')
  BY DEF SitIn
<1>8. Keeps(timers, tm, {u})
  BY NoUserIsAClock, StopKeeps DEF IInv
<1>9. saved' = Stored(game') /\ userMap' = userMap /\ wallet' \in [Users \cup {House} -> Nat]
  BY DEF SitIn, Save, IInv
<1> QED BY <1>2, <1>3, <1>5, <1>6, <1>7, <1>8, <1>9, ComesBack

LEMMA RefillFine ==
  ASSUME IInv, NEW u \in Users, NEW amount \in Refills, Refill(u, amount)
  PROVE  Fine
<1>1. PICK n \in 0 .. MaxPlayers :
        /\ game \in TableGames(n)
        /\ \A i \in 1 .. n : game.seats[i] \in PlayerRecords(Users)
        /\ \A v \in Seated : userMap[v] \in 1 .. n /\ Name(game, userMap[v]) = v
  BY IInvIs
<1>2. PICK s : s = userMap[u]
  OBVIOUS
<1>3. u \in Seated /\ s \in 1 .. n /\ game.seats[s].name = u
  BY <1>1, <1>2 DEF Refill, Name
<1>4. amount \in Nat /\ game.seats[s].chips \in Nat
  BY <1>1, <1>3, TableAssumption DEF PlayerRecords
<1>5. PICK c \in Nat : c = game.seats[s].chips + amount
  BY <1>4
<1>6. PICK p \in PlayerRecords(Users) :
        p = [game.seats[s] EXCEPT !.chips = c, !.sittingOut = FALSE]
  <2>1. PICK r \in PlayerRecords(Users) : r = game.seats[s]
    BY <1>1, <1>3
  <2>2. [r EXCEPT !.chips = c, !.sittingOut = FALSE] \in PlayerRecords(Users)
    BY DEF PlayerRecords
  <2> QED BY <2>1, <2>2
<1>7. /\ p.name = u /\ ~p.sittingOut /\ p.roundBet = game.seats[s].roundBet
      /\ p.totalBet = game.seats[s].totalBet
  BY <1>1, <1>3, <1>6 DEF PlayerRecords
<1>8. game' = WithSeat(game, s, p)
  <2>1. game' = [game EXCEPT !.seats[s] = [game.seats[s] EXCEPT !.chips = @ + amount,
                                                                !.sittingOut = FALSE]]
    BY <1>2 DEF Refill
  <2> QED BY <1>5, <1>6, <2>1 DEF WithSeat
<1>9. PICK tm \in {timers} \cup Stop(timers, u) : timers' \in EvaluateCountdown(tm, game')
  BY DEF Refill
<1>10. Keeps(timers, tm, {u})
  <2>1. CASE tm = timers
    BY <2>1 DEF IInv, Keeps
  <2>2. CASE tm \in Stop(timers, u)
    BY <2>2, NoUserIsAClock, StopKeeps DEF IInv
  <2> QED BY <2>1, <2>2
<1>11. wallet' \in [Users \cup {House} -> Nat]
  <2>1. wallet \in [Users \cup {House} -> Nat]
    BY DEF IInv
  <2>2. wallet' = [wallet EXCEPT ![u] = @ - amount] /\ wallet[u] >= amount
    BY DEF Refill
  <2>3. wallet[u] - amount \in Nat
    BY <1>4, <2>1, <2>2
  <2> QED BY <2>1, <2>2, <2>3
<1>12. saved' = Stored(game') /\ userMap' = userMap /\ ~InLiveHand(game, s)
  BY <1>2 DEF Refill, Save
<1> QED BY <1>2, <1>3, <1>7, <1>8, <1>9, <1>10, <1>11, <1>12, ComesBack

\* Only the timers changed.
LEMMA OnlyTimersFine ==
  ASSUME IInv, NEW tm, Keeps(timers, tm, {}), OnlyTimers({tm})
  PROVE  Fine
<1>1. timers' = tm /\ UNCHANGED <<game, userMap, wallet, saved>>
  BY DEF OnlyTimers
<1>2. OnTheClock(game, timers) => OnTheClock(game, tm)
  <2>1. PICK n \in 0 .. MaxPlayers :
          Seats(game) = 1 .. n /\ \A i \in 1 .. n : Name(game, i) \in Users
    BY IInvIs
  <2> QED BY <2>1 DEF OnTheClock, Keeps
<1>3. tm \in Timers
  BY DEF Keeps
<1>4. MapOK(game, userMap)
  BY IInvIs
<1>5. SameStakes(game, game') /\ Mirrored(game', saved')
  BY <1>1, NoHandNoStakes DEF IInv
<1> QED BY <1>1, <1>2, <1>3, <1>4, <1>5, FineIs DEF IInv

\* A deal starts from the seats alone: what the last hand paid is forgotten.
LEMMA DealIs ==
  ASSUME NEW n \in Nat, NEW f, Sound(f, n), NEW g, g = [f EXCEPT !.intermission = FALSE],
         NEW h \in StartHand(g)
  PROVE  /\ Sound(h, n) /\ SamePlayers(f, h) /\ CanStartHand(g) = CanStartHand(f)
         /\ CanStartHand(f) /\ h.started => h.orbit # f.orbit
         /\ ~CanStartHand(f) => /\ h.started = f.started /\ h.orbit = f.orbit
                                /\ h.seats = f.seats
<1>1. f \in TableGames(n)
  BY DEF Sound
<1>2. /\ g \in TableGames(n) /\ g.seats = f.seats /\ g.pot = f.pot /\ ~g.intermission
      /\ g.started = f.started /\ g.payouts = f.payouts /\ g.orbit = f.orbit
  BY <1>1 DEF TableGames
<1>3. Sound(g, n)
  BY <1>1, <1>2, SoundStays DEF Sound
<1>4. Seats(f) = 1 .. n /\ Seats(g) = 1 .. n
  BY <1>1, <1>2, TableSeats
<1>5. CanStartHand(g) = CanStartHand(f)
  BY <1>2, <1>4 DEF CanStartHand, DealtInSeats
<1>6. CASE ~CanStartHand(g)
  <2>1. h = g
    BY <1>6 DEF StartHand
  <2>2. SamePlayers(f, g)
    BY <1>2 DEF SamePlayers
  <2> QED BY <1>2, <1>3, <1>5, <1>6, <2>1, <2>2
<1>7. CASE CanStartHand(g)
  <2>1. PICK c : c = [g EXCEPT !.payouts = {}]
    OBVIOUS
  <2>2. c \in Games(n, Users) /\ c.seats = g.seats
    <3>1. c \in TableGames(n) /\ c.seats = g.seats /\ c.payouts = {}
      BY <1>2, <2>1 DEF TableGames
    <3> QED BY <3>1, TableGamesAre
  <2>3. DealIn(c) = DealIn(g)
    BY <1>2, <2>1, <2>2 DEF DealIn, SeatsBy, Seats, TableGames
  <2>4. CanStartHand(c)
    BY <1>4, <1>7, <2>2, SeatsOf DEF CanStartHand, DealtInSeats
  <2>5. h \in StartHand(c)
    BY <1>7, <2>3, <2>4 DEF StartHand
  <2>6. SmallBlind \in Nat /\ BigBlind \in Nat
    BY BlindsAssumption
  <2>7. /\ h \in Games(n, Users) /\ RoundWithinHand(h)
        /\ h.started => PotIs(h) /\ ~h.intermission /\ h.payouts = {}
        /\ SamePlayers(c, h)
    BY <2>2, <2>4, <2>5, <2>6, StartHandIs
  <2>8. h \in TableGames(n)
    BY <2>7, TableGamesAre
  <2>9. h.started => PotCovers(h)
    BY <2>7, PotIsCovers
  <2>10. SamePlayers(f, h)
    BY <1>2, <1>4, <2>2, <2>7, SeatsOf DEF SamePlayers
  <2>11. OneSeatEach(h)
    <3>1. Seats(h) = 1 .. n
      BY <2>8, TableSeats
    <3> QED BY <1>4, <2>10, <3>1 DEF Sound, OneSeatEach, SamePlayers, Name
  <2>12. h.started => h.orbit # f.orbit
    <3>1. c.orbit = f.orbit
      BY <1>2, <2>1 DEF TableGames
    <3> QED BY <2>2, <2>4, <2>5, <2>6, <3>1, OrbitMoves
  <2> QED BY <1>5, <1>7, <2>7, <2>8, <2>9, <2>10, <2>11, <2>12 DEF Sound
<1> QED BY <1>6, <1>7

LEMMA DealWithFine ==
  ASSUME IInv, NEW tms \in SUBSET Timers, \A tm \in tms : Keeps(timers, tm, {}),
         DealWith(tms)
  PROVE  Fine
<1>1. PICK n \in 0 .. MaxPlayers :
        /\ n \in Nat /\ Sound(game, n) /\ MapOK(game, userMap) /\ Seats(game) = 1 .. n
  BY IInvIs
<1>2. PICK g \in StartHand([game EXCEPT !.intermission = FALSE]) :
        /\ game' = g /\ timers' \in ResetTurnTimer(tms, g)
        /\ saved' = IF CanStartHand(game) THEN Stored(g) ELSE saved
        /\ UNCHANGED <<userMap, wallet>>
  BY DEF DealWith
<1>3. /\ Sound(g, n) /\ SamePlayers(game, g)
      /\ CanStartHand(game) /\ g.started => g.orbit # game.orbit
      /\ ~CanStartHand(game) => /\ g.started = game.started /\ g.orbit = game.orbit
                                /\ g.seats = game.seats
  <2>1. PICK f, e : f = game /\ e = [f EXCEPT !.intermission = FALSE]
    OBVIOUS
  <2>2. g \in StartHand(e) /\ Sound(f, n)
    BY <1>1, <1>2, <2>1
  <2>3. /\ Sound(g, n) /\ SamePlayers(f, g)
        /\ CanStartHand(f) /\ g.started => g.orbit # f.orbit
        /\ ~CanStartHand(f) => /\ g.started = f.started /\ g.orbit = f.orbit
                               /\ g.seats = f.seats
    BY <1>1, <2>1, <2>2, DealIs
  <2> QED BY <2>1, <2>3
<1>4. \E m \in 0 .. MaxPlayers : Sound(saved', m)
  BY <1>1, <1>2, <1>3, StoredIs DEF IInv
<1>5. Seats(g) = 1 .. n
  BY <1>1, <1>3, TableSeats DEF Sound
<1>6. \A i \in 1 .. n : /\ g.seats[i].name = game.seats[i].name
                        /\ g.seats[i].sittingOut = game.seats[i].sittingOut
  BY <1>1, <1>3 DEF SamePlayers
<1>7. MapOK(g, userMap)
  BY <1>1, <1>5, <1>6, MapStays
<1>8. Keeps(timers, timers', {})
  <2>1. PICK tm \in tms : Keeps(tm, timers', {})
    BY <1>2, ResetTurnTimerKeeps
  <2> QED BY <2>1, KeepsTransitive
<1>9. OnTheClock(game, timers) => OnTheClock(g, timers')
  <2>1. PICK f, t : f = game /\ t = timers
    OBVIOUS
  <2>2. /\ Sound(f, n) /\ Keeps(t, timers', {})
        /\ \A i \in 1 .. n : /\ g.seats[i].name = f.seats[i].name
                             /\ g.seats[i].sittingOut => f.seats[i].sittingOut
    BY <1>1, <1>6, <1>8, <2>1
  <2>3. OnTheClock(f, t) => OnTheClock(g, timers')
    BY <1>1, <1>3, <2>2, ClockStays
  <2> QED BY <2>1, <2>3
<1>10. wallet' \in [Users \cup {House} -> Nat] /\ timers' \in Timers
  BY <1>2, <1>8 DEF IInv, Keeps
<1>11. Mirrored(g, saved') /\ SameStakes(game, g)
  <2>1. CASE CanStartHand(game)
    <3>1. saved' = Stored(g)
      BY <1>2, <2>1
    <3>2. Mirrored(g, saved')
      BY <1>1, <1>3, <3>1, StoredIs
    <3>3. SameStakes(game, g)
      BY <1>3, <2>1 DEF SameStakes, InHand
    <3> QED BY <3>2, <3>3
  <2>2. CASE ~CanStartHand(game)
    <3>1. saved' = saved /\ Mirrored(game, saved)
      BY <1>2, <2>2 DEF IInv
    <3>2. g.started = game.started /\ g.orbit = game.orbit /\ g.seats = game.seats
      BY <1>3, <2>2
    <3>3. Mirrored(g, saved')
      BY <3>1, <3>2 DEF Mirrored, Seats
    <3>4. SameStakes(game, g)
      BY <3>2 DEF SameStakes, Stake, Seats, Name
    <3> QED BY <3>3, <3>4
  <2> QED BY <2>1, <2>2
<1> QED BY <1>1, <1>2, <1>3, <1>4, <1>7, <1>9, <1>10, <1>11, FineIs

LEMMA FireCountdownFine ==
  ASSUME IInv, FireCountdown
  PROVE  Fine
<1>1. PICK after \in Callbacks(timers, "countdown") :
        \/ OnlyTimers({Drop(after, "countdown")})
        \/ DealWith({Drop(after, "countdown")})
  BY Zenon DEF FireCountdown
<1>2. "countdown" \in TableClocks /\ timers \in Timers
  BY DEF TableClocks, IInv
<1>3. PICK tm : tm = Drop(after, "countdown")
  OBVIOUS
<1>4. Keeps(timers, tm, {})
  <2>1. Keeps(timers, after, {})
    BY <1>2, CallbackOfClock
  <2>2. Keeps(after, tm, {})
    BY <1>2, <1>3, <2>1, DropClock DEF Keeps
  <2> QED BY <2>1, <2>2, KeepsTransitive
<1>5. {tm} \in SUBSET Timers /\ \A t \in {tm} : Keeps(timers, t, {})
  BY <1>4 DEF Keeps
<1>6. OnlyTimers({tm}) \/ DealWith({tm})
  BY <1>1, <1>3
<1>7. CASE OnlyTimers({tm})
  BY <1>4, <1>7, OnlyTimersFine
<1>8. CASE DealWith({tm})
  BY <1>5, <1>8, DealWithFine
<1> QED BY <1>6, <1>7, <1>8

\* With too few to deal to, the table goes back to waiting.
LEMMA FireNextHandFine ==
  ASSUME IInv, FireNextHand
  PROVE  Fine
<1>1. PICK after \in Callbacks(timers, "intermission") :
        \/ OnlyTimers({Drop(after, "intermission")})
        \/ DealWith({Drop(after, "intermission")})
        \/ /\ game' = [game EXCEPT !.intermission = FALSE, !.started = FALSE]
           /\ timers' = Drop(after, "intermission")
           /\ saved' = Stored(game') /\ UNCHANGED <<userMap, wallet>>
  BY Zenon DEF FireNextHand, Save
<1>2. "intermission" \in TableClocks /\ timers \in Timers
  BY DEF TableClocks, IInv
<1>3. PICK tm : tm = Drop(after, "intermission")
  OBVIOUS
<1>4. Keeps(timers, tm, {})
  <2>1. Keeps(timers, after, {})
    BY <1>2, CallbackOfClock
  <2>2. Keeps(after, tm, {})
    BY <1>2, <1>3, <2>1, DropClock DEF Keeps
  <2> QED BY <2>1, <2>2, KeepsTransitive
<1>5. {tm} \in SUBSET Timers /\ \A t \in {tm} : Keeps(timers, t, {})
  BY <1>4 DEF Keeps
<1>6. CASE OnlyTimers({tm})
  BY <1>4, <1>6, OnlyTimersFine
<1>7. CASE DealWith({tm})
  BY <1>5, <1>7, DealWithFine
<1>8. CASE /\ game' = [game EXCEPT !.intermission = FALSE, !.started = FALSE]
           /\ timers' = tm
           /\ saved' = Stored(game') /\ UNCHANGED <<userMap, wallet>>
  <2>1. PICK n \in 0 .. MaxPlayers :
          /\ n \in Nat /\ Sound(game, n) /\ MapOK(game, userMap) /\ Seats(game) = 1 .. n
          /\ game \in TableGames(n)
    BY IInvIs
  <2>2. PICK f, g, t : f = game /\ g = game' /\ t = timers
    OBVIOUS
  <2>3. g \in TableGames(n) /\ g.seats = f.seats /\ g.pot = f.pot /\ ~g.started
    BY <1>8, <2>1, <2>2 DEF TableGames
  <2>4. Sound(g, n)
    BY <2>1, <2>2, <2>3, SoundStays
  <2>5. Sound(saved', n) /\ Mirrored(g, saved')
    BY <1>8, <2>1, <2>2, <2>4, StoredIs
  <2>6. MapOK(g, userMap)
    BY <2>1, <2>2, <2>3 DEF MapOK, Name, Seats
  <2>7. OnTheClock(f, t) => OnTheClock(g, tm)
    BY <1>4, <2>1, <2>2, <2>3, <2>4, ClockStays
  <2>8. wallet' \in [Users \cup {House} -> Nat] /\ tm \in Timers
    BY <1>4, <1>8 DEF IInv, Keeps
  <2>9. SameStakes(game, g)
    BY <2>3, NoHandNoStakes
  <2> QED BY <1>8, <2>1, <2>2, <2>4, <2>5, <2>6, <2>7, <2>8, <2>9, FineIs
<1> QED BY <1>1, <1>3, <1>6, <1>7, <1>8

LEMMA StartHandManuallyFine ==
  ASSUME IInv, StartHandManually
  PROVE  Fine
<1>1. PICK tms : tms = StopAll(Stop(timers, "countdown"), "intermission")
  OBVIOUS
<1>2. "countdown" \in TableClocks /\ "intermission" \in TableClocks /\ timers \in Timers
  BY DEF TableClocks, IInv
<1>3. ASSUME NEW t \in tms
      PROVE  Keeps(timers, t, {}) /\ t \in Timers
  <2>1. PICK tm \in Stop(timers, "countdown") : t \in Stop(tm, "intermission")
    BY <1>1, <1>3 DEF StopAll
  <2>2. Keeps(timers, tm, {})
    BY <1>2, StopClock
  <2>3. Keeps(tm, t, {})
    BY <1>2, <2>1, <2>2, StopClock DEF Keeps
  <2>4. Keeps(timers, t, {})
    BY <2>2, <2>3, KeepsTransitive
  <2> QED BY <2>4 DEF Keeps
<1>4. tms \in SUBSET Timers
  BY <1>3
<1>5. DealWith(tms)
  BY <1>1 DEF StartHandManually
<1> QED BY <1>3, <1>4, <1>5, DealWithFine

\* What AfterAction makes of the game: the same players, with the same bets,
\* and those of "out" sat out.
Settled(n, g, idle, paid, broke, final) ==
  /\ paid \in Games(n, Users) /\ final \in TableGames(n)
  /\ final.pot = g.pot /\ final.started = g.started
  /\ final.intermission = g.intermission
  /\ paid = SatOut(g, idle)
       => /\ final.payouts = g.payouts /\ final.orbit = g.orbit
          /\ \A i \in 1 .. n : final.seats[i].chips = g.seats[i].chips
  /\ \A i \in 1 .. n :
       /\ final.seats[i].name = g.seats[i].name
       /\ final.seats[i].roundBet = g.seats[i].roundBet
       /\ final.seats[i].totalBet = g.seats[i].totalBet
       /\ final.seats[i].sittingOut => g.seats[i].sittingOut \/ i \in idle \cup broke

LEMMA SettledIs ==
  ASSUME NEW n \in Nat, NEW g \in Games(n, Users), IsFiniteSet(g.payouts),
         NEW idle, NEW paid, paid = SatOut(g, idle) \/ paid = Raked(SatOut(g, idle)),
         NEW broke
  PROVE  Settled(n, g, idle, paid, broke, SatOut(paid, broke))
<1> DEFINE final == SatOut(paid, broke)
<1>1. PICK s : s = SatOut(g, idle)
  OBVIOUS
<1>2. /\ s \in Games(n, Users) /\ s.payouts = g.payouts /\ s.pot = g.pot
      /\ s.started = g.started /\ s.intermission = g.intermission
      /\ s.orbit = g.orbit
      /\ \A i \in 1 .. n : /\ s.seats[i].name = g.seats[i].name
                           /\ s.seats[i].chips = g.seats[i].chips
                           /\ s.seats[i].roundBet = g.seats[i].roundBet
                           /\ s.seats[i].totalBet = g.seats[i].totalBet
                           /\ s.seats[i].sittingOut = (g.seats[i].sittingOut \/ i \in idle)
  BY <1>1, SatOutIs
<1>3. /\ paid \in Games(n, Users) /\ paid.pot = s.pot
      /\ paid.started = s.started /\ paid.intermission = s.intermission
      /\ paid = s => /\ paid.payouts = s.payouts /\ paid.orbit = s.orbit
                     /\ \A i \in 1 .. n : paid.seats[i].chips = s.seats[i].chips
      /\ \A i \in 1 .. n : /\ paid.seats[i].name = s.seats[i].name
                           /\ paid.seats[i].roundBet = s.seats[i].roundBet
                           /\ paid.seats[i].totalBet = s.seats[i].totalBet
                           /\ paid.seats[i].sittingOut = s.seats[i].sittingOut
  <2>1. CASE paid = s
    BY <1>2, <2>1
  <2>2. CASE paid = Raked(s)
    <3>1. /\ Raked(s) \in Games(n, Users) /\ Raked(s).pot = s.pot
          /\ Raked(s).started = s.started /\ Raked(s).intermission = s.intermission
          /\ SamePlayers(s, Raked(s))
          /\ \A i \in 1 .. n : /\ Raked(s).seats[i].roundBet = s.seats[i].roundBet
                               /\ Raked(s).seats[i].totalBet = s.seats[i].totalBet
      BY <1>2, RakedIs
    <3>2. Seats(s) = 1 .. n
      BY <1>2, SeatsOf
    <3>3. \A i \in 1 .. n : /\ Raked(s).seats[i].name = s.seats[i].name
                            /\ Raked(s).seats[i].sittingOut = s.seats[i].sittingOut
      BY <3>1, <3>2 DEF SamePlayers
    <3> QED BY <2>2, <3>1, <3>3
  <2> QED BY <1>1, <2>1, <2>2
<1>4. /\ final \in Games(n, Users) /\ final.payouts = paid.payouts /\ final.pot = paid.pot
      /\ final.started = paid.started /\ final.intermission = paid.intermission
      /\ final.orbit = paid.orbit
      /\ \A i \in 1 .. n :
           /\ final.seats[i].name = paid.seats[i].name
           /\ final.seats[i].chips = paid.seats[i].chips
           /\ final.seats[i].roundBet = paid.seats[i].roundBet
           /\ final.seats[i].totalBet = paid.seats[i].totalBet
           /\ final.seats[i].sittingOut = (paid.seats[i].sittingOut \/ i \in broke)
  BY <1>3, SatOutIs
<1> HIDE DEF final
<1>5. final \in TableGames(n)
  BY <1>4, TableGamesAre
<1>6. ASSUME NEW i \in 1 .. n, final.seats[i].sittingOut
      PROVE  g.seats[i].sittingOut \/ i \in idle \cup broke
  BY <1>2, <1>3, <1>4, <1>6
<1>7. Settled(n, g, idle, paid, broke, final)
  BY <1>1, <1>2, <1>3, <1>4, <1>5, <1>6 DEF Settled
<1> QED BY <1>7 DEF final

\* The timers of AfterAction: nobody's eviction is forgotten, and everyone it
\* sits out is on his clock.
Evictions(tm, names, ended) ==
  UNION {IF ended THEN {Start(t, "intermission") : t \in Stop(started, "intermission")}
                  ELSE {started} : started \in StartEvictions(tm, names)}

LEMMA SettledTimers ==
  ASSUME NEW tm \in Timers, NEW names \in SUBSET Users, NEW ended, NEW g,
         NEW t \in ResetTurnTimer(Evictions(tm, names, ended), g)
  PROVE  Keeps(tm, t, {}) /\ \A u \in names : Due(t, u)
<1> DEFINE after(started) ==
             IF ended THEN {Start(r, "intermission") : r \in Stop(started, "intermission")}
                      ELSE {started}
<1>1. PICK tms : tms = UNION {after(started) : started \in StartEvictions(tm, names)}
  OBVIOUS
<1>2. "intermission" \in TableClocks /\ "intermission" \in Kinds
  BY DEF TableClocks, Kinds
<1>3. ASSUME NEW started \in StartEvictions(tm, names), NEW x \in after(started)
      PROVE  x \in Timers /\ Keeps(started, x, {})
  <2>1. Keeps(tm, started, {})
    BY StartEvictionsKeep
  <2>2. started \in Timers
    BY <2>1 DEF Keeps
  <2>3. CASE x = started
    BY <2>2, <2>3 DEF Keeps
  <2>4. ASSUME NEW r \in Stop(started, "intermission"), x = Start(r, "intermission")
        PROVE  x \in Timers /\ Keeps(started, x, {})
    <3>1. Keeps(started, r, {})
      BY <1>2, <2>2, StopClock
    <3>2. r \in Timers
      BY <3>1 DEF Keeps
    <3>3. Keeps(r, x, {})
      BY <1>2, <2>4, <3>2, StartKeeps
    <3>4. Keeps(started, x, {})
      BY <3>1, <3>3, KeepsTransitive
    <3> QED BY <3>4 DEF Keeps
  <2>5. x = started \/ \E r \in Stop(started, "intermission") : x = Start(r, "intermission")
    BY <1>3, Zenon
  <2> QED BY <2>3, <2>4, <2>5
<1>4. tms \in SUBSET Timers
  BY <1>1, <1>3
<1>5. t \in ResetTurnTimer(tms, g)
  BY <1>1 DEF Evictions
<1>6. PICK x \in tms : Keeps(x, t, {})
  BY <1>4, <1>5, ResetTurnTimerKeeps
<1>7. PICK started \in StartEvictions(tm, names) : x \in after(started)
  BY <1>1
<1>8. Keeps(started, x, {})
  BY <1>3, <1>7
<1>9. Keeps(started, t, {})
  BY <1>6, <1>8, KeepsTransitive
<1>10. Keeps(tm, started, {}) /\ \A u \in names : Due(started, u)
  BY StartEvictionsKeep
<1>11. Keeps(tm, t, {})
  BY <1>9, <1>10, KeepsTransitive
<1> QED BY <1>9, <1>10, <1>11 DEF Keeps

\* The game as the engine leaves it after a decision.
LEMMA DecisionIs ==
  ASSUME NEW n \in Nat, NEW f, Sound(f, n), f.started, n > 0,
         NEW action \in Decisions, NEW g \in HumanAction(f, TurnSeat(f), action, 0)
  PROVE  /\ Sound(g, n) /\ g \in Games(n, Users) /\ SamePlayers(f, g)
         /\ IsFiniteSet(g.payouts)
         /\ g.started => SameStake(f, g)
<1>1. /\ f \in TableGames(n) /\ ~f.intermission /\ f.payouts = {} /\ PotCovers(f)
      /\ RoundWithinHand(f) /\ OneSeatEach(f)
  BY DEF Sound
<1>2. f \in Games(n, Users) /\ Seats(f) = 1 .. n /\ Len(f.seats) = n /\ f.turn \in Nat
  BY <1>1, TableGamesAre, TableSeats DEF TableGames
<1>3. PICK i : i = TurnSeat(f)
  OBVIOUS
<1>4. i \in 1 .. n
  <2>1. PICK r \in 0 .. n - 1 : r = f.turn % n
    BY <1>2, Division
  <2> QED BY <1>2, <1>3, <2>1 DEF TurnSeat
<1>5. BigBlind \in Nat /\ 0 \in Int
  BY BlindsAssumption
<1>6. /\ g \in Games(n, Users) /\ RoundWithinHand(g)
      /\ g.started => PotKept(f, g)
      /\ SamePlayers(f, g) /\ Unpaid(f, g) /\ Running(f, g)
  BY <1>1, <1>2, <1>3, <1>4, <1>5, HumanActionIs
<1>7. g \in TableGames(n)
  BY <1>6, TableGamesAre
<1>8. Seats(g) = 1 .. n
  BY <1>7, TableSeats
<1>9. OneSeatEach(g)
  BY <1>1, <1>2, <1>6, <1>8 DEF OneSeatEach, SamePlayers, Name
<1>10. g.started => PotCovers(g)
  BY <1>1, <1>2, <1>6, PotStays
<1> QED BY <1>1, <1>6, <1>7, <1>9, <1>10 DEF Sound, Unpaid, Running

LEMMA AfterActionFine ==
  ASSUME IInv, game.started, NEW n \in 0 .. MaxPlayers, n > 0, Sound(game, n),
         NEW action \in Decisions, NEW g \in HumanAction(game, TurnSeat(game), action, 0),
         NEW timedOut \in SUBSET (1 .. n), NEW tm, Keeps(timers, tm, {}),
         AfterAction(g, timedOut, tm)
  PROVE  Fine
<1>1. n \in Nat /\ MapOK(game, userMap) /\ Seats(game) = 1 .. n
  <2>1. MaxPlayers \in Nat /\ MapOK(game, userMap)
    BY IInvIs
  <2>2. n \in Nat
    BY <2>1
  <2>3. Seats(game) = 1 .. n
    BY <2>2, TableSeats DEF Sound
  <2> QED BY <2>1, <2>2, <2>3
<1>2. PICK f, t : f = game /\ t = timers
  OBVIOUS
<1>3. /\ Sound(g, n) /\ g \in Games(n, Users) /\ SamePlayers(f, g)
      /\ IsFiniteSet(g.payouts)
      /\ g.started => SameStake(f, g)
  <2>1. Sound(f, n) /\ f.started /\ g \in HumanAction(f, TurnSeat(f), action, 0)
    BY <1>2
  <2> QED BY <1>1, <2>1, DecisionIs
<1>4. PICK ended \in BOOLEAN : ended = (g.intermission /\ g.lastWinner)
  OBVIOUS
<1>5. PICK idle \in SUBSET (1 .. n) : idle = {i \in timedOut : ~g.seats[i].sittingOut}
  OBVIOUS
<1>6. PICK paid : paid = IF ended THEN Raked(SatOut(g, idle)) ELSE SatOut(g, idle)
  OBVIOUS
<1>7. PICK broke : broke = IF ended THEN Broke(paid) ELSE {}
  OBVIOUS
<1>8. PICK final : final = SatOut(paid, broke)
  OBVIOUS
<1>9. /\ game' = final /\ saved' = Stored(g) /\ userMap' = userMap
      /\ wallet' = IF ended
                   THEN [a \in DOMAIN wallet |-> wallet[a] + CommissionTo(a, g.payouts)]
                   ELSE wallet
      /\ timers' \in ResetTurnTimer(
                      Evictions(tm, {Name(g, i) : i \in idle \cup broke}, ended), final)
  <2>1. game' = final
    BY <1>4, <1>5, <1>6, <1>7, <1>8, Zenon DEF AfterAction
  <2>2. saved' = Stored(g) /\ userMap' = userMap
    BY Zenon DEF AfterAction, Save
  <2>3. wallet' = IF ended
                  THEN [a \in DOMAIN wallet |-> wallet[a] + CommissionTo(a, g.payouts)]
                  ELSE wallet
    BY <1>4, Zenon DEF AfterAction
  <2>4. timers' \in ResetTurnTimer(
                     Evictions(tm, {Name(g, i) : i \in idle \cup broke}, ended), final)
    BY <1>4, <1>5, <1>6, <1>7, <1>8, ZenonT(30) DEF AfterAction, Evictions
  <2> QED BY <2>1, <2>2, <2>3, <2>4
<1>10. Settled(n, g, idle, paid, broke, final)
  <2>1. paid = SatOut(g, idle) \/ paid = Raked(SatOut(g, idle))
    BY <1>6
  <2> QED BY <1>1, <1>3, <1>8, <2>1, SettledIs
<1>11. Sound(final, n)
  <2>1. final.started => g.started /\ ~final.intermission /\ final.payouts = {}
    BY <1>3, <1>4, <1>6, <1>10 DEF Sound, Settled
  <2>2. /\ final \in TableGames(n) /\ final.pot = g.pot
        /\ \A i \in 1 .. n : /\ final.seats[i].name = g.seats[i].name
                             /\ final.seats[i].roundBet = g.seats[i].roundBet
                             /\ final.seats[i].totalBet = g.seats[i].totalBet
    BY <1>10 DEF Settled
  <2> QED BY <1>1, <1>3, <2>1, <2>2, SoundStays
<1>12. Sound(saved', n) /\ Mirrored(g, saved')
  BY <1>1, <1>3, <1>9, StoredIs
<1>13. Seats(final) = 1 .. n
  BY <1>1, <1>10, TableSeats DEF Settled
<1>14. \A i \in 1 .. n : /\ g.seats[i].name = f.seats[i].name
                         /\ g.seats[i].sittingOut = f.seats[i].sittingOut
  BY <1>1, <1>2, <1>3 DEF SamePlayers
<1>15. MapOK(final, userMap)
  <2>1. MapOK(f, userMap) /\ Seats(final) = Seats(f)
    BY <1>1, <1>2, <1>13
  <2>2. \A i \in Seats(f) : final.seats[i].name = f.seats[i].name
    BY <1>1, <1>2, <1>10, <1>14 DEF Settled
  <2> QED BY <2>1, <2>2, MapStays
<1>16. wallet' \in [Users \cup {House} -> Nat]
  <2>1. wallet \in [Users \cup {House} -> Nat]
    BY DEF IInv
  <2>2. CASE ~ended
    BY <1>9, <2>1, <2>2
  <2>3. CASE ended
    <3>1. g.payouts \in SUBSET PayoutRecords(n, Users)
      BY <1>3 DEF Games
    <3>2. \A a : CommissionTo(a, g.payouts) \in Nat
      BY <1>1, <1>3, <3>1, RakeIs
    <3>3. \A a \in Users \cup {House} : wallet[a] + CommissionTo(a, g.payouts) \in Nat
      BY <2>1, <3>2
    <3> QED BY <1>9, <2>1, <2>3, <3>3
  <2> QED BY <2>2, <2>3
<1>17. broke \in SUBSET (1 .. n)
  <2>1. Seats(paid) = 1 .. n
    BY <1>1, <1>10, SeatsOf DEF Settled
  <2> QED BY <1>7, <2>1 DEF Broke
<1>18. PICK names \in SUBSET Users : names = {Name(g, i) : i \in idle \cup broke}
  <2>1. \A i \in 1 .. n : Name(g, i) \in Users
    BY <1>1, <1>3, SeatsOf DEF PlayerRecords, Name
  <2> QED BY <1>17, <2>1
<1>19. Keeps(tm, timers', {}) /\ \A u \in names : Due(timers', u)
  <2>1. tm \in Timers
    BY DEF Keeps
  <2>2. timers' \in ResetTurnTimer(Evictions(tm, names, ended), final)
    BY <1>9, <1>18
  <2> QED BY <2>1, <2>2, SettledTimers
<1>20. Keeps(t, timers', {})
  BY <1>2, <1>19, KeepsTransitive
<1>21. OnTheClock(f, t) => OnTheClock(final, timers')
  <2>1. SUFFICES ASSUME OnTheClock(f, t), NEW i \in 1 .. n, final.seats[i].sittingOut
                 PROVE  Due(timers', Name(final, i))
    BY <1>13 DEF OnTheClock
  <2>2. Name(final, i) = Name(g, i) /\ Name(g, i) = Name(f, i)
    BY <1>10, <1>14 DEF Name, Settled
  <2>3. CASE g.seats[i].sittingOut
    <3>1. Due(t, Name(f, i))
      BY <1>1, <1>2, <1>14, <2>1, <2>3 DEF OnTheClock
    <3>2. Name(f, i) \in Users
      BY <1>1, <1>3, <2>2, SeatsOf DEF PlayerRecords, Name
    <3> QED BY <1>20, <2>2, <3>1, <3>2 DEF Keeps
  <2>4. CASE i \in idle \cup broke
    BY <1>18, <1>19, <2>2, <2>4
  <2> QED BY <1>10, <2>1, <2>3, <2>4 DEF Settled
<1>22. timers' \in Timers
  BY <1>19 DEF Keeps
<1>23. final.started => /\ g.started /\ final.orbit = g.orbit
                        /\ \A i \in 1 .. n : final.seats[i].chips = g.seats[i].chips
  BY <1>3, <1>4, <1>6, <1>10 DEF Sound, Settled
<1>24. Seats(g) = 1 .. n
  BY <1>1, <1>3, SeatsOf
<1>25. Mirrored(final, saved')
  BY <1>10, <1>12, <1>13, <1>23, <1>24 DEF Mirrored, Settled
<1>26. SameStakes(f, final)
  <2>1. Sound(f, n)
    BY <1>2
  <2>2. ASSUME NEW i \in 1 .. n, NEW j \in 1 .. n, final.started, Name(f, i) = Name(final, j)
        PROVE  final.seats[j].chips + final.seats[j].totalBet
                 = f.seats[i].chips + f.seats[i].totalBet
    <3>1. i = j
      BY <1>1, <1>2, <1>10, <1>14, <2>1, <2>2 DEF Sound, OneSeatEach, Name, Settled
    <3>2. g.seats[i].chips + g.seats[i].totalBet = f.seats[i].chips + f.seats[i].totalBet
      BY <1>1, <1>2, <1>3, <1>23, <2>2 DEF SameStake
    <3>3. /\ final.seats[i].chips = g.seats[i].chips
          /\ final.seats[i].totalBet = g.seats[i].totalBet
      BY <1>10, <1>23, <2>2 DEF Settled
    <3> QED BY <3>1, <3>2, <3>3
  <2>3. n \in Nat /\ Sound(final, n)
    BY <1>1, <1>11
  <2> QED BY <2>1, <2>2, <2>3, SameStakesIs
<1> QED BY <1>2, <1>9, <1>11, <1>12, <1>15, <1>16, <1>21, <1>22, <1>25, <1>26, FineIs

LEMMA SubmitActionFine ==
  ASSUME IInv, NEW u \in Users, NEW action \in Decisions, SubmitAction(u, action)
  PROVE  Fine
<1>1. PICK n \in 0 .. MaxPlayers :
        Sound(game, n) /\ \A v \in Seated : userMap[v] \in 1 .. n
  BY IInvIs
<1>2. game.started /\ u \in Seated
  BY DEF SubmitAction
<1>3. n > 0
  BY <1>1, <1>2
<1>4. PICK g \in HumanAction(game, TurnSeat(game), action, 0) : AfterAction(g, {}, timers)
  BY DEF SubmitAction
<1>5. Keeps(timers, timers, {})
  BY DEF IInv, Keeps
<1> QED BY <1>1, <1>2, <1>3, <1>4, <1>5, AfterActionFine

LEMMA HandleTurnTimeoutFine ==
  ASSUME IInv, HandleTurnTimeout
  PROVE  Fine
<1>1. PICK tm \in Callbacks(timers, "turn") :
        \/ OnlyTimers({tm})
        \/ /\ ClockDue(game)
           /\ \E action \in {"check", "fold"} :
                \E g \in HumanAction(game, TurnSeat(game), action, 0) :
                  AfterAction(g, {TurnSeat(game)}, tm)
  BY Zenon DEF HandleTurnTimeout
<1>2. Keeps(timers, tm, {})
  <2>1. "turn" \in TableClocks /\ timers \in Timers
    BY DEF TableClocks, IInv
  <2> QED BY <2>1, CallbackOfClock
<1>3. CASE OnlyTimers({tm})
  BY <1>2, <1>3, OnlyTimersFine
<1>4. ASSUME ClockDue(game), NEW action \in {"check", "fold"},
             NEW g \in HumanAction(game, TurnSeat(game), action, 0),
             AfterAction(g, {TurnSeat(game)}, tm)
      PROVE  Fine
  <2>1. PICK n \in 0 .. MaxPlayers :
          n \in Nat /\ Sound(game, n) /\ game \in TableGames(n) /\ Len(game.seats) = n
    BY IInvIs
  <2>2. game.started /\ game.seats # <<>>
    BY <1>4 DEF ClockDue
  <2>3. n > 0
    <3>1. game.seats \in [1 .. n -> PlayerRecords(Users)]
      BY <2>1 DEF TableGames
    <3>2. n = 0 => game.seats = <<>>
      BY <3>1
    <3> QED BY <2>1, <2>2, <3>2
  <2>4. TurnSeat(game) \in 1 .. n
    <3>1. PICK r \in 0 .. n - 1 : r = game.turn % n
      BY <2>1, <2>3, Division DEF TableGames
    <3> QED BY <2>1, <3>1 DEF TurnSeat
  <2>5. action \in Decisions
    BY <1>4 DEF Decisions
  <2>6. {TurnSeat(game)} \in SUBSET (1 .. n)
    BY <2>4
  <2> QED BY <1>2, <1>4, <2>1, <2>2, <2>3, <2>5, <2>6, AfterActionFine
<1> QED BY <1>1, <1>3, <1>4

\* A restart takes what was saved, and no eviction clock survives it.
LEMMA RestartKeeps ==
  ASSUME IInv, Restart
  PROVE  IInv' /\ SameStakes(game, game')
<1>1. PICK n \in 0 .. MaxPlayers : Sound(saved, n)
  BY DEF IInv
<1>2. /\ game' = saved /\ userMap' = SeatsByUser(saved) /\ UNCHANGED <<wallet, saved>>
      /\ timers' \in
           IF Len(saved.seats) < 2 THEN {NoTimers}
           ELSE IF saved.intermission THEN {Start(NoTimers, "intermission")}
           ELSE IF saved.started THEN ResetTurnTimer({NoTimers}, saved)
           ELSE EvaluateCountdown(NoTimers, saved)
  BY DEF Restart
<1>3. SeatMapOK'
  <2>1. MapOK(game', userMap')
    BY <1>1, <1>2, SeatsByUserIs DEF Sound
  <2> QED BY <2>1 DEF SeatMapOK, MapOK, Seated
<1>4. timers' \in Timers
  <2>1. NoTimers \in Timers /\ "intermission" \in Kinds
    BY DEF NoTimers, Timers, Kinds
  <2>2. \/ timers' = NoTimers \/ timers' = Start(NoTimers, "intermission")
        \/ timers' \in ResetTurnTimer({NoTimers}, saved)
        \/ timers' \in EvaluateCountdown(NoTimers, saved)
    BY <1>2, Zenon
  <2>3. CASE timers' = Start(NoTimers, "intermission")
    BY <2>1, <2>3, StartKeeps DEF Keeps
  <2>4. CASE timers' \in ResetTurnTimer({NoTimers}, saved)
    <3>1. {NoTimers} \in SUBSET Timers
      BY <2>1
    <3>2. \E tm \in {NoTimers} : Keeps(tm, timers', {})
      BY <2>4, <3>1, ResetTurnTimerKeeps
    <3> QED BY <3>2 DEF Keeps
  <2>5. CASE timers' \in EvaluateCountdown(NoTimers, saved)
    BY <2>1, <2>5, EvaluateCountdownKeeps DEF Keeps
  <2> QED BY <2>1, <2>2, <2>3, <2>4, <2>5
<1>5. Mirrored(game', saved')
  BY <1>2 DEF Mirrored
<1>6. SameStakes(game, game')
  <2>1. PICK f, g : f = game /\ g = saved
    OBVIOUS
  <2>2. PICK m \in 0 .. MaxPlayers :
          m \in Nat /\ Sound(f, m) /\ Seats(f) = 1 .. m
    BY <2>1, IInvIs
  <2>3. n \in Nat /\ Sound(g, n)
    BY <1>1, <2>1, TableAssumption
  <2>4. Seats(g) = 1 .. n /\ Mirrored(f, g)
    BY <2>1, <2>3, TableSeats DEF Sound, IInv
  <2>5. ASSUME NEW i \in 1 .. m, NEW j \in 1 .. n, f.started, Name(f, i) = Name(g, j)
        PROVE  g.seats[j].chips + g.seats[j].totalBet = f.seats[i].chips + f.seats[i].totalBet
    <3>1. /\ g.seats[i].chips = f.seats[i].chips /\ g.seats[i].totalBet = f.seats[i].totalBet
          /\ Name(g, i) = Name(f, i) /\ i \in 1 .. n
      BY <2>2, <2>4, <2>5 DEF Mirrored, Name
    <3>2. i = j
      BY <2>3, <2>4, <2>5, <3>1 DEF Sound, OneSeatEach
    <3> QED BY <3>1, <3>2
  <2>6. m \in Nat /\ Sound(f, m)
    BY <2>2
  <2>7. SameStakes(f, g)
    BY <2>3, <2>5, <2>6, SameStakesIs
  <2> QED BY <1>2, <2>1, <2>7
<1> QED BY <1>1, <1>2, <1>3, <1>4, <1>5, <1>6 DEF IInv
-----------------------------------------------------------------------------
LEMMA InitSound ==
  ASSUME Init
  PROVE  IInv /\ SatOutIsOnTheClock
<1>1. PICK g : g = NewGame
  OBVIOUS
<1>2. game = g /\ userMap = <<>> /\ saved = Stored(g) /\ timers = NoTimers
  BY <1>1 DEF Init
<1>3. g \in TableGames(0)
  <2>1. BigBlind \in Nat
    BY BlindsAssumption
  <2>2. <<>> \in [1 .. 0 -> PlayerRecords(Users)]
    OBVIOUS
  <2> QED BY <1>1, <2>1, <2>2 DEF NewGame, TableGames, Showdown
<1>4. Seats(g) = {} /\ ~g.started
  BY <1>1 DEF NewGame, Seats
<1>5. Sound(g, 0)
  BY <1>3, <1>4 DEF Sound, RoundWithinHand, OneSeatEach
<1>6. Sound(saved, 0) /\ Mirrored(g, saved)
  BY <1>2, <1>5, StoredIs
<1>7. 0 \in 0 .. MaxPlayers
  BY TableAssumption
<1>8. SeatMapOK
  BY <1>2, <1>4 DEF SeatMapOK, Seated
<1>9. wallet \in [Users \cup {House} -> Nat] /\ timers \in Timers
  BY <1>2, TableAssumption DEF Init, NoTimers, Timers
<1>10. SatOutIsOnTheClock
  BY <1>2, <1>4 DEF SatOutIsOnTheClock
<1> QED BY <1>2, <1>5, <1>6, <1>7, <1>8, <1>9, <1>10 DEF IInv

LEMMA StepFine ==
  ASSUME IInv, [Next]_vars
  PROVE  Fine \/ (Restart /\ IInv' /\ SameStakes(game, game'))
<1>1. CASE UNCHANGED vars
  <2>1. SameStakes(game, game')
    BY <1>1, NoHandNoStakes DEF vars
  <2> QED BY <1>1, <2>1 DEF vars, Fine, IInv, SeatMapOK, Seated, SatOutIsOnTheClock
<1>2. ASSUME NEW u \in Users,
             JoinTable(u) \/ LeaveTable(u) \/ SitOutEviction(u) \/ SitIn(u)
      PROVE  Fine
  BY <1>2, JoinFine, LeaveFine, SitInFine
<1>3. ASSUME NEW u \in Users, NEW amount \in Refills, Refill(u, amount)
      PROVE  Fine
  BY <1>3, RefillFine
<1>4. CASE FireCountdown \/ FireNextHand \/ StartHandManually
  BY <1>4, FireCountdownFine, FireNextHandFine, StartHandManuallyFine
<1>5. ASSUME NEW u \in Users, NEW action \in Decisions, SubmitAction(u, action)
      PROVE  Fine
  BY <1>5, SubmitActionFine
<1>6. CASE HandleTurnTimeout
  BY <1>6, HandleTurnTimeoutFine
<1>7. CASE Restart
  BY <1>7, RestartKeeps
<1> QED BY <1>1, <1>2, <1>3, <1>4, <1>5, <1>6, <1>7 DEF Next

\* The inductive invariant of the table and of what the database has of it:
\* every bet of a round is in the hand's, the pot of a running hand covers the
\* bets of those still seated, and no user has two seats (JoinTable, LeaveTable,
\* SubmitAction, SaveGame, loadByTableID).
THEOREM Inductive == Spec => []IInv
<1>1. Init => IInv
  BY InitSound
<1>2. IInv /\ [Next]_vars => IInv'
  BY StepFine DEF Fine
<1> QED BY <1>1, <1>2, PTL DEF Spec

\* Stacks and wallets are never negative, whatever is bought in, refilled,
\* raked or paid back, and no table seats more than MaxPlayers (JoinTable,
\* Refill, LeaveTable, handlePotCommission).
THEOREM TableTyped == Spec => []TypeOK
<1>1. IInv => TypeOK
  <2>1. SUFFICES ASSUME IInv PROVE TypeOK
    OBVIOUS
  <2>2. PICK n \in 0 .. MaxPlayers :
          /\ game \in TableGames(n) /\ Seats(game) = 1 .. n /\ Len(game.seats) = n
          /\ \A i \in 1 .. n : game.seats[i] \in PlayerRecords(Users)
    BY <2>1, IInvIs
  <2>3. MaxPlayers \in Nat
    BY TableAssumption
  <2>4. \A i \in Seats(game) : game.seats[i].name \in Users /\ game.seats[i].chips \in Nat
    BY <2>2 DEF PlayerRecords
  <2>5. /\ game.started \in BOOLEAN /\ game.intermission \in BOOLEAN
        /\ game.pot \in Nat /\ game.turn \in Nat
    BY <2>2 DEF TableGames
  <2> QED BY <2>1, <2>2, <2>3, <2>4, <2>5 DEF TypeOK, IInv, Timers
<1> QED BY <1>1, Inductive, PTL

\* The map of users leads to their own seats, and back, through any arrivals,
\* departures, evictions and restarts (JoinTable, LeaveTable, GetOrCreateTable).
THEOREM SeatMapIsRight == Spec => []SeatMapOK
<1>1. IInv => SeatMapOK
  BY DEF IInv
<1> QED BY <1>1, Inductive, PTL

\* As long as the process is not restarted, whoever is sat out is on his
\* eviction clock, or on one that was stopped too late: no seat is held for
\* ever (startSitOutEviction, sitOutBustedPlayers, SitIn, Refill).
THEOREM SatOutAreOnTheClock == ASSUME Restarts = FALSE PROVE Spec => []SatOutIsOnTheClock
<1>1. Init => IInv /\ SatOutIsOnTheClock
  BY InitSound
<1>2. IInv /\ SatOutIsOnTheClock /\ [Next]_vars => (IInv /\ SatOutIsOnTheClock)'
  BY StepFine DEF Fine, Restart
<1> QED BY <1>1, <1>2, PTL DEF Spec

\* While a player is in a hand, nothing but his own bets moves his stack: no
\* refill, seat given up, coming back or restart changes what he has and has
\* bet (Refill, LeaveTable, SitIn, SaveGame, loadByTableID).
THEOREM StakesStay == Spec => StakesAreFixed
<1>1. IInv /\ [Next]_vars
        => [ \A u \in Users :
               InHand(game, u) /\ InHand(game', u) /\ game'.orbit = game.orbit
               => Stake(game', u) = Stake(game, u) ]_vars
  BY StepFine DEF Fine, SameStakes
<1> QED BY <1>1, Inductive, PTL DEF Spec, StakesAreFixed
-----------------------------------------------------------------------------
(***************************************************************************)
(* Money.  Every handler moves it between the wallets and the table, and    *)
(* makes none.                                                              *)
(***************************************************************************)
\* The games of a table are the engine's, payments aside.
LEMMA TableStacksAre ==
  ASSUME NEW n \in Nat, NEW g \in TableGames(n)
  PROVE  /\ StacksOf(g) \in Nat /\ OnFelt(g) \in Nat
         /\ \A c : (\A i \in 1 .. n : c[i] = g.seats[i].chips)
                     => StacksOf(g) = SumFunctionOnSet(c, 1 .. n)
<1>1. PICK h : h = [g EXCEPT !.payouts = {}]
  OBVIOUS
<1>2. h \in TableGames(n) /\ h.payouts = {} /\ h.seats = g.seats
      /\ h.started = g.started /\ h.pot = g.pot
  BY <1>1 DEF TableGames
<1>3. h \in Games(n, Users)
  BY <1>2, TableGamesAre
<1>4. StacksOf(h) = StacksOf(g) /\ OnFelt(h) = OnFelt(g)
  BY <1>2 DEF StacksOf, OnFelt, Seats
<1>5. /\ StacksOf(h) \in Nat /\ OnFelt(h) \in Nat
      /\ \A c : (\A i \in 1 .. n : c[i] = h.seats[i].chips)
                  => StacksOf(h) = SumFunctionOnSet(c, 1 .. n)
  BY <1>3, StacksAre
<1> QED BY <1>2, <1>4, <1>5

\* Where the stacks are the same, so is what they come to.
LEMMA SameFelt ==
  ASSUME NEW n \in Nat, NEW g \in TableGames(n), NEW h \in TableGames(n),
         \A i \in 1 .. n : h.seats[i].chips = g.seats[i].chips
  PROVE  /\ StacksOf(h) = StacksOf(g)
         /\ (h.started = g.started /\ h.pot = g.pot => OnFelt(h) = OnFelt(g))
<1>1. PICK c : c = [i \in 1 .. n |-> g.seats[i].chips]
  OBVIOUS
<1>2. \A i \in 1 .. n : c[i] = g.seats[i].chips /\ c[i] = h.seats[i].chips
  BY <1>1
<1>3. StacksOf(g) = SumFunctionOnSet(c, 1 .. n)
  BY <1>2, TableStacksAre
<1>4. StacksOf(h) = SumFunctionOnSet(c, 1 .. n)
  BY <1>2, TableStacksAre
<1>5. StacksOf(h) = StacksOf(g)
  BY <1>3, <1>4
<1> QED BY <1>5 DEF OnFelt

\* The database has the chips that are on the table.
LEMMA StoredFelt ==
  ASSUME NEW n \in Nat, NEW g, Sound(g, n)
  PROVE  OnFelt(Stored(g)) = OnFelt(g)
<1>1. PICK h : h = Stored(g)
  OBVIOUS
<1>2. h \in TableGames(n) /\ g \in TableGames(n)
  BY <1>1, StoredIs DEF Sound
<1>3. h.started = g.started /\ h.pot = g.pot
  BY <1>1, <1>2 DEF Stored, TableGames
<1>4. \A i \in 1 .. n : h.seats[i].chips = g.seats[i].chips
  BY <1>1, StoredIs
<1> QED BY <1>1, <1>2, <1>3, <1>4, SameFelt

\* A stack changes, and no other.
LEMMA OneStack ==
  ASSUME NEW n \in Nat, NEW g \in TableGames(n), NEW h \in TableGames(n), NEW s \in 1 .. n,
         \A i \in 1 .. n : i # s => h.seats[i].chips = g.seats[i].chips
  PROVE  StacksOf(h) = StacksOf(g) - g.seats[s].chips + h.seats[s].chips
<1>1. PICK S, c, k : /\ S = 1 .. n
                     /\ c = [i \in S |-> g.seats[i].chips]
                     /\ k = [i \in S |-> h.seats[i].chips]
  OBVIOUS
<1>2. \A i \in S : /\ c[i] = g.seats[i].chips /\ k[i] = h.seats[i].chips
                   /\ c[i] \in Int /\ k[i] \in Int
  BY <1>1, TableSeats DEF PlayerRecords
<1>3. StacksOf(g) = SumFunctionOnSet(c, S)
  <2>1. \A i \in 1 .. n : c[i] = g.seats[i].chips
    BY <1>1, <1>2
  <2> QED BY <1>1, <2>1, TableStacksAre
<1>4. StacksOf(h) = SumFunctionOnSet(k, S)
  <2>1. \A i \in 1 .. n : k[i] = h.seats[i].chips
    BY <1>1, <1>2
  <2> QED BY <1>1, <2>1, TableStacksAre
<1>5. PICK t \in S : t = s
  BY <1>1
<1>6. SumFunctionOnSet(k, S) = SumFunctionOnSet(c, S) - c[t] + k[t]
  <2>1. S = 1 .. n
    BY <1>1
  <2>2. IsFiniteSet(S)
    BY <2>1, FS_Interval
  <2>3. \A i \in S : c[i] \in Int /\ k[i] \in Int
    BY <1>2
  <2>4. \A i \in S \ {t} : c[i] = k[i]
    BY <1>1, <1>2, <1>5
  <2> QED BY <2>2, <2>3, <2>4, SumChange
<1> QED BY <1>1, <1>2, <1>3, <1>4, <1>5, <1>6

\* A seat is taken.
LEMMA StackArrives ==
  ASSUME NEW n \in Nat, NEW g \in TableGames(n), NEW m \in Nat, m = n + 1,
         NEW h \in TableGames(m),
         \A i \in 1 .. n : h.seats[i] = g.seats[i]
  PROVE  StacksOf(h) = StacksOf(g) + h.seats[m].chips
<1>1. PICK S, T, k : S = 1 .. n /\ T = 1 .. m /\ k = [i \in T |-> h.seats[i].chips]
  OBVIOUS
<1>2. \A i \in T : k[i] = h.seats[i].chips /\ k[i] \in Int
  BY <1>1, TableSeats DEF PlayerRecords
<1>3. StacksOf(h) = SumFunctionOnSet(k, T)
  <2>1. \A i \in 1 .. m : k[i] = h.seats[i].chips
    BY <1>1, <1>2
  <2> QED BY <1>1, <2>1, TableStacksAre
<1>4. StacksOf(g) = SumFunctionOnSet(k, S)
  <2>1. \A i \in 1 .. n : k[i] = g.seats[i].chips
    BY <1>1, <1>2
  <2> QED BY <1>1, <2>1, TableStacksAre
<1>5. SumFunctionOnSet(k, T) = k[m] + SumFunctionOnSet(k, S)
  <2>1. IsFiniteSet(T)
    BY <1>1, FS_Interval
  <2>2. m \in T /\ T \ {m} = S
    BY <1>1
  <2>3. \A i \in T : k[i] \in Int
    BY <1>2
  <2>4. SumFunctionOnSet(k, T) = k[m] + SumFunctionOnSet(k, T \ {m})
    BY <2>1, <2>2, <2>3, SumSplit
  <2> QED BY <2>2, <2>4
<1>6. k[m] = h.seats[m].chips /\ k[m] \in Int
  BY <1>1, <1>2
<1>7. StacksOf(g) \in Nat
  BY TableStacksAre
<1> QED BY <1>3, <1>4, <1>5, <1>6, <1>7

\* A seat is given up.
LEMMA StackLeaves ==
  ASSUME NEW n \in Nat, NEW g \in TableGames(n), NEW m \in Nat, n = m + 1,
         NEW h \in TableGames(m), NEW s \in 1 .. n,
         \A i \in 1 .. m : h.seats[i] = g.seats[IF i < s THEN i ELSE i + 1]
  PROVE  StacksOf(g) = StacksOf(h) + g.seats[s].chips
<1>1. PICK S, T, key, c, k :
        /\ S = 1 .. m /\ T = 1 .. n
        /\ key = [i \in S |-> IF i < s THEN i ELSE i + 1]
        /\ c = [i \in T |-> g.seats[i].chips]
        /\ k = [i \in S |-> h.seats[i].chips]
  OBVIOUS
<1>2. \A i \in T : c[i] = g.seats[i].chips /\ c[i] \in Int
  BY <1>1, TableSeats DEF PlayerRecords
<1>3. ASSUME NEW i \in S
      PROVE  key[i] \in T /\ k[i] = c[key[i]] /\ k[i] = h.seats[i].chips /\ key[i] # s
  <2>1. key[i] = (IF i < s THEN i ELSE i + 1) /\ i \in 1 .. m
    BY <1>1
  <2>2. key[i] \in 1 .. n /\ key[i] # s
    BY <2>1
  <2>3. h.seats[i] = g.seats[key[i]]
    BY <2>1
  <2> QED BY <1>1, <2>2, <2>3
<1>4. ASSUME NEW i \in S, NEW j \in S, key[i] = key[j]
      PROVE  i = j
  BY <1>1, <1>4
<1>5. PICK U : U = {key[i] : i \in S}
  OBVIOUS
<1>6. U = T \ {s}
  <2>1. ASSUME NEW t \in T, t # s
        PROVE  t \in U
    <3>1. t \in 1 .. n /\ s \in 1 .. n
      BY <1>1
    <3>2. CASE t < s
      <4>1. t \in S
        BY <1>1, <3>1, <3>2
      <4>2. key[t] = t
        BY <1>1, <3>2, <4>1
      <4> QED BY <1>5, <4>1, <4>2
    <3>3. CASE t > s
      <4>1. t - 1 \in S /\ ~(t - 1 < s) /\ (t - 1) + 1 = t
        BY <1>1, <3>1, <3>3
      <4>2. key[t - 1] = t
        BY <1>1, <4>1
      <4> QED BY <1>5, <4>1, <4>2
    <3> QED BY <2>1, <3>1, <3>2, <3>3
  <2> QED BY <1>3, <1>5, <2>1
<1>7. IsFiniteSet(S) /\ IsFiniteSet(T)
  BY <1>1, FS_Interval
<1>8. SumFunctionOnSet(c, U) = SumFunctionOnSet(k, S)
  <2>1. \A i \in S : k[i] \in Int /\ c[key[i]] = k[i]
    BY <1>2, <1>3
  <2>2. \A i, j \in S : key[i] = key[j] => i = j
    BY <1>4
  <2>3. SumFunctionOnSet(c, {key[i] : i \in S}) = SumFunctionOnSet(k, S)
    BY <1>7, <2>1, <2>2, SumRenamed
  <2> QED BY <1>5, <2>3
<1>9. SumFunctionOnSet(c, T) = c[s] + SumFunctionOnSet(c, T \ {s})
  <2>1. s \in T /\ \A i \in T : c[i] \in Int
    BY <1>1, <1>2
  <2> QED BY <1>7, <2>1, SumSplit
<1>10. StacksOf(g) = SumFunctionOnSet(c, T)
  <2>1. \A i \in 1 .. n : c[i] = g.seats[i].chips
    BY <1>1, <1>2
  <2> QED BY <1>1, <2>1, TableStacksAre
<1>11. StacksOf(h) = SumFunctionOnSet(k, S)
  <2>1. \A i \in 1 .. m : k[i] = h.seats[i].chips
    BY <1>1, <1>3
  <2> QED BY <1>1, <2>1, TableStacksAre
<1>12. c[s] = g.seats[s].chips /\ c[s] \in Int /\ StacksOf(h) \in Nat
  BY <1>1, <1>2, TableStacksAre
<1> QED BY <1>6, <1>8, <1>9, <1>10, <1>11, <1>12
-----------------------------------------------------------------------------
\* The money in the wallets.
InWallets(w) == SumFunctionOnSet(w, Users \cup {House})

LEMMA InWalletsIs ==
  ASSUME IsFiniteSet(Users), NEW w \in [Users \cup {House} -> Nat]
  PROVE  InWallets(w) \in Nat /\ IsFiniteSet(Users \cup {House})
<1>1. IsFiniteSet(Users \cup {House})
  BY FS_AddElement
<1>2. PICK A : A = Users \cup {House}
  OBVIOUS
<1>3. IsFiniteSet(A) /\ \A a \in A : w[a] \in Nat
  BY <1>1, <1>2
<1>4. SumFunctionOnSet(w, A) \in Nat
  BY <1>3, SumNat
<1> QED BY <1>1, <1>2, <1>4 DEF InWallets

\* One wallet changes, and no other.
LEMMA OneWallet ==
  ASSUME IsFiniteSet(Users), NEW w \in [Users \cup {House} -> Nat], NEW u \in Users,
         NEW x \in Nat
  PROVE  InWallets([w EXCEPT ![u] = x]) = InWallets(w) - w[u] + x
<1>1. PICK A, v : A = Users \cup {House} /\ v = [w EXCEPT ![u] = x]
  OBVIOUS
<1>2. IsFiniteSet(A) /\ u \in A
  BY <1>1, InWalletsIs
<1>3. \A a \in A : w[a] \in Int /\ v[a] \in Int
  BY <1>1
<1>4. \A a \in A \ {u} : w[a] = v[a]
  BY <1>1
<1>5. SumFunctionOnSet(v, A) = SumFunctionOnSet(w, A) - w[u] + v[u]
  BY <1>2, <1>3, <1>4, SumChange
<1>6. v[u] = x
  BY <1>1
<1> QED BY <1>1, <1>5, <1>6 DEF InWallets

\* Money, of any wallets and any game.
MoneyOf(w, g) ==
    SumOver(DOMAIN w, LAMBDA a : w[a])
  + SumOver(Seats(g), LAMBDA i : g.seats[i].chips)
  + IF g.started THEN g.pot ELSE 0

LEMMA MoneyIs ==
  ASSUME IsFiniteSet(Users), NEW w \in [Users \cup {House} -> Nat],
         NEW n \in Nat, NEW g \in TableGames(n)
  PROVE  MoneyOf(w, g) = InWallets(w) + OnFelt(g)
<1>1. SumOver(DOMAIN w, LAMBDA a : w[a]) = SumFunctionOnSet([a \in DOMAIN w |-> w[a]], DOMAIN w)
  BY Zenon DEF SumOver
<1>2. [a \in DOMAIN w |-> w[a]] = w /\ DOMAIN w = Users \cup {House}
  OBVIOUS
<1>3. SumOver(DOMAIN w, LAMBDA a : w[a]) = InWallets(w)
  BY <1>1, <1>2 DEF InWallets
<1>4. SumOver(Seats(g), LAMBDA i : g.seats[i].chips) = StacksOf(g)
  BY Zenon DEF SumOver, StacksOf, Chips, Seats
<1>5. MoneyOf(w, g) = InWallets(w) + StacksOf(g) + IF g.started THEN g.pot ELSE 0
  BY <1>3, <1>4 DEF MoneyOf
<1>6. InWallets(w) \in Nat /\ StacksOf(g) \in Nat /\ g.pot \in Nat
  BY InWalletsIs, TableStacksAre DEF TableGames
<1> QED BY <1>5, <1>6 DEF OnFelt

\* The rake takes nothing.
NoRake ==
  RakeMode = "percentage" /\ RakePercentage = 0
    /\ (ReferralPercentage = 0 \/ DOMAIN ReferrerOf = {})

\* What a handler must not do: create money, or leave more of it in the
\* database than in memory.
Pays ==
  /\ InWallets(wallet') + OnFelt(game') <= InWallets(wallet) + OnFelt(game)
  /\ NoRake /\ OnFelt(saved) <= OnFelt(game) => OnFelt(saved') <= OnFelt(game')

LEMMA JoinPays ==
  ASSUME IsFiniteSet(Users), IInv, NEW u \in Users, JoinTable(u)
  PROVE  Pays
<1>1. PICK n \in 0 .. MaxPlayers :
        /\ n \in Nat /\ Sound(game, n) /\ MapOK(game, userMap)
        /\ Seats(game) = 1 .. n
        /\ \A i \in 1 .. n : Name(game, i) \in Users
  BY IInvIs
<1>2. PICK f, g, w : f = game /\ g = Joined(f, u) /\ w = wallet
  OBVIOUS
<1>3. /\ game' = g /\ u \notin Seated /\ ~f.started /\ saved' = Stored(g)
      /\ wallet' = [w EXCEPT ![u] = @ - BuyIn] /\ w[u] >= BuyIn
  BY <1>1, <1>2 DEF JoinTable, Save, Sound, Joined
<1>4. \A i \in 1 .. n : Name(f, i) # u
  BY <1>1, <1>2, <1>3 DEF MapOK, Seated
<1>5. PICK m \in Nat : m = n + 1
  BY <1>1
<1>6. Sound(g, m) /\ (\A i \in 1 .. n : g.seats[i] = f.seats[i]) /\ g.seats[m] = NewPlayer(u, BuyIn)
  <2>1. n \in Nat /\ Sound(f, n)
    BY <1>1, <1>2
  <2> QED BY <1>2, <1>3, <1>4, <1>5, <2>1, JoinIs
<1>7. f \in TableGames(n) /\ g \in TableGames(m)
  BY <1>1, <1>2, <1>6 DEF Sound
<1>8. StacksOf(g) = StacksOf(f) + BuyIn
  <2>1. g.seats[m].chips = BuyIn
    BY <1>6 DEF NewPlayer
  <2>2. \A i \in 1 .. n : g.seats[i] = f.seats[i]
    BY <1>6
  <2>3. StacksOf(g) = StacksOf(f) + g.seats[m].chips
    BY <1>1, <1>5, <1>7, <2>2, StackArrives
  <2> QED BY <2>1, <2>3
<1>9. ~g.started
  BY <1>2, <1>3, <1>7 DEF Joined, TableGames
<1>10. StacksOf(f) \in Nat /\ StacksOf(g) \in Nat
  BY <1>1, <1>7, TableStacksAre
<1>11. OnFelt(g) = OnFelt(f) + BuyIn
  BY <1>3, <1>8, <1>9, <1>10, TableAssumption DEF OnFelt
<1>12. InWallets(wallet') = InWallets(w) - BuyIn /\ InWallets(w) \in Nat
  <2>1. w \in [Users \cup {House} -> Nat] /\ BuyIn \in Nat /\ w[u] \in Nat
    BY <1>2, TableAssumption DEF IInv
  <2>2. PICK x \in Nat : x = w[u] - BuyIn
    BY <1>3, <2>1
  <2>3. wallet' = [w EXCEPT ![u] = x]
    BY <1>3, <2>2
  <2>4. InWallets([w EXCEPT ![u] = x]) = InWallets(w) - w[u] + x
    BY <2>1, OneWallet
  <2>5. InWallets(w) \in Nat
    BY <2>1, InWalletsIs
  <2> QED BY <2>1, <2>2, <2>3, <2>4, <2>5
<1>13. OnFelt(saved') = OnFelt(g) /\ OnFelt(g) \in Nat /\ OnFelt(f) \in Nat
  BY <1>1, <1>3, <1>6, <1>7, StoredFelt, TableStacksAre
<1> QED BY <1>2, <1>3, <1>11, <1>12, <1>13, TableAssumption DEF Pays

LEMMA LeaveWithPays ==
  ASSUME IsFiniteSet(Users), IInv, NEW u \in Users, NEW tms, LeaveWith(u, tms)
  PROVE  Pays
<1>1. PICK n \in 0 .. MaxPlayers :
        /\ n \in Nat /\ Sound(game, n)
        /\ \A v \in Seated : userMap[v] \in 1 .. n
  BY IInvIs
<1>2. PICK f, s, g, w : f = game /\ s = userMap[u] /\ g = WithoutSeat(f, s) /\ w = wallet
  OBVIOUS
<1>3. /\ u \in Seated /\ game' = g /\ saved' = Stored(g)
      /\ wallet' = [w EXCEPT ![u] = @ + f.seats[s].chips]
  BY <1>2, Zenon DEF LeaveWith, Save
<1>4. s \in 1 .. n
  BY <1>1, <1>2, <1>3
<1>5. PICK m \in Nat : n = m + 1
  <2>1. n - 1 \in Nat /\ n = (n - 1) + 1
    BY <1>1, <1>4
  <2> QED BY <2>1
<1>6. Sound(f, n)
  BY <1>1, <1>2
<1>7. Sound(g, m) /\ \A i \in 1 .. m : g.seats[i] = f.seats[IF i < s THEN i ELSE i + 1]
  BY <1>1, <1>2, <1>4, <1>5, <1>6, WithoutSeatIs
<1>8. f \in TableGames(n) /\ g \in TableGames(m)
  BY <1>6, <1>7 DEF Sound
<1>9. StacksOf(f) = StacksOf(g) + f.seats[s].chips
  BY <1>1, <1>4, <1>5, <1>7, <1>8, StackLeaves
<1>10. g.pot = f.pot /\ (g.started => f.started) /\ f.pot \in Nat
  BY <1>2, <1>8 DEF WithoutSeat, TableGames
<1>11. /\ f.seats[s].chips \in Nat /\ StacksOf(f) \in Nat /\ StacksOf(g) \in Nat
       /\ OnFelt(f) \in Nat /\ OnFelt(g) \in Nat
  BY <1>1, <1>4, <1>8, TableStacksAre, TableSeats DEF PlayerRecords
<1>12. OnFelt(g) + f.seats[s].chips <= OnFelt(f)
  BY <1>9, <1>10, <1>11 DEF OnFelt
<1>13. InWallets(wallet') = InWallets(w) + f.seats[s].chips /\ InWallets(w) \in Nat
  <2>1. w \in [Users \cup {House} -> Nat] /\ w[u] \in Nat
    BY <1>2 DEF IInv
  <2>2. PICK x \in Nat : x = w[u] + f.seats[s].chips
    BY <1>11, <2>1
  <2>3. wallet' = [w EXCEPT ![u] = x]
    BY <1>3, <2>2
  <2>4. InWallets([w EXCEPT ![u] = x]) = InWallets(w) - w[u] + x
    BY <2>1, OneWallet
  <2>5. InWallets(w) \in Nat
    BY <2>1, InWalletsIs
  <2> QED BY <1>11, <2>1, <2>2, <2>3, <2>4, <2>5
<1>14. OnFelt(saved') = OnFelt(g)
  BY <1>3, <1>7, StoredFelt
<1> QED BY <1>2, <1>3, <1>11, <1>12, <1>13, <1>14 DEF Pays

\* Nothing but the timers, or nothing at all.
LEMMA StillPays ==
  ASSUME IsFiniteSet(Users), IInv, UNCHANGED <<game, wallet, saved>>
  PROVE  Pays
<1>1. PICK n \in Nat : game \in TableGames(n)
  BY IInvIs
<1>2. OnFelt(game) \in Nat
  BY <1>1, TableStacksAre
<1>3. InWallets(wallet) \in Nat
  BY InWalletsIs DEF IInv
<1> QED BY <1>2, <1>3 DEF Pays

\* A seat whose player comes back, with or without more chips.
LEMMA SeatPays ==
  ASSUME IsFiniteSet(Users), IInv, NEW u \in Seated, NEW p \in PlayerRecords(Users),
         p.name = u,
         p.roundBet = game.seats[userMap[u]].roundBet,
         p.totalBet = game.seats[userMap[u]].totalBet,
         game' = WithSeat(game, userMap[u], p),
         saved' = Stored(game'),
         NEW x \in Nat, p.chips = game.seats[userMap[u]].chips + x,
         x <= wallet[u], wallet' = [wallet EXCEPT ![u] = @ - x]
  PROVE  Pays
<1>1. PICK n \in 0 .. MaxPlayers :
        /\ n \in Nat /\ Sound(game, n)
        /\ userMap[u] \in 1 .. n /\ Name(game, userMap[u]) = u /\ u \in Users
  BY IInvIs
<1>2. PICK f, g, s, w : f = game /\ g = game' /\ s = userMap[u] /\ w = wallet
  OBVIOUS
<1>3. n \in Nat /\ Sound(f, n) /\ s \in 1 .. n /\ g = WithSeat(f, s, p)
  BY <1>1, <1>2
<1>4. /\ p.name = f.seats[s].name /\ p.roundBet = f.seats[s].roundBet
      /\ p.totalBet = f.seats[s].totalBet
  BY <1>1, <1>2 DEF Name
<1>5. Sound(WithSeat(f, s, p), n)
  BY <1>3, <1>4, SetSeat
<1>6. OnlySeat(f, WithSeat(f, s, p), n, s, p)
  BY <1>3, <1>4, SetSeat
<1>7. Sound(g, n) /\ \A i \in 1 .. n : g.seats[i] = IF i = s THEN p ELSE f.seats[i]
  BY <1>3, <1>5, <1>6 DEF OnlySeat
<1>8. f \in TableGames(n) /\ g \in TableGames(n)
  BY <1>3, <1>7 DEF Sound
<1>9. StacksOf(g) = StacksOf(f) - f.seats[s].chips + g.seats[s].chips
  <2>1. \A i \in 1 .. n : i # s => g.seats[i].chips = f.seats[i].chips
    BY <1>7
  <2> QED BY <1>3, <1>8, <2>1, OneStack
<1>10. g.pot = f.pot /\ g.started = f.started /\ f.pot \in Nat
  BY <1>3, <1>8 DEF WithSeat, TableGames
<1>11. /\ f.seats[s].chips \in Nat /\ StacksOf(f) \in Nat
       /\ OnFelt(f) \in Nat /\ OnFelt(g) \in Nat
  BY <1>3, <1>8, TableStacksAre, TableSeats DEF PlayerRecords
<1>12. OnFelt(g) = OnFelt(f) + x
  <2>1. g.seats[s].chips = f.seats[s].chips + x
    BY <1>2, <1>3, <1>7
  <2> QED BY <1>9, <1>10, <1>11, <2>1 DEF OnFelt
<1>13. InWallets(wallet') = InWallets(w) - x /\ InWallets(w) \in Nat
  <2>1. w \in [Users \cup {House} -> Nat] /\ w[u] \in Nat
    BY <1>1, <1>2 DEF IInv
  <2>2. PICK y \in Nat : y = w[u] - x
    BY <1>2, <2>1
  <2>3. wallet' = [w EXCEPT ![u] = y]
    BY <1>2, <2>2
  <2>4. InWallets([w EXCEPT ![u] = y]) = InWallets(w) - w[u] + y
    BY <1>1, <2>1, OneWallet
  <2>5. InWallets(w) \in Nat
    BY <2>1, InWalletsIs
  <2>6. InWallets(wallet') = InWallets(w) - w[u] + y
    BY <2>3, <2>4
  <2>7. InWallets(w) - w[u] + y = InWallets(w) - x
    BY <2>1, <2>2, <2>5
  <2> QED BY <2>5, <2>6, <2>7
<1>14. OnFelt(saved') = OnFelt(g)
  BY <1>2, <1>3, <1>7, StoredFelt
<1> QED BY <1>2, <1>11, <1>12, <1>13, <1>14 DEF Pays

LEMMA SitInPays ==
  ASSUME IsFiniteSet(Users), IInv, NEW u \in Users, SitIn(u)
  PROVE  Pays
<1>1. PICK n \in 0 .. MaxPlayers :
        /\ game \in TableGames(n)
        /\ \A i \in 1 .. n : game.seats[i] \in PlayerRecords(Users)
        /\ \A v \in Seated : userMap[v] \in 1 .. n /\ Name(game, userMap[v]) = v
  BY IInvIs
<1>2. PICK s : s = userMap[u]
  OBVIOUS
<1>3. u \in Seated /\ s \in 1 .. n /\ game.seats[s].name = u
  BY <1>1, <1>2 DEF SitIn, Name
<1>4. PICK p \in PlayerRecords(Users) : p = [game.seats[s] EXCEPT !.sittingOut = FALSE]
  <2>1. PICK r \in PlayerRecords(Users) : r = game.seats[s]
    BY <1>1, <1>3
  <2>2. [r EXCEPT !.sittingOut = FALSE] \in PlayerRecords(Users)
    BY DEF PlayerRecords
  <2> QED BY <2>1, <2>2
<1>5. /\ p.name = u /\ p.roundBet = game.seats[s].roundBet
      /\ p.totalBet = game.seats[s].totalBet
      /\ p.chips = game.seats[s].chips + 0
  <2>1. game.seats[s].chips \in Nat
    BY <1>1, <1>3 DEF PlayerRecords
  <2> QED BY <1>1, <1>3, <1>4, <2>1 DEF PlayerRecords
<1>6. game' = WithSeat(game, s, p)
  <2>1. game' = [game EXCEPT !.seats[s].sittingOut = FALSE]
    BY <1>2 DEF SitIn
  <2> QED BY <1>4, <2>1 DEF WithSeat
<1>7. saved' = Stored(game') /\ wallet' = wallet
  BY DEF SitIn, Save
<1>8. 0 <= wallet[u] /\ wallet' = [wallet EXCEPT ![u] = @ - 0]
  <2>1. wallet \in [Users \cup {House} -> Nat] /\ wallet[u] \in Nat
    BY DEF IInv
  <2>2. wallet[u] - 0 = wallet[u]
    BY <2>1
  <2> QED BY <1>7, <2>1, <2>2
<1> QED BY <1>2, <1>3, <1>5, <1>6, <1>7, <1>8, SeatPays

LEMMA RefillPays ==
  ASSUME IsFiniteSet(Users), IInv, NEW u \in Users, NEW amount \in Refills, Refill(u, amount)
  PROVE  Pays
<1>1. PICK n \in 0 .. MaxPlayers :
        /\ game \in TableGames(n)
        /\ \A i \in 1 .. n : game.seats[i] \in PlayerRecords(Users)
        /\ \A v \in Seated : userMap[v] \in 1 .. n /\ Name(game, userMap[v]) = v
  BY IInvIs
<1>2. PICK s : s = userMap[u]
  OBVIOUS
<1>3. u \in Seated /\ s \in 1 .. n /\ game.seats[s].name = u
  BY <1>1, <1>2 DEF Refill, Name
<1>4. amount \in Nat /\ game.seats[s].chips \in Nat
  BY <1>1, <1>3, TableAssumption DEF PlayerRecords
<1>5. PICK c \in Nat : c = game.seats[s].chips + amount
  BY <1>4
<1>6. PICK p \in PlayerRecords(Users) :
        p = [game.seats[s] EXCEPT !.chips = c, !.sittingOut = FALSE]
  <2>1. PICK r \in PlayerRecords(Users) : r = game.seats[s]
    BY <1>1, <1>3
  <2>2. [r EXCEPT !.chips = c, !.sittingOut = FALSE] \in PlayerRecords(Users)
    BY DEF PlayerRecords
  <2> QED BY <2>1, <2>2
<1>7. /\ p.name = u /\ p.roundBet = game.seats[s].roundBet
      /\ p.totalBet = game.seats[s].totalBet
      /\ p.chips = game.seats[s].chips + amount
  BY <1>1, <1>3, <1>5, <1>6 DEF PlayerRecords
<1>8. game' = WithSeat(game, s, p)
  <2>1. game' = [game EXCEPT !.seats[s] = [game.seats[s] EXCEPT !.chips = @ + amount,
                                                                !.sittingOut = FALSE]]
    BY <1>2 DEF Refill
  <2> QED BY <1>5, <1>6, <2>1 DEF WithSeat
<1>9. /\ saved' = Stored(game') /\ amount <= wallet[u]
      /\ wallet' = [wallet EXCEPT ![u] = @ - amount]
  <2>1. wallet[u] >= amount /\ wallet[u] \in Nat
    BY DEF Refill, IInv
  <2> QED BY <1>4, <2>1 DEF Refill, Save
<1> QED BY <1>2, <1>3, <1>4, <1>7, <1>8, <1>9, SeatPays

\* A deal puts only stacks on the table, whatever the last hand left in its pot.
LEMMA DealPays ==
  ASSUME NEW n \in Nat, NEW f, Sound(f, n), NEW g, g = [f EXCEPT !.intermission = FALSE],
         NEW h \in StartHand(g)
  PROVE  OnFelt(h) <= OnFelt(f)
<1>1. f \in TableGames(n)
  BY DEF Sound
<1>2. /\ g \in TableGames(n) /\ g.seats = f.seats /\ g.pot = f.pot /\ g.started = f.started
  BY <1>1 DEF TableGames
<1>3. OnFelt(g) = OnFelt(f) /\ StacksOf(g) = StacksOf(f)
  BY <1>2 DEF OnFelt, StacksOf, Seats
<1>4. StacksOf(f) \in Nat /\ OnFelt(f) \in Nat /\ StacksOf(f) <= OnFelt(f)
  <2>1. f.pot \in Nat
    BY <1>1 DEF TableGames
  <2> QED BY <1>1, <2>1, TableStacksAre DEF OnFelt
<1>5. CASE ~CanStartHand(g)
  <2>1. h = g
    BY <1>5 DEF StartHand
  <2> QED BY <1>3, <1>4, <2>1
<1>6. CASE CanStartHand(g)
  <2>1. PICK c : c = [g EXCEPT !.payouts = {}]
    OBVIOUS
  <2>2. c \in Games(n, Users) /\ c.seats = g.seats
    <3>1. c \in TableGames(n) /\ c.seats = g.seats /\ c.payouts = {}
      BY <1>2, <2>1 DEF TableGames
    <3> QED BY <3>1, TableGamesAre
  <2>3. DealIn(c) = DealIn(g)
    BY <1>2, <2>1, <2>2 DEF DealIn, SeatsBy, Seats, TableGames
  <2>4. CanStartHand(c)
    BY <1>6, <2>2 DEF CanStartHand, DealtInSeats, Seats
  <2>5. h \in StartHand(c)
    BY <1>6, <2>3, <2>4 DEF StartHand
  <2>6. SmallBlind \in Nat /\ BigBlind \in Nat
    BY BlindsAssumption
  <2>7. OnFelt(h) <= StacksOf(c)
    BY <2>2, <2>4, <2>5, <2>6, StartHandPays
  <2>8. StacksOf(c) = StacksOf(g)
    BY <2>2 DEF StacksOf, Seats
  <2>9. h \in TableGames(n) /\ OnFelt(h) \in Nat
    <3>1. Sound(h, n)
      BY DealIs
    <3> QED BY <3>1, TableStacksAre DEF Sound
  <2> QED BY <1>3, <1>4, <2>7, <2>8, <2>9
<1> QED BY <1>5, <1>6

LEMMA DealWithPays ==
  ASSUME IsFiniteSet(Users), IInv, NEW tms, DealWith(tms)
  PROVE  Pays
<1>1. PICK n \in 0 .. MaxPlayers : n \in Nat /\ Sound(game, n)
  BY IInvIs
<1>2. PICK f, e : f = game /\ e = [f EXCEPT !.intermission = FALSE]
  OBVIOUS
<1>3. PICK g \in StartHand(e) :
        /\ game' = g
        /\ saved' = IF CanStartHand(game) THEN Stored(g) ELSE saved
        /\ wallet' = wallet
  BY <1>2 DEF DealWith
<1>4. n \in Nat /\ Sound(f, n)
  BY <1>1, <1>2
<1>5. OnFelt(g) <= OnFelt(f)
  BY <1>2, <1>3, <1>4, DealPays
<1>6. /\ Sound(g, n) /\ CanStartHand(e) = CanStartHand(f)
  BY <1>2, <1>3, <1>4, DealIs
<1>7. OnFelt(g) \in Nat /\ OnFelt(f) \in Nat /\ InWallets(wallet) \in Nat
  BY <1>4, <1>6, TableStacksAre, InWalletsIs DEF Sound, IInv
<1>8. CASE CanStartHand(f)
  <2>1. OnFelt(saved') = OnFelt(g)
    BY <1>2, <1>3, <1>4, <1>6, <1>8, StoredFelt
  <2> QED BY <1>2, <1>3, <1>5, <1>7, <2>1 DEF Pays
<1>9. CASE ~CanStartHand(f)
  <2>1. g = e /\ saved' = saved
    BY <1>2, <1>3, <1>6, <1>9 DEF StartHand
  <2>2. OnFelt(e) = OnFelt(f)
    <3>1. f \in TableGames(n)
      BY <1>4 DEF Sound
    <3>2. e.seats = f.seats /\ e.pot = f.pot /\ e.started = f.started
      BY <1>2, <3>1 DEF TableGames
    <3> QED BY <3>2 DEF OnFelt, StacksOf, Seats
  <2> QED BY <1>2, <1>3, <1>7, <2>1, <2>2 DEF Pays
<1> QED BY <1>8, <1>9

LEMMA FireNextHandPays ==
  ASSUME IsFiniteSet(Users), IInv, FireNextHand
  PROVE  Pays
<1>1. PICK after \in Callbacks(timers, "intermission") :
        \/ OnlyTimers({Drop(after, "intermission")})
        \/ DealWith({Drop(after, "intermission")})
        \/ /\ game' = [game EXCEPT !.intermission = FALSE, !.started = FALSE]
           /\ saved' = Stored(game') /\ wallet' = wallet
  BY Zenon DEF FireNextHand, Save
<1>2. CASE OnlyTimers({Drop(after, "intermission")})
  BY <1>2, StillPays DEF OnlyTimers
<1>3. CASE DealWith({Drop(after, "intermission")})
  BY <1>3, DealWithPays
<1>4. CASE /\ game' = [game EXCEPT !.intermission = FALSE, !.started = FALSE]
           /\ saved' = Stored(game') /\ wallet' = wallet
  <2>1. PICK n \in 0 .. MaxPlayers : n \in Nat /\ Sound(game, n) /\ game \in TableGames(n)
    BY IInvIs
  <2>2. PICK f, g : f = game /\ g = game'
    OBVIOUS
  <2>3. g \in TableGames(n) /\ g.seats = f.seats /\ g.pot = f.pot /\ ~g.started
    BY <1>4, <2>1, <2>2 DEF TableGames
  <2>4. Sound(g, n)
    BY <2>1, <2>2, <2>3, SoundStays
  <2>5. OnFelt(saved') = OnFelt(g)
    BY <1>4, <2>1, <2>2, <2>4, StoredFelt
  <2>6. /\ StacksOf(g) = StacksOf(f) /\ StacksOf(f) \in Nat /\ f.pot \in Nat
    <3>1. f \in TableGames(n) /\ f.pot \in Nat
      BY <2>1, <2>2 DEF TableGames
    <3>2. StacksOf(f) \in Nat
      BY <2>1, <3>1, TableStacksAre
    <3> QED BY <2>3, <3>1, <3>2 DEF StacksOf, Seats
  <2>7. OnFelt(g) <= OnFelt(f) /\ OnFelt(g) \in Nat /\ OnFelt(f) \in Nat
    BY <2>3, <2>6 DEF OnFelt
  <2>8. InWallets(wallet) \in Nat
    BY InWalletsIs DEF IInv
  <2> QED BY <1>4, <2>2, <2>5, <2>7, <2>8 DEF Pays
<1> QED BY <1>1, <1>2, <1>3, <1>4

LEMMA OtherDealsPay ==
  ASSUME IsFiniteSet(Users), IInv, FireCountdown \/ StartHandManually
  PROVE  Pays
<1>1. CASE FireCountdown
  <2>1. PICK tm : OnlyTimers({tm}) \/ DealWith({tm})
    BY <1>1, Zenon DEF FireCountdown
  <2>2. CASE OnlyTimers({tm})
    BY <2>2, StillPays DEF OnlyTimers
  <2> QED BY <2>1, <2>2, DealWithPays
<1>2. CASE StartHandManually
  BY <1>2, DealWithPays DEF StartHandManually
<1> QED BY <1>1, <1>2

\* A rake of nothing.
LEMMA NothingRaked ==
  ASSUME NoRake, NEW N, NEW n \in Nat, NEW paid \in SUBSET PayoutRecords(n, N),
         IsFiniteSet(paid), NEW u
  PROVE  RakedFrom(u, paid) = 0
<1>1. PICK T, f : /\ T = {p \in paid : p.winner = u}
                  /\ f = [p \in T |-> p.times * (SiteRake(p.amount) + ReferralCut(u, p.amount))]
  OBVIOUS
<1>2. RakedFrom(u, paid) = SumFunctionOnSet(f, T)
  BY <1>1, Zenon DEF RakedFrom, SumOver
<1>3. ASSUME NEW p \in T PROVE f[p] = 0
  <2>1. PICK t \in Nat, x \in Nat : t = p.times /\ x = p.amount
    BY <1>1 DEF PayoutRecords
  <2>2. (x * 0) \div 100 = 0
    <3>1. x * 0 = 0
      OBVIOUS
    <3> QED BY <3>1
  <2>3. SiteRake(x) = 0
    BY <2>2, RakeAssumption DEF NoRake, SiteRake
  <2>4. ReferralCut(u, x) = 0
    <3>1. CASE u \notin DOMAIN ReferrerOf
      BY <3>1 DEF ReferralCut
    <3>2. CASE u \in DOMAIN ReferrerOf
      <4>1. ReferralPercentage = 0
        BY <3>2 DEF NoRake
      <4> QED BY <2>2, <2>3, <3>2, <4>1 DEF ReferralCut, LesserOf
    <3> QED BY <3>1, <3>2
  <2>5. f[p] = t * (SiteRake(x) + ReferralCut(u, x))
    BY <1>1, <2>1
  <2> QED BY <2>3, <2>4, <2>5
<1>4. IsFiniteSet(T)
  <2>1. T \in SUBSET paid
    BY <1>1
  <2> QED BY <2>1, FS_Subset
<1> QED BY <1>2, <1>3, <1>4, SumZero

\* Sitting players out leaves the chips where they are.
LEMMA SatOutFelt ==
  ASSUME NEW n \in Nat, NEW g \in Games(n, Users), NEW out
  PROVE  /\ SatOut(g, out) \in Games(n, Users)
         /\ StacksOf(SatOut(g, out)) = StacksOf(g) /\ OnFelt(SatOut(g, out)) = OnFelt(g)
         /\ PaidOut(g, n) => PaidOut(SatOut(g, out), n)
<1>1. PICK s : s = SatOut(g, out)
  OBVIOUS
<1>2. /\ s \in Games(n, Users) /\ s.payouts = g.payouts /\ s.pot = g.pot
      /\ s.started = g.started
      /\ \A i \in 1 .. n : s.seats[i].name = g.seats[i].name /\ s.seats[i].chips = g.seats[i].chips
  BY <1>1, SatOutIs
<1>3. StacksOf(s) = StacksOf(g)
  BY <1>2, SameStacks
<1>4. OnFelt(s) = OnFelt(g)
  BY <1>2, <1>3 DEF OnFelt
<1>5. PaidOut(g, n) => PaidOut(s, n)
  BY <1>2 DEF PaidOut
<1> QED BY <1>1, <1>2, <1>3, <1>4, <1>5

\* What a hand pays comes out of its pot, and the rake out of what it paid; the
\* database has the game of before the rake.
LEMMA AfterActionPays ==
  ASSUME IsFiniteSet(Users), IInv, game.started, NEW n \in Nat, n > 0, Sound(game, n),
         NEW action \in Decisions, NEW g \in HumanAction(game, TurnSeat(game), action, 0),
         NEW timedOut, NEW tm, AfterAction(g, timedOut, tm)
  PROVE  Pays
<1>1. PICK f, w, paying : f = game /\ w = wallet /\ paying = g.payouts
  OBVIOUS
<1>2. /\ n \in Nat /\ n > 0 /\ Sound(f, n) /\ f.started
      /\ g \in HumanAction(f, TurnSeat(f), action, 0)
  BY <1>1
<1>3. Sound(g, n) /\ g \in Games(n, Users) /\ IsFiniteSet(paying)
  BY <1>1, <1>2, DecisionIs
<1>4. OnFelt(g) <= OnFelt(f) /\ PaidOut(g, n)
  <2>1. /\ f \in TableGames(n) /\ f.payouts = {} /\ PotCovers(f) /\ RoundWithinHand(f)
    BY <1>2 DEF Sound
  <2>2. f \in Games(n, Users) /\ Len(f.seats) = n /\ f.turn \in Nat
    BY <2>1, TableGamesAre, TableSeats DEF TableGames
  <2>3. TurnSeat(f) \in 1 .. n
    <3>1. PICK r \in 0 .. n - 1 : r = f.turn % n
      BY <1>2, <2>2, Division
    <3> QED BY <2>2, <3>1 DEF TurnSeat
  <2>4. BigBlind \in Nat /\ 0 \in Int
    BY BlindsAssumption
  <2> QED BY <1>2, <2>1, <2>2, <2>3, <2>4, HumanActionPays
<1>5. PICK ended \in BOOLEAN : ended = (g.intermission /\ g.lastWinner)
  OBVIOUS
<1>6. PICK idle, s : idle = {i \in timedOut : ~g.seats[i].sittingOut} /\ s = SatOut(g, idle)
  OBVIOUS
<1>7. PICK paid : paid = IF ended THEN Raked(s) ELSE s
  OBVIOUS
<1>8. PICK broke : broke = IF ended THEN Broke(paid) ELSE {}
  OBVIOUS
<1>9. PICK final : final = SatOut(paid, broke)
  OBVIOUS
<1>10. /\ game' = final /\ saved' = Stored(g)
       /\ wallet' = IF ended THEN [a \in DOMAIN w |-> w[a] + CommissionTo(a, paying)] ELSE w
  <2>1. game' = final
    BY <1>5, <1>6, <1>7, <1>8, <1>9, Zenon DEF AfterAction
  <2>2. saved' = Stored(g)
    BY Zenon DEF AfterAction, Save
  <2>3. wallet' = IF ended THEN [a \in DOMAIN w |-> w[a] + CommissionTo(a, paying)] ELSE w
    BY <1>1, <1>5, Zenon DEF AfterAction
  <2> QED BY <2>1, <2>2, <2>3
<1>11. /\ s \in Games(n, Users) /\ s.payouts = paying /\ PaidOut(s, n)
       /\ StacksOf(s) = StacksOf(g) /\ OnFelt(s) = OnFelt(g) /\ s.started = g.started
       /\ \A i \in 1 .. n : s.seats[i].name = g.seats[i].name
  <2>1. s.payouts = paying /\ s.started = g.started
    BY <1>1, <1>3, <1>6, SatOutIs
  <2>2. \A i \in 1 .. n : s.seats[i].name = g.seats[i].name
    BY <1>3, <1>6, SatOutIs
  <2> QED BY <1>3, <1>4, <1>6, <2>1, <2>2, SatOutFelt
<1>12. /\ OnFelt(f) \in Nat /\ OnFelt(g) \in Nat /\ StacksOf(g) \in Nat
       /\ OnFelt(saved') = OnFelt(g)
  BY <1>2, <1>3, <1>10, TableStacksAre, StoredFelt DEF Sound
<1>13. w \in [Users \cup {House} -> Nat] /\ InWallets(w) \in Nat
  BY <1>1, InWalletsIs DEF IInv
<1>14. CASE ~ended
  <2>1. OnFelt(final) = OnFelt(g)
    BY <1>7, <1>9, <1>11, <1>14, SatOutFelt
  <2> QED BY <1>1, <1>4, <1>10, <1>12, <1>13, <1>14, <2>1 DEF Pays
<1>15. CASE ended
  <2>1. ~g.started
    BY <1>3, <1>5, <1>15 DEF Sound
  <2>2. PICK A, com : A = Users \cup {House} /\ com = [a \in A |-> CommissionTo(a, paying)]
    OBVIOUS
  <2>3. StacksOf(Raked(s)) + SumFunctionOnSet(com, A) <= StacksOf(s) /\ SumFunctionOnSet(com, A) \in Nat
    <3>1. \A i, j \in 1 .. n : s.seats[i].name = s.seats[j].name => i = j
      <4>1. Seats(g) = 1 .. n
        BY <1>3, SeatsOf
      <4> QED BY <1>3, <1>11, <4>1 DEF Sound, OneSeatEach, Name
    <3>2. IsFiniteSet(A)
      BY <1>13, <2>2, InWalletsIs
    <3>3. \A a \in A : com[a] = CommissionTo(a, s.payouts)
      BY <1>11, <2>2
    <3> QED BY <1>11, <3>1, <3>2, <3>3, RakeMovesChips
  <2>4. InWallets(wallet') = InWallets(w) + SumFunctionOnSet(com, A)
    <3>1. PICK v : v = wallet'
      OBVIOUS
    <3>2. IsFiniteSet(A)
      BY <1>13, <2>2, InWalletsIs
    <3>3. \A a \in A : com[a] \in Nat
      <4>1. paying \in SUBSET PayoutRecords(n, Users)
        BY <1>1, <1>3 DEF Games
      <4> QED BY <1>3, <2>2, <4>1, RakeIs
    <3>4. \A a \in A : w[a] \in Int /\ com[a] \in Int /\ v[a] = w[a] + com[a]
      BY <1>10, <1>13, <1>15, <2>2, <3>1, <3>3
    <3>5. SumFunctionOnSet(v, A) = SumFunctionOnSet(w, A) + SumFunctionOnSet(com, A)
      BY <3>2, <3>4, SumPlus
    <3> QED BY <2>2, <3>1, <3>5 DEF InWallets
  <2>5. paid = Raked(s) /\ paid \in Games(n, Users) /\ paid.started = s.started
    BY <1>3, <1>7, <1>11, <1>15, RakedIs
  <2>6. StacksOf(final) = StacksOf(paid) /\ OnFelt(final) = OnFelt(paid) /\ final \in Games(n, Users)
    BY <1>9, <2>5, SatOutFelt
  <2>7. OnFelt(final) = StacksOf(paid) /\ OnFelt(g) = StacksOf(g) /\ StacksOf(paid) \in Nat
    <3>1. StacksOf(paid) \in Nat
      BY <2>5, StacksAre
    <3>2. OnFelt(paid) = StacksOf(paid)
      BY <1>11, <2>1, <2>5, <3>1 DEF OnFelt
    <3>3. OnFelt(g) = StacksOf(g)
      BY <1>12, <2>1 DEF OnFelt
    <3> QED BY <2>6, <3>1, <3>2, <3>3
  <2>8. NoRake => StacksOf(paid) = StacksOf(s)
    <3>1. SUFFICES ASSUME NoRake PROVE StacksOf(paid) = StacksOf(s)
      OBVIOUS
    <3>2. ASSUME NEW i \in 1 .. n PROVE paid.seats[i].chips = s.seats[i].chips
      <4>1. paying \in SUBSET PayoutRecords(n, Users)
        BY <1>1, <1>3 DEF Games
      <4>2. RakedFrom(s.seats[i].name, paying) = 0
        BY <1>3, <3>1, <4>1, NothingRaked
      <4>3. paid.seats[i].chips = s.seats[i].chips - LesserOf(s.seats[i].chips, RakedFrom(s.seats[i].name, paying))
        BY <1>3, <1>11, <2>5, RakedIs
      <4>4. s.seats[i].chips \in Nat
        BY <1>11, SeatsOf DEF PlayerRecords
      <4> QED BY <4>2, <4>3, <4>4 DEF LesserOf
    <3> QED BY <1>11, <2>5, <3>2, SameStacks
  <2>9. InWallets(wallet') + OnFelt(final) <= InWallets(w) + OnFelt(f)
    BY <1>4, <1>11, <1>12, <1>13, <2>3, <2>4, <2>5, <2>7
  <2>10. NoRake => OnFelt(saved') <= OnFelt(final)
    BY <1>11, <1>12, <2>7, <2>8
  <2> QED BY <1>1, <1>10, <2>9, <2>10 DEF Pays
<1> QED BY <1>14, <1>15

LEMMA ActionsPay ==
  ASSUME IsFiniteSet(Users), IInv,
         HandleTurnTimeout \/ \E u \in Users, action \in Decisions : SubmitAction(u, action)
  PROVE  Pays
<1>1. PICK n \in 0 .. MaxPlayers :
        n \in Nat /\ Sound(game, n) /\ game \in TableGames(n) /\ Len(game.seats) = n
        /\ \A v \in Seated : userMap[v] \in 1 .. n
  BY IInvIs
<1>2. CASE HandleTurnTimeout
  <2>1. PICK tm :
          \/ OnlyTimers({tm})
          \/ /\ ClockDue(game)
             /\ \E action \in {"check", "fold"} :
                  \E g \in HumanAction(game, TurnSeat(game), action, 0) :
                    AfterAction(g, {TurnSeat(game)}, tm)
    BY <1>2, Zenon DEF HandleTurnTimeout
  <2>2. CASE OnlyTimers({tm})
    BY <2>2, StillPays DEF OnlyTimers
  <2>3. ASSUME ClockDue(game), NEW action \in {"check", "fold"},
               NEW g \in HumanAction(game, TurnSeat(game), action, 0),
               AfterAction(g, {TurnSeat(game)}, tm)
        PROVE  Pays
    <3>1. game.started /\ game.seats # <<>>
      BY <2>3 DEF ClockDue
    <3>2. n > 0
      <4>1. game.seats \in [1 .. n -> PlayerRecords(Users)]
        BY <1>1 DEF TableGames
      <4>2. n = 0 => game.seats = <<>>
        BY <4>1
      <4> QED BY <1>1, <3>1, <4>2
    <3>3. action \in Decisions
      BY <2>3 DEF Decisions
    <3> QED BY <1>1, <2>3, <3>1, <3>2, <3>3, AfterActionPays
  <2> QED BY <2>1, <2>2, <2>3
<1>3. ASSUME NEW u \in Users, NEW action \in Decisions, SubmitAction(u, action)
      PROVE  Pays
  <2>1. game.started /\ u \in Seated
    BY <1>3 DEF SubmitAction
  <2>2. n > 0
    BY <1>1, <2>1
  <2>3. PICK g \in HumanAction(game, TurnSeat(game), action, 0) : AfterAction(g, {}, timers)
    BY <1>3 DEF SubmitAction
  <2> QED BY <1>1, <2>1, <2>2, <2>3, AfterActionPays
<1> QED BY <1>2, <1>3
-----------------------------------------------------------------------------
\* A restart takes what the database has.
LEMMA RestartPays ==
  ASSUME IsFiniteSet(Users), IInv, Restart, OnFelt(saved) <= OnFelt(game)
  PROVE  /\ InWallets(wallet') + OnFelt(game') <= InWallets(wallet) + OnFelt(game)
         /\ OnFelt(saved') <= OnFelt(game')
<1>1. game' = saved /\ wallet' = wallet /\ saved' = saved
  BY DEF Restart
<1>2. PICK n \in Nat : game \in TableGames(n)
  BY IInvIs
<1>3. PICK m \in Nat : saved \in TableGames(m)
  BY TableAssumption DEF IInv, Sound
<1>4. OnFelt(game) \in Nat /\ OnFelt(saved) \in Nat /\ InWallets(wallet) \in Nat
  BY <1>2, <1>3, TableStacksAre, InWalletsIs DEF IInv
<1> QED BY <1>1, <1>4

LEMMA TableStepPays ==
  ASSUME IsFiniteSet(Users), IInv, [Next]_vars
  PROVE  Pays \/ Restart
<1>1. CASE UNCHANGED vars
  BY <1>1, StillPays DEF vars
<1>2. ASSUME NEW u \in Users,
             JoinTable(u) \/ LeaveTable(u) \/ SitOutEviction(u) \/ SitIn(u)
      PROVE  Pays
  <2>1. CASE JoinTable(u)
    BY <2>1, JoinPays
  <2>2. CASE LeaveTable(u)
    BY <2>2, LeaveWithPays DEF LeaveTable
  <2>3. CASE SitOutEviction(u)
    BY <2>3, LeaveWithPays, StillPays DEF SitOutEviction
  <2>4. CASE SitIn(u)
    BY <2>4, SitInPays
  <2> QED BY <1>2, <2>1, <2>2, <2>3, <2>4
<1>3. ASSUME NEW u \in Users, NEW amount \in Refills, Refill(u, amount)
      PROVE  Pays
  BY <1>3, RefillPays
<1>4. CASE FireCountdown \/ FireNextHand \/ StartHandManually
  BY <1>4, OtherDealsPay, FireNextHandPays
<1>5. CASE HandleTurnTimeout \/ \E u \in Users, action \in Decisions : SubmitAction(u, action)
  BY <1>5, ActionsPay
<1> QED BY <1>1, <1>2, <1>3, <1>4, <1>5 DEF Next

\* Money, before and after a step.
LEMMA MoneyNow ==
  ASSUME IsFiniteSet(Users)
  PROVE  /\ IInv => Money = InWallets(wallet) + OnFelt(game)
         /\ IInv' => Money' = InWallets(wallet') + OnFelt(game')
<1>1. Money = MoneyOf(wallet, game) /\ Money' = MoneyOf(wallet', game')
  <2>1. Money = MoneyOf(wallet, game)
    BY DEF Money, MoneyOf, SumOver, Seats
  <2>2. Money' = MoneyOf(wallet', game')
    BY DEF Money, MoneyOf, SumOver, Seats
  <2> QED BY <2>1, <2>2
<1>2. MaxPlayers \in Nat
  BY TableAssumption
<1>3. ASSUME NEW w \in [Users \cup {House} -> Nat], NEW g,
             \E n \in 0 .. MaxPlayers : Sound(g, n)
      PROVE  MoneyOf(w, g) = InWallets(w) + OnFelt(g)
  <2>1. PICK n \in Nat : g \in TableGames(n)
    BY <1>2, <1>3 DEF Sound
  <2> QED BY <2>1, MoneyIs
<1>4. IInv => Money = InWallets(wallet) + OnFelt(game)
  BY <1>1, <1>3 DEF IInv
<1>5. IInv' => Money' = InWallets(wallet') + OnFelt(game')
  BY <1>1, <1>3 DEF IInv
<1> QED BY <1>4, <1>5

\* What the database has of a table is never more than what is in memory,
\* where the rake takes nothing.
Backed == NoRake => OnFelt(saved) <= OnFelt(game)

\* No step makes money of the wallets, the stacks and the pot together: not a
\* tie's shares, nor the rake and its referral leg, nor a seat given up in the
\* middle of a hand, nor a hand dealt over another.  A restart brings back the
\* stacks as they were before the rake, so it is assumed that the process is
\* not restarted or that the rake takes nothing (resolveSidePots, handlePotCommission,
\* LeaveTable, Refill, SaveGame, loadByTableID).
THEOREM MoneyIsNotCreated ==
  ASSUME IsFiniteSet(Users), Restarts = FALSE \/ NoRake
  PROVE  Spec => NoMoneyCreated
<1>1. Init => Backed
  <2>1. ASSUME Init PROVE OnFelt(saved) = OnFelt(game) /\ OnFelt(game) \in Nat
    <3>1. IInv
      BY <2>1, InitSound
    <3>2. PICK n \in Nat : Sound(game, n) /\ game \in TableGames(n)
      BY <3>1, IInvIs
    <3>3. saved = Stored(game)
      BY <2>1 DEF Init
    <3> QED BY <3>2, <3>3, StoredFelt, TableStacksAre
  <2> QED BY <2>1 DEF Backed
<1>2. IInv /\ IInv' /\ Backed /\ [Next]_vars => Backed' /\ [Money' <= Money]_vars
  <2>1. SUFFICES ASSUME IInv, IInv', Backed, [Next]_vars
                 PROVE  Backed' /\ Money' <= Money
    OBVIOUS
  <2>2. Money = InWallets(wallet) + OnFelt(game) /\ Money' = InWallets(wallet') + OnFelt(game')
    BY <2>1, MoneyNow
  <2>3. CASE Pays
    BY <2>1, <2>2, <2>3 DEF Pays, Backed
  <2>4. CASE Restart
    <3>1. NoRake
      BY <2>4 DEF Restart
    <3>2. OnFelt(saved) <= OnFelt(game)
      BY <2>1, <3>1 DEF Backed
    <3> QED BY <2>1, <2>2, <2>4, <3>2, RestartPays DEF Backed
  <2> QED BY <2>1, <2>3, <2>4, TableStepPays
<1> QED BY <1>1, <1>2, Inductive, PTL DEF Spec, NoMoneyCreated
-----------------------------------------------------------------------------
(***************************************************************************)
(* Nothing stops the table.  A hand that runs has two players left and one  *)
(* to act, which the engine's lemmas give, and a hand that ends has somebody*)
(* to pay, which they give where everyone in it is paid in: so what is left *)
(* is that no handler touches the hand it finds, but for decisions and      *)
(* departures, nor takes the table's clock away.                            *)
(***************************************************************************)
\* A handler that does not touch the hand: the same seats are in it, the same
\* seat is to act.
SameTurn(n, g, h) ==
  /\ h.started = g.started /\ h.intermission = g.intermission /\ h.turn = g.turn
  /\ h.phase = g.phase /\ h.currentBet = g.currentBet
  /\ \A i \in 1 .. n : /\ h.seats[i].folded = g.seats[i].folded
                       /\ h.seats[i].allIn = g.seats[i].allIn

\* Nor the stacks of those who are in it.
SameHands(n, g, h) ==
  \A i \in 1 .. n : ~g.seats[i].folded => /\ h.seats[i].chips = g.seats[i].chips
                                          /\ h.seats[i].totalBet = g.seats[i].totalBet
                                          /\ h.seats[i].roundBet = g.seats[i].roundBet

LEMMA TwoOrMore ==
  ASSUME NEW S, IsFiniteSet(S)
  PROVE  Cardinality(S) >= 2 <=> \E x, y \in S : x # y
<1>1. ASSUME NEW x \in S, NEW y \in S, x # y
      PROVE  Cardinality(S) >= 2
  <2>1. IsFiniteSet(S \ {x}) /\ Cardinality(S \ {x}) = Cardinality(S) - 1
    BY FS_RemoveElement
  <2>2. y \in S \ {x}
    BY <1>1
  <2>3. /\ IsFiniteSet((S \ {x}) \ {y})
        /\ Cardinality((S \ {x}) \ {y}) = Cardinality(S \ {x}) - 1
    BY <2>1, <2>2, FS_RemoveElement
  <2>4. Cardinality(S) \in Nat /\ Cardinality((S \ {x}) \ {y}) \in Nat
    BY <2>3, FS_CardinalityType
  <2> QED BY <2>1, <2>3, <2>4
<1>2. ASSUME Cardinality(S) >= 2
      PROVE  \E x, y \in S : x # y
  <2>1. PICK x : x \in S
    BY <1>2, FS_EmptySet
  <2>2. IsFiniteSet(S \ {x}) /\ Cardinality(S \ {x}) = Cardinality(S) - 1
    BY <2>1, FS_RemoveElement
  <2>3. S \ {x} # {}
    <3>1. Cardinality(S \ {x}) # 0
      BY <1>2, <2>2, FS_CardinalityType
    <3> QED BY <3>1, FS_EmptySet
  <2> QED BY <2>1, <2>3
<1> QED BY <1>1, <1>2

\* Whoever the clock can run for is in the hand and has chips left.
LEMMA ClockDueIs ==
  ASSUME NEW n \in Nat, NEW g \in TableGames(n)
  PROVE  ClockDue(g) <=> /\ g.started /\ ~g.intermission
                         /\ TurnSeat(g) \in ActionableSeats(g)
<1>1. /\ Seats(g) = 1 .. n /\ Len(g.seats) = n /\ g.turn \in Nat
      /\ g.seats \in [1 .. n -> PlayerRecords(Users)]
  BY TableSeats DEF TableGames
<1>2. g.seats # <<>> => n > 0
  BY <1>1
<1>3. n > 0 => TurnSeat(g) \in 1 .. n
  <2>1. SUFFICES ASSUME n > 0 PROVE TurnSeat(g) \in 1 .. n
    OBVIOUS
  <2>2. PICK r \in 0 .. n - 1 : r = g.turn % n
    BY <1>1, <2>1, Division
  <2> QED BY <1>1, <2>2 DEF TurnSeat
<1>4. ASSUME TurnSeat(g) \in ActionableSeats(g)
      PROVE  g.seats # <<>> /\ CanAct(g, TurnSeat(g))
  <2>1. TurnSeat(g) \in 1 .. n
    BY <1>1, <1>4 DEF ActionableSeats, ActiveSeats
  <2>2. Len(g.seats) # 0
    BY <1>1, <2>1
  <2> QED BY <1>4, <2>2 DEF ActionableSeats, ActiveSeats, CanAct
<1>5. ASSUME g.seats # <<>>, CanAct(g, TurnSeat(g))
      PROVE  TurnSeat(g) \in ActionableSeats(g)
  BY <1>1, <1>2, <1>3, <1>5 DEF ActionableSeats, ActiveSeats, CanAct
<1> QED BY <1>4, <1>5 DEF ClockDue

LEMMA SameTurnIs ==
  ASSUME NEW n \in Nat, NEW g \in TableGames(n), NEW h \in TableGames(n), SameTurn(n, g, h)
  PROVE  /\ ActiveSeats(h) = ActiveSeats(g)
         /\ ClockDue(h) <=> ClockDue(g)
         /\ SameHands(n, g, h) /\ PaidIn(g) => PaidIn(h)
<1>1. Seats(g) = 1 .. n /\ Seats(h) = 1 .. n /\ Len(g.seats) = n /\ Len(h.seats) = n
  BY TableSeats
<1>2. ActiveSeats(h) = ActiveSeats(g) /\ ActionableSeats(h) = ActionableSeats(g)
  BY <1>1 DEF ActiveSeats, ActionableSeats, SameTurn
<1>3. TurnSeat(h) = TurnSeat(g)
  BY <1>1 DEF TurnSeat, SameTurn
<1>4. ClockDue(h) <=> ClockDue(g)
  BY <1>2, <1>3, ClockDueIs DEF SameTurn
<1>5. ASSUME SameHands(n, g, h), PaidIn(g)
      PROVE  PaidIn(h)
  <2>1. ASSUME NEW i \in ActiveSeats(h)
        PROVE  i \in ActiveSeats(g) /\ SameHand(g.seats[i], h.seats[i])
    <3>1. i \in ActiveSeats(g) /\ i \in 1 .. n /\ ~g.seats[i].folded
      BY <1>1, <1>2 DEF ActiveSeats
    <3> QED BY <1>5, <3>1 DEF SameHand, SameHands, SameTurn
  <2> QED BY <1>5, <2>1, PaidInStays DEF SameTurn
<1> QED BY <1>2, <1>4, <1>5

\* A table that keeps going goes on doing so while the hand is not touched and
\* the clock it is on is held.
LEMMA StillGoing ==
  ASSUME NEW n \in Nat, NEW g \in TableGames(n), NEW h \in TableGames(n), SameTurn(n, g, h),
         NEW tm, NEW t, KeepsGoing(g, tm),
         g.intermission /\ Due(tm, "intermission") => Due(t, "intermission"),
         ~g.intermission /\ g.started /\ Due(tm, "turn") => Due(t, "turn"),
         ~g.intermission /\ ~g.started /\ CanStartHand(h) => Due(t, "countdown")
  PROVE  KeepsGoing(h, t)
<1>1. Len(g.seats) = n /\ Len(h.seats) = n
  BY TableSeats
<1>2. ActiveSeats(h) = ActiveSeats(g) /\ (ClockDue(h) <=> ClockDue(g))
  BY SameTurnIs
<1> QED BY <1>1, <1>2 DEF KeepsGoing, SameTurn

\* What tm becomes: none of the table's clocks stops but those of X.
Holds(tm, t, X) ==
  t \in Timers /\ \A x \in TableClocks \ X : Due(tm, x) => Due(t, x)

LEMMA HoldsTransitive ==
  ASSUME NEW r, NEW s, NEW t, NEW X, NEW Y, Holds(r, s, X), Holds(s, t, Y)
  PROVE  Holds(r, t, X \cup Y)
BY DEF Holds

LEMMA StartHolds ==
  ASSUME NEW tm \in Timers, NEW x \in Kinds
  PROVE  Holds(tm, Start(tm, x), {}) /\ Due(Start(tm, x), x)
BY DEF Timers, Start, Holds, Due

LEMMA StopHolds ==
  ASSUME NEW tm \in Timers, NEW x \in Kinds, NEW t \in Stop(tm, x)
  PROVE  Holds(tm, t, {x})
<1>1. CASE x \notin tm.armed
  BY <1>1 DEF Stop, Holds
<1>2. CASE x \in tm.armed
  <2>1. PICK late \in {{}, {x}} : t = [armed |-> tm.armed \ {x}, loose |-> tm.loose \cup late]
    <3>1. PICK S \in {{{}, {x}}, {{}}} :
            Stop(tm, x) = {[armed |-> tm.armed \ {x}, loose |-> tm.loose \cup l] : l \in S}
      BY <1>2 DEF Stop
    <3> QED BY <3>1
  <2>2. t.armed = tm.armed \ {x} /\ t.loose = tm.loose \cup late
    BY <2>1
  <2>3. t \in Timers
    BY <2>1 DEF Timers
  <2> QED BY <2>2, <2>3 DEF Holds, Due
<1> QED BY <1>1, <1>2

\* A callback consumes its own timer and no other; dropping one consumes none.
LEMMA CallbackHolds ==
  ASSUME NEW tm \in Timers, NEW x \in Kinds, NEW t \in Callbacks(tm, x)
  PROVE  Holds(tm, t, {x}) /\ Holds(tm, Drop(t, x), {x})
<1>1. t = Fired(tm, x) \/ t = RanLoose(tm, x)
  BY DEF Callbacks
<1>2. Holds(tm, t, {x})
  BY <1>1 DEF Fired, RanLoose, Holds, Due, Timers
<1>3. Drop(t, x) \in Timers /\ \A y : Due(t, y) => Due(Drop(t, x), y)
  BY <1>2 DEF Holds, Drop, Due, Timers
<1> QED BY <1>2, <1>3 DEF Holds

LEMMA EvaluateCountdownHolds ==
  ASSUME NEW tm \in Timers, NEW g, NEW t \in EvaluateCountdown(tm, g),
         Cardinality(DealtInSeats(g)) \in Nat
  PROVE  /\ Holds(tm, t, {"countdown"})
         /\ g.started \/ g.intermission => t = tm
         /\ ~(g.started \/ g.intermission) /\ CanStartHand(g) => Due(t, "countdown")
<1>1. "countdown" \in Kinds
  BY DEF Kinds
<1>2. CASE g.started \/ g.intermission
  <2>1. t = tm
    BY <1>2 DEF EvaluateCountdown
  <2> QED BY <1>2, <2>1 DEF Holds
<1>3. CASE ~(g.started \/ g.intermission) /\ Cardinality(DealtInSeats(g)) < 2
  <2>1. t \in Stop(tm, "countdown") /\ ~CanStartHand(g)
    BY <1>3 DEF EvaluateCountdown, CanStartHand
  <2> QED BY <1>1, <1>3, <2>1, StopHolds
<1>4. CASE ~(g.started \/ g.intermission) /\ ~(Cardinality(DealtInSeats(g)) < 2)
  <2>1. PICK s \in {tm} \cup Stop(tm, "countdown") : t = Start(s, "countdown")
    BY <1>4 DEF EvaluateCountdown
  <2>2. Holds(tm, s, {"countdown"})
    BY <1>1, <2>1, StopHolds DEF Holds
  <2>3. Holds(s, t, {}) /\ Due(t, "countdown")
    BY <1>1, <2>1, <2>2, StartHolds DEF Holds
  <2> QED BY <1>4, <2>2, <2>3 DEF Holds
<1> QED BY <1>2, <1>3, <1>4

LEMMA ResetTurnTimerHolds ==
  ASSUME NEW tms \in SUBSET Timers, NEW g, NEW t \in ResetTurnTimer(tms, g)
  PROVE  /\ \E tm \in tms : Holds(tm, t, {"turn"})
         /\ ClockDue(g) => Due(t, "turn")
<1>1. "turn" \in Kinds
  BY DEF Kinds
<1>2. PICK s \in StopAll(tms, "turn") : t = IF ClockDue(g) THEN Start(s, "turn") ELSE s
  BY DEF ResetTurnTimer
<1>3. PICK tm \in tms : s \in Stop(tm, "turn")
  BY <1>2 DEF StopAll
<1>4. Holds(tm, s, {"turn"})
  BY <1>1, <1>3, StopHolds
<1>5. Holds(s, t, {})
  BY <1>1, <1>2, <1>4, StartHolds DEF Holds
<1>6. ClockDue(g) => Due(t, "turn")
  BY <1>1, <1>2, <1>4, StartHolds DEF Holds
<1> QED BY <1>4, <1>5, <1>6 DEF Holds

\* The pause after a hand is put on its clock, and none is taken off but the turn.
LEMMA SettledTimersHold ==
  ASSUME NEW tm \in Timers, NEW names \in SUBSET Users, NEW ended, NEW g,
         NEW t \in ResetTurnTimer(Evictions(tm, names, ended), g)
  PROVE  /\ ClockDue(g) => Due(t, "turn")
         /\ ended => Due(t, "intermission")
<1> DEFINE after(started) ==
             IF ended THEN {Start(r, "intermission") : r \in Stop(started, "intermission")}
                      ELSE {started}
<1>1. PICK tms : tms = UNION {after(started) : started \in StartEvictions(tm, names)}
  OBVIOUS
<1>2. "intermission" \in TableClocks /\ "intermission" \in Kinds
  BY DEF TableClocks, Kinds
<1>3. ASSUME NEW started \in StartEvictions(tm, names), NEW x \in after(started)
      PROVE  x \in Timers /\ (ended => Due(x, "intermission"))
  <2>1. started \in Timers
    BY StartEvictionsKeep DEF Keeps
  <2>2. ASSUME NEW r \in Stop(started, "intermission"), x = Start(r, "intermission")
        PROVE  x \in Timers /\ Due(x, "intermission")
    <3>1. r \in Timers
      BY <1>2, <2>1, StopHolds DEF Holds
    <3> QED BY <1>2, <2>2, <3>1, StartHolds DEF Holds
  <2>3. \/ ~ended /\ x = started
        \/ \E r \in Stop(started, "intermission") : x = Start(r, "intermission")
    BY <1>3, Zenon
  <2> QED BY <2>1, <2>2, <2>3
<1> HIDE DEF after
<1>4. tms \in SUBSET Timers /\ \A x \in tms : ended => Due(x, "intermission")
  BY <1>1, <1>3
<1>5. t \in ResetTurnTimer(tms, g)
  BY <1>1 DEF Evictions, after
<1>6. PICK x \in tms : Holds(x, t, {"turn"})
  BY <1>4, <1>5, ResetTurnTimerHolds
<1>7. ClockDue(g) => Due(t, "turn")
  BY <1>4, <1>5, ResetTurnTimerHolds
<1> QED BY <1>2, <1>4, <1>6, <1>7 DEF Holds

\* What the database has of a hand whose players are paid in has them paid in.
LEMMA StoredPaidIn ==
  ASSUME NEW n \in Nat, NEW g, Sound(g, n), g.started => PaidIn(g)
  PROVE  Stored(g).started => PaidIn(Stored(g))
<1> DEFINE kept(i) == [g.seats[i] EXCEPT !.hasActed = FALSE]
           q == [i \in 1 .. n |-> kept(i)]
<1>1. g \in TableGames(n)
  BY DEF Sound
<1>2. Seats(g) = 1 .. n /\ Len(g.seats) = n
  BY <1>1, TableSeats
<1>3. ASSUME NEW i \in 1 .. n
      PROVE  kept(i) \in PlayerRecords(Users) /\ SameHand(g.seats[i], kept(i))
  <2>1. g.seats[i] \in PlayerRecords(Users)
    BY <1>1, TableSeats
  <2> QED BY <2>1 DEF PlayerRecords, SameHand
<1>4. SeatsBy(g, LAMBDA i : [g.seats[i] EXCEPT !.hasActed = FALSE]) = SubSeq(q, 1, n)
  BY <1>2 DEF SeatsBy
<1> HIDE DEF kept
<1>5. q \in [1 .. n -> PlayerRecords(Users)] /\ \A i \in 1 .. n : q[i] = kept(i)
  BY <1>3
<1> HIDE DEF q
<1>6. SubSeq(q, 1, n) = q
  BY <1>5, SeatsRewritten
<1>7. PICK f \in [1 .. n -> PlayerRecords(Users)] : f = q
  BY <1>5
<1> DEFINE h == Stored(g)
<1>8. h = [g EXCEPT !.turn = 0, !.payouts = {}, !.lastWinner = TRUE, !.seats = f]
  BY <1>4, <1>6, <1>7, Zenon DEF Stored
<1> HIDE DEF h
<1>9. /\ h.seats = f /\ h.phase = g.phase /\ h.currentBet = g.currentBet
      /\ h.started = g.started
  BY <1>1, <1>8 DEF TableGames
<1>10. ASSUME PaidIn(g)
       PROVE  PaidIn(h)
  <2>1. Seats(h) = 1 .. n
    BY <1>9 DEF Seats
  <2>2. ASSUME NEW i \in ActiveSeats(h)
        PROVE  i \in ActiveSeats(g) /\ SameHand(g.seats[i], h.seats[i])
    <3>1. i \in 1 .. n /\ ~h.seats[i].folded
      BY <2>1, <2>2 DEF ActiveSeats
    <3>2. SameHand(g.seats[i], h.seats[i])
      BY <1>3, <1>5, <1>7, <1>9, <3>1
    <3> QED BY <1>2, <3>1, <3>2 DEF ActiveSeats, SameHand
  <2> QED BY <1>9, <1>10, <2>2, PaidInStays
<1> QED BY <1>9, <1>10 DEF h

\* Sitting players out does not touch the hand.
LEMMA SatOutTurn ==
  ASSUME NEW n \in Nat, NEW g \in Games(n, Users), NEW out
  PROVE  SameTurn(n, g, SatOut(g, out))
<1> DEFINE seat(i) == [g.seats[i] EXCEPT !.sittingOut = @ \/ i \in out]
           q == [i \in 1 .. n |-> seat(i)]
<1>1. Seats(g) = 1 .. n /\ Len(g.seats) = n
  BY SeatsOf
<1>2. ASSUME NEW i \in 1 .. n
      PROVE  /\ seat(i) \in PlayerRecords(Users)
             /\ seat(i).folded = g.seats[i].folded /\ seat(i).allIn = g.seats[i].allIn
  <2>1. PICK p \in PlayerRecords(Users) : p = g.seats[i]
    BY SeatsOf
  <2>2. PICK b \in BOOLEAN : b = (p.sittingOut \/ i \in out)
    OBVIOUS
  <2>3. seat(i) = [p EXCEPT !.sittingOut = b]
    BY <2>1, <2>2
  <2> HIDE DEF seat
  <2> QED BY <2>1, <2>3 DEF PlayerRecords
<1>3. SeatsBy(g, LAMBDA i : [g.seats[i] EXCEPT !.sittingOut = @ \/ i \in out]) = SubSeq(q, 1, n)
  BY <1>1 DEF SeatsBy
<1> HIDE DEF seat
<1>4. q \in [1 .. n -> PlayerRecords(Users)] /\ \A i \in 1 .. n : q[i] = seat(i)
  BY <1>2
<1> HIDE DEF q
<1>5. SubSeq(q, 1, n) = q
  BY <1>4, SeatsRewritten
<1>6. PICK h : h = SatOut(g, out)
  OBVIOUS
<1>7. PICK f \in [1 .. n -> PlayerRecords(Users)] : f = q
  BY <1>4
<1>8. h = [g EXCEPT !.seats = f]
  BY <1>3, <1>5, <1>6, <1>7, Zenon DEF SatOut
<1>9. /\ h.seats = f /\ h.started = g.started /\ h.intermission = g.intermission
      /\ h.turn = g.turn /\ h.phase = g.phase /\ h.currentBet = g.currentBet
  BY <1>8 DEF Games
<1>10. SameTurn(n, g, h)
  BY <1>2, <1>4, <1>7, <1>9 DEF SameTurn
<1> QED BY <1>6, <1>10

\* Nor does a seat whose player keeps his place in it.
LEMMA SetSeatTurn ==
  ASSUME NEW n \in Nat, NEW g \in TableGames(n), NEW s \in 1 .. n,
         NEW p \in PlayerRecords(Users),
         p.folded = g.seats[s].folded, p.allIn = g.seats[s].allIn
  PROVE  SameTurn(n, g, WithSeat(g, s, p))
<1>1. g.seats \in [1 .. n -> PlayerRecords(Users)]
  BY DEF TableGames
<1>2. PICK q \in [1 .. n -> PlayerRecords(Users)] : q = [g.seats EXCEPT ![s] = p]
  BY <1>1
<1> DEFINE h == WithSeat(g, s, p)
<1>3. h = [g EXCEPT !.seats = q]
  BY <1>1, <1>2 DEF TableGames, WithSeat
<1> HIDE DEF h
<1>4. /\ h.seats = q /\ h.started = g.started /\ h.intermission = g.intermission
      /\ h.turn = g.turn /\ h.phase = g.phase /\ h.currentBet = g.currentBet
  BY <1>3 DEF TableGames
<1>5. \A i \in 1 .. n : q[i] = IF i = s THEN p ELSE g.seats[i]
  BY <1>1, <1>2
<1>6. SameTurn(n, g, h)
  BY <1>4, <1>5 DEF SameTurn
<1> QED BY <1>6 DEF h

\* Those who stay when somebody leaves stay as they were.
LEMMA WithoutSeatPaidIn ==
  ASSUME NEW n \in Nat, NEW g, Sound(g, n), NEW s \in 1 .. n, NEW m \in Nat, n = m + 1
  PROVE  /\ WithoutSeat(g, s).started => g.started
         /\ WithoutSeat(g, s).intermission = g.intermission
         /\ PaidIn(g) => PaidIn(WithoutSeat(g, s))
         /\ CanStartHand(WithoutSeat(g, s)) => CanStartHand(g) /\ m >= 2
<1>1. PICK h : h = WithoutSeat(g, s)
  OBVIOUS
<1>2. Sound(h, m) /\ \A i \in 1 .. m : h.seats[i] = g.seats[IF i < s THEN i ELSE i + 1]
  BY <1>1, WithoutSeatIs
<1>3. /\ g \in TableGames(n) /\ Seats(g) = 1 .. n /\ Len(g.seats) = n
      /\ h \in TableGames(m) /\ Seats(h) = 1 .. m
  BY <1>2, TableSeats DEF Sound
<1>4. /\ h.started => g.started
      /\ h.intermission = g.intermission
      /\ h.phase = g.phase /\ h.currentBet = g.currentBet
  <2>1. PICK b, q : b = (g.started /\ n > 2)
                    /\ q = SubSeq(g.seats, 1, s - 1) \o SubSeq(g.seats, s + 1, n)
    OBVIOUS
  <2>2. h = [g EXCEPT !.seats = q, !.started = b]
    BY <1>1, <1>3, <2>1 DEF WithoutSeat, TableGames
  <2> QED BY <1>3, <2>1, <2>2 DEF TableGames
<1> DEFINE old(i) == IF i < s THEN i ELSE i + 1
<1>5. ASSUME NEW i \in 1 .. m
      PROVE  old(i) \in 1 .. n /\ h.seats[i] = g.seats[old(i)]
  BY <1>2
<1>6. ASSUME NEW i \in 1 .. m, NEW j \in 1 .. m, i # j
      PROVE  old(i) # old(j)
  BY <1>6
<1> HIDE DEF old
<1>7. ASSUME PaidIn(g)
      PROVE  PaidIn(h)
  <2>1. ASSUME NEW i \in ActiveSeats(h)
        PROVE  old(i) \in ActiveSeats(g) /\ SameHand(g.seats[old(i)], h.seats[i])
    <3>1. i \in 1 .. m /\ ~h.seats[i].folded
      BY <1>3, <2>1 DEF ActiveSeats
    <3> QED BY <1>3, <1>5, <3>1 DEF ActiveSeats, SameHand
  <2> QED BY <1>4, <1>7, <2>1, PaidInStays
<1>8. ASSUME CanStartHand(h)
      PROVE  CanStartHand(g) /\ m >= 2
  <2>1. IsFiniteSet(DealtInSeats(h)) /\ IsFiniteSet(DealtInSeats(g))
    <3>1. DealtInSeats(h) \in SUBSET (1 .. m) /\ DealtInSeats(g) \in SUBSET (1 .. n)
      BY <1>3 DEF DealtInSeats
    <3>2. IsFiniteSet(1 .. m) /\ IsFiniteSet(1 .. n)
      BY FS_Interval
    <3> QED BY <3>1, <3>2, FS_Subset
  <2>2. PICK i \in DealtInSeats(h), j \in DealtInSeats(h) : i # j
    BY <1>8, <2>1, TwoOrMore DEF CanStartHand
  <2>3. i \in 1 .. m /\ j \in 1 .. m
    BY <1>3 DEF DealtInSeats
  <2>4. old(i) \in DealtInSeats(g) /\ old(j) \in DealtInSeats(g)
    BY <1>3, <1>5, <2>3 DEF DealtInSeats
  <2>5. CanStartHand(g)
    BY <1>6, <2>1, <2>2, <2>3, <2>4, TwoOrMore DEF CanStartHand
  <2> QED BY <2>2, <2>3, <2>5
<1> QED BY <1>1, <1>4, <1>7, <1>8
-----------------------------------------------------------------------------
(***************************************************************************)
(* The handlers again: none but a departure and a deal that is over at once *)
(* stops a table that keeps going.                                          *)
(***************************************************************************)
\* Everyone who is in a running hand is paid in, and so he is in the database.
PaidInv ==
  /\ game.started => PaidIn(game)
  /\ saved.started => PaidIn(saved)

\* What a step leaves of a table that keeps going.
MovesOn ==
  \/ KeepsGoing(game', timers')
  \/ (game.started \/ game.intermission) /\ DOMAIN userMap' # Seated
  \/ game'.intermission /\ game'.payouts # {}

GoesOn == PaidInv' /\ (KeepsGoing(game, timers) => MovesOn)

LEMMA GoesOnIs ==
  ASSUME game'.started => PaidIn(game'),
         saved'.started => PaidIn(saved'),
         KeepsGoing(game, timers) => MovesOn
  PROVE  GoesOn
BY DEF GoesOn, PaidInv

LEMMA DealtInNat ==
  ASSUME NEW n \in Nat, NEW g \in TableGames(n)
  PROVE  IsFiniteSet(DealtInSeats(g)) /\ Cardinality(DealtInSeats(g)) \in Nat
<1>1. DealtInSeats(g) \in SUBSET (1 .. n)
  BY TableSeats DEF DealtInSeats
<1>2. IsFiniteSet(1 .. n)
  BY FS_Interval
<1> QED BY <1>1, <1>2, FS_Subset, FS_CardinalityType

\* A hand to deal takes two seats.
LEMMA DealNeedsTwo ==
  ASSUME NEW n \in Nat, NEW g \in TableGames(n), CanStartHand(g)
  PROVE  n >= 2
<1>1. DealtInSeats(g) \in SUBSET (1 .. n)
  BY TableSeats DEF DealtInSeats
<1>2. \E x, y \in DealtInSeats(g) : x # y
  BY DealtInNat, TwoOrMore DEF CanStartHand
<1> QED BY <1>1, <1>2

LEMMA JoinGoesOn ==
  ASSUME IInv, NEW u \in Users, JoinTable(u)
  PROVE  GoesOn
<1>1. PICK n \in 0 .. MaxPlayers :
        /\ n \in Nat /\ Sound(game, n) /\ MapOK(game, userMap)
        /\ game \in TableGames(n) /\ Seats(game) = 1 .. n /\ Len(game.seats) = n
  BY IInvIs
<1>2. PICK f, g : f = game /\ g = Joined(f, u)
  OBVIOUS
<1>3. /\ game' = g /\ u \notin Seated /\ ~f.started
      /\ timers' \in EvaluateCountdown(timers, g)
      /\ saved' = Stored(g)
  BY <1>1, <1>2 DEF JoinTable, Save, Sound, Joined
<1>4. \A i \in 1 .. n : Name(f, i) # u
  BY <1>1, <1>2, <1>3 DEF MapOK, Seated
<1>5. PICK m : m = n + 1
  OBVIOUS
<1>6. Sound(g, m) /\ m \in Nat
  BY <1>1, <1>2, <1>3, <1>4, <1>5, JoinIs
<1>7. g \in TableGames(m) /\ Len(g.seats) = m
  BY <1>6, TableSeats DEF Sound
<1>8. g.started = f.started /\ g.intermission = f.intermission
  BY <1>1, <1>2 DEF Joined, TableGames
<1>9. ~saved'.started
  BY <1>3, <1>6, <1>7, <1>8 DEF Stored, TableGames
<1>10. /\ g.started \/ g.intermission => timers' = timers
       /\ ~(g.started \/ g.intermission) /\ CanStartHand(g) => Due(timers', "countdown")
  <2>1. timers \in Timers
    BY DEF IInv
  <2>2. Cardinality(DealtInSeats(g)) \in Nat
    BY <1>6, <1>7, DealtInNat
  <2> QED BY <1>3, <2>1, <2>2, EvaluateCountdownHolds
<1>11. KeepsGoing(game, timers) => KeepsGoing(game', timers')
  BY <1>1, <1>2, <1>3, <1>5, <1>6, <1>7, <1>8, <1>10 DEF KeepsGoing
<1> QED BY <1>3, <1>8, <1>9, <1>11, GoesOnIs DEF MovesOn

\* A departure stops the table only during a hand or the pause after it.
LEMMA LeaveWithGoesOn ==
  ASSUME IInv, PaidInv, NEW u \in Users, NEW tms \in SUBSET Timers,
         \A tm \in tms : Holds(timers, tm, {}), LeaveWith(u, tms)
  PROVE  GoesOn
<1>1. PICK n \in 0 .. MaxPlayers :
        /\ n \in Nat /\ Sound(game, n) /\ Seats(game) = 1 .. n
        /\ \A v \in Seated : userMap[v] \in 1 .. n /\ Name(game, userMap[v]) = v
  BY IInvIs
<1>2. PICK f, s, g : f = game /\ s = userMap[u] /\ g = WithoutSeat(f, s)
  OBVIOUS
<1>3. u \in Seated /\ game' = g /\ userMap' = SeatsByUser(g) /\ saved' = Stored(g)
  BY <1>2, Zenon DEF LeaveWith, Save
<1>4. s \in 1 .. n /\ Name(f, s) = u /\ Sound(f, n) /\ Seats(f) = 1 .. n
  BY <1>1, <1>2, <1>3
<1>5. PICK m \in Nat : n = m + 1
  <2>1. n - 1 \in Nat /\ n = (n - 1) + 1
    BY <1>1, <1>4
  <2> QED BY <2>1
<1> DEFINE old(i) == IF i < s THEN i ELSE i + 1
<1>6. Sound(g, m) /\ \A i \in 1 .. m : g.seats[i] = f.seats[old(i)]
  BY <1>1, <1>2, <1>4, <1>5, WithoutSeatIs
<1>7. /\ g.started => f.started
      /\ g.intermission = f.intermission
      /\ PaidIn(f) => PaidIn(g)
      /\ CanStartHand(g) => CanStartHand(f) /\ m >= 2
  BY <1>1, <1>2, <1>4, <1>5, WithoutSeatPaidIn
<1>8. Seats(g) = 1 .. m /\ Len(g.seats) = m
  BY <1>6, TableSeats DEF Sound
<1>9. DOMAIN userMap' # Seated
  <2>1. ASSUME NEW i \in 1 .. m
        PROVE  Name(g, i) # u
    <3>1. old(i) \in 1 .. n /\ old(i) # s
      BY <1>4, <1>5
    <3>2. g.seats[i] = f.seats[old(i)]
      BY <1>6
    <3> HIDE DEF old
    <3> QED BY <1>4, <3>1, <3>2 DEF Sound, OneSeatEach, Name
  <2>2. u \notin DOMAIN SeatsByUser(g)
    BY <1>8, <2>1 DEF SeatsByUser
  <2> QED BY <1>3, <2>2
<1>10. m >= 2 /\ Due(timers, "countdown") => Due(timers', "countdown")
  <2>1. SUFFICES ASSUME m >= 2, Due(timers, "countdown") PROVE Due(timers', "countdown")
    OBVIOUS
  <2>2. timers' \in StopAll(tms, u)
    BY <1>2, <1>8, <2>1 DEF LeaveWith
  <2>3. PICK tm \in tms : timers' \in Stop(tm, u)
    BY <2>2 DEF StopAll
  <2>4. Holds(tm, timers', {u}) /\ u \notin TableClocks
    BY <2>3, NoUserIsAClock, StopHolds
  <2>5. "countdown" \in TableClocks
    BY DEF TableClocks
  <2> QED BY <2>1, <2>3, <2>4, <2>5 DEF Holds
<1>11. g.started => PaidIn(g)
  BY <1>2, <1>7 DEF PaidInv
<1>12. saved'.started => PaidIn(saved')
  BY <1>3, <1>6, <1>11, StoredPaidIn
<1>13. KeepsGoing(game, timers) => MovesOn
  <2>1. SUFFICES ASSUME KeepsGoing(f, timers), ~f.started, ~f.intermission
                 PROVE  KeepsGoing(g, timers')
    BY <1>2, <1>3, <1>9 DEF MovesOn
  <2> QED BY <1>7, <1>10, <2>1 DEF KeepsGoing
<1> QED BY <1>3, <1>11, <1>12, <1>13, GoesOnIs

\* Only the timers changed, and not the one the table is on.
LEMMA OnlyTimersGoesOn ==
  ASSUME IInv, PaidInv, NEW tm, OnlyTimers({tm}),
         game.intermission /\ Len(game.seats) >= 2 /\ Due(timers, "intermission")
           => Due(tm, "intermission"),
         ~game.intermission /\ ClockDue(game) /\ Due(timers, "turn") => Due(tm, "turn"),
         ~game.intermission /\ ~game.started /\ CanStartHand(game) /\ Due(timers, "countdown")
           => Due(tm, "countdown")
  PROVE  GoesOn
<1>1. timers' = tm /\ game' = game /\ saved' = saved
  BY DEF OnlyTimers
<1>2. KeepsGoing(game, timers) => KeepsGoing(game, tm)
  BY DEF KeepsGoing
<1> QED BY <1>1, <1>2, GoesOnIs DEF MovesOn, PaidInv

LEMMA LeaveGoesOn ==
  ASSUME IInv, PaidInv, NEW u \in Users, LeaveTable(u) \/ SitOutEviction(u)
  PROVE  GoesOn
<1>1. timers \in Timers /\ u \in Kinds /\ u \notin TableClocks
  BY NoUserIsAClock DEF IInv
<1>2. CASE LeaveTable(u)
  <2>1. {timers} \in SUBSET Timers /\ \A tm \in {timers} : Holds(timers, tm, {})
    BY <1>1 DEF Holds
  <2> QED BY <1>2, <2>1, LeaveWithGoesOn DEF LeaveTable
<1>3. ASSUME NEW tm \in Callbacks(timers, u)
      PROVE  tm \in Timers /\ Holds(timers, tm, {})
  BY <1>1, CallbackHolds DEF Holds
<1>4. ASSUME NEW tm \in Callbacks(timers, u), LeaveWith(u, {tm})
      PROVE  GoesOn
  <2>1. {tm} \in SUBSET Timers /\ \A t \in {tm} : Holds(timers, t, {})
    BY <1>3
  <2> QED BY <1>4, <2>1, LeaveWithGoesOn
<1>5. ASSUME NEW tm \in Callbacks(timers, u), timers' = tm,
             UNCHANGED <<game, userMap, wallet, saved>>
      PROVE  GoesOn
  <2>1. OnlyTimers({tm})
    BY <1>5 DEF OnlyTimers
  <2>2. \A x \in TableClocks : Due(timers, x) => Due(tm, x)
    BY <1>3 DEF Holds
  <2> QED BY <2>1, <2>2, OnlyTimersGoesOn DEF TableClocks
<1> QED BY <1>2, <1>4, <1>5 DEF SitOutEviction

\* Coming back touches no stack of a hand, and looks at the countdown.
LEMMA ComesBackGoesOn ==
  ASSUME IInv, PaidInv, NEW s, NEW p \in PlayerRecords(Users),
         s \in Seats(game),
         p.name = Name(game, s), p.folded = game.seats[s].folded,
         p.allIn = game.seats[s].allIn,
         p.roundBet = game.seats[s].roundBet, p.totalBet = game.seats[s].totalBet,
         p.chips = game.seats[s].chips \/ ~InLiveHand(game, s),
         game' = WithSeat(game, s, p),
         NEW tm, Holds(timers, tm, {}), timers' \in EvaluateCountdown(tm, game'),
         saved' = Stored(game')
  PROVE  GoesOn
<1>1. PICK n \in 0 .. MaxPlayers : n \in Nat /\ Sound(game, n) /\ Seats(game) = 1 .. n
  BY IInvIs
<1>2. PICK f, g, t : f = game /\ g = game' /\ t = timers'
  OBVIOUS
<1>3. /\ Sound(f, n) /\ f \in TableGames(n) /\ s \in 1 .. n /\ g = WithSeat(f, s, p)
      /\ p.name = f.seats[s].name /\ p.roundBet = f.seats[s].roundBet
      /\ p.totalBet = f.seats[s].totalBet
      /\ p.folded = f.seats[s].folded /\ p.allIn = f.seats[s].allIn
      /\ p.chips = f.seats[s].chips \/ ~InLiveHand(f, s)
  BY <1>1, <1>2 DEF Name, Sound
<1>4. Sound(g, n) /\ \A i \in 1 .. n : g.seats[i] = IF i = s THEN p ELSE f.seats[i]
  <2>1. Sound(WithSeat(f, s, p), n) /\ OnlySeat(f, WithSeat(f, s, p), n, s, p)
    BY <1>1, <1>3, SetSeat
  <2> QED BY <1>3, <2>1 DEF OnlySeat
<1>5. g \in TableGames(n) /\ SameTurn(n, f, g)
  BY <1>1, <1>3, <1>4, SetSeatTurn DEF Sound
<1>6. ASSUME g.started
      PROVE  PaidIn(g)
  <2>1. f.started /\ ~f.intermission /\ PaidIn(f)
    BY <1>2, <1>3, <1>5, <1>6 DEF Sound, SameTurn, PaidInv
  <2>2. SameHands(n, f, g)
    BY <1>3, <1>4, <2>1 DEF SameHands, InLiveHand
  <2> QED BY <1>1, <1>3, <1>5, <2>1, <2>2, SameTurnIs
<1>7. saved'.started => PaidIn(saved')
  BY <1>1, <1>2, <1>4, <1>6, StoredPaidIn
<1>8. KeepsGoing(game, timers) => KeepsGoing(g, t)
  <2>1. PICK r : r = timers
    OBVIOUS
  <2>2. SUFFICES ASSUME KeepsGoing(f, r) PROVE KeepsGoing(g, t)
    BY <1>2, <2>1
  <2>3. \A x \in TableClocks : Due(r, x) => Due(tm, x)
    BY <2>1 DEF Holds
  <2>4. "intermission" \in TableClocks /\ "turn" \in TableClocks
    BY DEF TableClocks
  <2>5. /\ g.started \/ g.intermission => t = tm
        /\ ~(g.started \/ g.intermission) /\ CanStartHand(g) => Due(t, "countdown")
    <3>1. tm \in Timers /\ t \in EvaluateCountdown(tm, g)
      BY <1>2 DEF Holds
    <3>2. Cardinality(DealtInSeats(g)) \in Nat
      BY <1>1, <1>5, DealtInNat
    <3> QED BY <3>1, <3>2, EvaluateCountdownHolds
  <2>6. g.started = f.started /\ g.intermission = f.intermission
    BY <1>5 DEF SameTurn
  <2>7. /\ f.intermission /\ Due(r, "intermission") => Due(t, "intermission")
        /\ ~f.intermission /\ f.started /\ Due(r, "turn") => Due(t, "turn")
        /\ ~f.intermission /\ ~f.started /\ CanStartHand(g) => Due(t, "countdown")
    BY <2>3, <2>4, <2>5, <2>6
  <2> QED BY <1>1, <1>3, <1>5, <2>2, <2>7, StillGoing
<1> QED BY <1>2, <1>6, <1>7, <1>8, GoesOnIs DEF MovesOn

LEMMA SitInGoesOn ==
  ASSUME IInv, PaidInv, NEW u \in Users, SitIn(u)
  PROVE  GoesOn
<1>1. PICK n \in 0 .. MaxPlayers :
        /\ Seats(game) = 1 .. n
        /\ \A i \in 1 .. n : game.seats[i] \in PlayerRecords(Users)
        /\ \A v \in Seated : userMap[v] \in 1 .. n
  BY IInvIs
<1>2. PICK s : s = userMap[u]
  OBVIOUS
<1>3. s \in Seats(game)
  BY <1>1, <1>2 DEF SitIn
<1>4. PICK r \in PlayerRecords(Users) : r = game.seats[s]
  BY <1>1, <1>3
<1>5. PICK p \in PlayerRecords(Users) : p = [r EXCEPT !.sittingOut = FALSE]
  <2>1. [r EXCEPT !.sittingOut = FALSE] \in PlayerRecords(Users)
    BY DEF PlayerRecords
  <2> QED BY <2>1
<1>6. /\ p.name = r.name /\ p.folded = r.folded /\ p.allIn = r.allIn
      /\ p.roundBet = r.roundBet /\ p.totalBet = r.totalBet /\ p.chips = r.chips
  BY <1>5 DEF PlayerRecords
<1>7. game' = WithSeat(game, s, p)
  <2>1. game' = [game EXCEPT !.seats[s].sittingOut = FALSE]
    BY <1>2 DEF SitIn
  <2> QED BY <1>4, <1>5, <2>1 DEF WithSeat
<1>8. PICK tm \in Stop(timers, u) : timers' \in EvaluateCountdown(tm, game')
  BY DEF SitIn
<1>9. Holds(timers, tm, {})
  BY NoUserIsAClock, StopHolds DEF IInv, Holds
<1>10. saved' = Stored(game')
  BY DEF SitIn, Save
<1> QED BY <1>3, <1>4, <1>6, <1>7, <1>8, <1>9, <1>10, ComesBackGoesOn DEF Name

LEMMA RefillGoesOn ==
  ASSUME IInv, PaidInv, NEW u \in Users, NEW amount \in Refills, Refill(u, amount)
  PROVE  GoesOn
<1>1. PICK n \in 0 .. MaxPlayers :
        /\ Seats(game) = 1 .. n
        /\ \A i \in 1 .. n : game.seats[i] \in PlayerRecords(Users)
        /\ \A v \in Seated : userMap[v] \in 1 .. n
  BY IInvIs
<1>2. PICK s : s = userMap[u]
  OBVIOUS
<1>3. s \in Seats(game)
  BY <1>1, <1>2 DEF Refill
<1>4. PICK r \in PlayerRecords(Users) : r = game.seats[s]
  BY <1>1, <1>3
<1>5. PICK c \in Nat : c = r.chips + amount
  BY TableAssumption DEF PlayerRecords
<1>6. PICK p \in PlayerRecords(Users) : p = [r EXCEPT !.chips = c, !.sittingOut = FALSE]
  <2>1. [r EXCEPT !.chips = c, !.sittingOut = FALSE] \in PlayerRecords(Users)
    BY DEF PlayerRecords
  <2> QED BY <2>1
<1>7. /\ p.name = r.name /\ p.folded = r.folded /\ p.allIn = r.allIn
      /\ p.roundBet = r.roundBet /\ p.totalBet = r.totalBet
  BY <1>6 DEF PlayerRecords
<1>8. game' = WithSeat(game, s, p)
  <2>1. game' = [game EXCEPT !.seats[s] = [game.seats[s] EXCEPT !.chips = @ + amount,
                                                                !.sittingOut = FALSE]]
    BY <1>2 DEF Refill
  <2> QED BY <1>4, <1>5, <1>6, <2>1 DEF WithSeat
<1>9. PICK tm \in {timers} \cup Stop(timers, u) : timers' \in EvaluateCountdown(tm, game')
  BY DEF Refill
<1>10. Holds(timers, tm, {})
  <2>1. CASE tm = timers
    BY <2>1 DEF IInv, Holds
  <2>2. CASE tm \in Stop(timers, u)
    BY <2>2, NoUserIsAClock, StopHolds DEF IInv, Holds
  <2> QED BY <2>1, <2>2
<1>11. saved' = Stored(game') /\ ~InLiveHand(game, s)
  BY <1>2 DEF Refill, Save
<1> QED BY <1>3, <1>4, <1>7, <1>8, <1>9, <1>10, <1>11, ComesBackGoesOn DEF Name

\* A hand that is dealt is on the clock of somebody who can act, with another
\* to play against, or it is over at once and paid for.
LEMMA DealGoesOn ==
  ASSUME NEW n \in Nat, NEW f, Sound(f, n), CanStartHand(f),
         NEW h \in StartHand([f EXCEPT !.intermission = FALSE])
  PROVE  IF h.started THEN /\ PaidIn(h) /\ ClockDue(h) /\ ~h.intermission
                           /\ Cardinality(ActiveSeats(h)) >= 2
                      ELSE PaidFor(h)
<1>1. PICK g : g = [f EXCEPT !.intermission = FALSE]
  OBVIOUS
<1>2. /\ f \in TableGames(n) /\ g \in TableGames(n) /\ g.seats = f.seats /\ g.orbit = f.orbit
  BY <1>1 DEF Sound, TableGames
<1>3. Seats(f) = 1 .. n /\ Seats(g) = 1 .. n
  BY <1>2, TableSeats
<1>4. CanStartHand(g)
  BY <1>2, <1>3 DEF CanStartHand, DealtInSeats
<1>5. PICK c : c = [g EXCEPT !.payouts = {}]
  OBVIOUS
<1>6. c \in Games(n, Users) /\ c.seats = g.seats
  <2>1. c \in TableGames(n) /\ c.seats = g.seats /\ c.payouts = {}
    BY <1>2, <1>5 DEF TableGames
  <2> QED BY <2>1, TableGamesAre
<1>7. DealIn(c) = DealIn(g)
  BY <1>2, <1>5, <1>6 DEF DealIn, SeatsBy, Seats, TableGames
<1>8. CanStartHand(c)
  BY <1>3, <1>4, <1>6, SeatsOf DEF CanStartHand, DealtInSeats
<1>9. h \in StartHand(c)
  BY <1>1, <1>4, <1>7, <1>8 DEF StartHand
<1>10. SmallBlind \in Nat \ {0} /\ BigBlind \in Nat \ {0} /\ SmallBlind \in Nat /\ BigBlind \in Nat
  BY BlindsAssumption
<1>11. IF h.started THEN PaidIn(h) ELSE PaidFor(h)
  BY <1>6, <1>8, <1>9, <1>10, StartHandPaysIn
<1>12. h \in Games(n, Users) /\ (h.started => OnTurn(h) /\ ~h.intermission)
  BY <1>6, <1>8, <1>9, <1>10, StartHandIs
<1>13. h \in TableGames(n)
  BY <1>12, TableGamesAre
<1>14. h.started => ClockDue(h)
  BY <1>12, <1>13, ClockDueIs DEF OnTurn
<1> QED BY <1>11, <1>12, <1>14 DEF OnTurn

LEMMA DealWithGoesOn ==
  ASSUME IInv, PaidInv, NEW tms \in SUBSET Timers, DealWith(tms)
  PROVE  GoesOn
<1>1. PICK n \in 0 .. MaxPlayers :
        n \in Nat /\ Sound(game, n) /\ game \in TableGames(n)
  BY IInvIs
<1>2. PICK f, e : f = game /\ e = [f EXCEPT !.intermission = FALSE]
  OBVIOUS
<1>3. PICK g \in StartHand(e) :
        /\ game' = g /\ timers' \in ResetTurnTimer(tms, g)
        /\ saved' = IF CanStartHand(f) THEN Stored(g) ELSE saved
  BY <1>2 DEF DealWith
<1>4. Sound(f, n) /\ f \in TableGames(n) /\ (f.started => PaidIn(f))
  BY <1>1, <1>2 DEF PaidInv
<1>5. ClockDue(g) => Due(timers', "turn")
  BY <1>3, ResetTurnTimerHolds
<1>6. CASE CanStartHand(f)
  <2>1. IF g.started THEN /\ PaidIn(g) /\ ClockDue(g) /\ ~g.intermission
                          /\ Cardinality(ActiveSeats(g)) >= 2
                     ELSE PaidFor(g)
    BY <1>1, <1>2, <1>3, <1>4, <1>6, DealGoesOn
  <2>2. Sound(g, n)
    BY <1>1, <1>2, <1>3, <1>4, DealIs
  <2>3. saved'.started => PaidIn(saved')
    BY <1>1, <1>3, <1>6, <2>1, <2>2, StoredPaidIn
  <2>4. MovesOn
    BY <1>3, <1>5, <2>1 DEF MovesOn, KeepsGoing, PaidFor
  <2> QED BY <1>3, <2>1, <2>3, <2>4, GoesOnIs
<1>7. CASE ~CanStartHand(f)
  <2>1. e \in TableGames(n) /\ e.seats = f.seats /\ e.started = f.started /\ ~e.intermission
    BY <1>2, <1>4 DEF TableGames
  <2>2. ~CanStartHand(e)
    BY <1>7, <2>1 DEF CanStartHand, DealtInSeats, Seats
  <2>3. g = e
    BY <1>3, <2>2 DEF StartHand
  <2>4. f.started => e = f
    <3>1. f.started => ~f.intermission
      BY <1>4 DEF Sound
    <3> QED BY <1>2, <1>4, <3>1 DEF TableGames
  <2>5. saved'.started => PaidIn(saved')
    BY <1>3, <1>7 DEF PaidInv
  <2>6. KeepsGoing(f, timers) => KeepsGoing(g, timers')
    BY <1>5, <2>1, <2>2, <2>3, <2>4 DEF KeepsGoing
  <2> QED BY <1>2, <1>3, <1>4, <2>1, <2>3, <2>4, <2>5, <2>6, GoesOnIs DEF MovesOn
<1> QED BY <1>6, <1>7

LEMMA FireCountdownGoesOn ==
  ASSUME IInv, PaidInv, FireCountdown
  PROVE  GoesOn
<1>1. PICK after \in Callbacks(timers, "countdown") :
        \/ /\ Len(game.seats) < 2 \/ game.started
           /\ OnlyTimers({Drop(after, "countdown")})
        \/ DealWith({Drop(after, "countdown")})
  BY Zenon DEF FireCountdown
<1>2. PICK tm : tm = Drop(after, "countdown")
  OBVIOUS
<1>3. Holds(timers, tm, {"countdown"})
  <2>1. "countdown" \in Kinds /\ timers \in Timers
    BY DEF Kinds, IInv
  <2> QED BY <1>2, <2>1, CallbackHolds
<1>4. tm \in Timers
  BY <1>3 DEF Holds
<1>5. CASE DealWith({tm})
  BY <1>4, <1>5, DealWithGoesOn
<1>6. CASE (Len(game.seats) < 2 \/ game.started) /\ OnlyTimers({tm})
  <2>1. /\ Due(timers, "intermission") => Due(tm, "intermission")
        /\ Due(timers, "turn") => Due(tm, "turn")
    BY <1>3 DEF Holds, TableClocks
  <2>2. game.started \/ ~CanStartHand(game)
    <3>1. PICK n \in 0 .. MaxPlayers :
            n \in Nat /\ game \in TableGames(n) /\ Len(game.seats) = n
      BY IInvIs
    <3>2. CanStartHand(game) => n >= 2
      BY <3>1, DealNeedsTwo
    <3> QED BY <1>6, <3>1, <3>2
  <2> QED BY <1>6, <2>1, <2>2, OnlyTimersGoesOn
<1> QED BY <1>1, <1>2, <1>5, <1>6

LEMMA FireNextHandGoesOn ==
  ASSUME IInv, PaidInv, FireNextHand
  PROVE  GoesOn
<1>1. PICK after \in Callbacks(timers, "intermission") :
        \/ /\ ~game.intermission \/ Len(game.seats) < 2
           /\ OnlyTimers({Drop(after, "intermission")})
        \/ DealWith({Drop(after, "intermission")})
        \/ /\ ~CanStartHand(game)
           /\ game' = [game EXCEPT !.intermission = FALSE, !.started = FALSE]
           /\ saved' = Stored(game')
  BY Zenon DEF FireNextHand, Save
<1>2. PICK tm : tm = Drop(after, "intermission")
  OBVIOUS
<1>3. Holds(timers, tm, {"intermission"})
  <2>1. "intermission" \in Kinds /\ timers \in Timers
    BY DEF Kinds, IInv
  <2> QED BY <1>2, <2>1, CallbackHolds
<1>4. tm \in Timers
  BY <1>3 DEF Holds
<1>5. CASE DealWith({tm})
  BY <1>4, <1>5, DealWithGoesOn
<1>6. CASE (~game.intermission \/ Len(game.seats) < 2) /\ OnlyTimers({tm})
  <2>1. /\ Due(timers, "countdown") => Due(tm, "countdown")
        /\ Due(timers, "turn") => Due(tm, "turn")
    BY <1>3 DEF Holds, TableClocks
  <2>2. PICK n \in 0 .. MaxPlayers : n \in Nat /\ Len(game.seats) = n
    BY IInvIs
  <2>3. ~(game.intermission /\ Len(game.seats) >= 2)
    BY <1>6, <2>2
  <2> QED BY <1>6, <2>1, <2>3, OnlyTimersGoesOn
<1>7. CASE /\ ~CanStartHand(game)
           /\ game' = [game EXCEPT !.intermission = FALSE, !.started = FALSE]
           /\ saved' = Stored(game')
  <2>1. PICK n \in 0 .. MaxPlayers : n \in Nat /\ Sound(game, n) /\ game \in TableGames(n)
    BY IInvIs
  <2>2. PICK f, g : f = game /\ g = game'
    OBVIOUS
  <2>3. g \in TableGames(n) /\ g.seats = f.seats /\ ~g.started /\ ~g.intermission
    BY <1>7, <2>1, <2>2 DEF TableGames
  <2>4. ~CanStartHand(g)
    BY <1>7, <2>2, <2>3 DEF CanStartHand, DealtInSeats, Seats
  <2>5. ~saved'.started
    BY <1>7, <2>2, <2>3 DEF Stored, TableGames
  <2>6. KeepsGoing(g, timers')
    BY <2>3, <2>4 DEF KeepsGoing
  <2> QED BY <2>2, <2>3, <2>5, <2>6, GoesOnIs DEF MovesOn
<1> QED BY <1>1, <1>2, <1>5, <1>6, <1>7

LEMMA StartHandManuallyGoesOn ==
  ASSUME IInv, PaidInv, StartHandManually
  PROVE  GoesOn
<1>1. PICK tms : tms = StopAll(Stop(timers, "countdown"), "intermission")
  OBVIOUS
<1>2. "countdown" \in Kinds /\ "intermission" \in Kinds /\ timers \in Timers
  BY DEF Kinds, IInv
<1>3. ASSUME NEW t \in tms
      PROVE  t \in Timers
  <2>1. PICK tm \in Stop(timers, "countdown") : t \in Stop(tm, "intermission")
    BY <1>1, <1>3 DEF StopAll
  <2>2. tm \in Timers
    BY <1>2, StopHolds DEF Holds
  <2> QED BY <1>2, <2>1, <2>2, StopHolds DEF Holds
<1>4. tms \in SUBSET Timers
  BY <1>3
<1> QED BY <1>1, <1>4, DealWithGoesOn DEF StartHandManually

\* A decision of somebody who can act leaves the next one on the clock, or ends
\* the hand with a winner to wait for the next deal.
LEMMA AfterActionGoesOn ==
  ASSUME IInv, PaidInv, game.started, TurnSeat(game) \in ActionableSeats(game),
         NEW action \in Decisions, NEW g \in HumanAction(game, TurnSeat(game), action, 0),
         NEW timedOut \in SUBSET Seats(game), NEW tm \in Timers,
         AfterAction(g, timedOut, tm)
  PROVE  GoesOn
<1>1. PICK n \in 0 .. MaxPlayers :
        n \in Nat /\ Sound(game, n) /\ game \in TableGames(n) /\ Seats(game) = 1 .. n
  BY IInvIs
<1>2. PICK f : f = game
  OBVIOUS
<1>3. /\ Sound(f, n) /\ f \in TableGames(n) /\ f.started /\ PaidIn(f) /\ ~f.intermission
      /\ Seats(f) = 1 .. n /\ TurnSeat(f) \in ActionableSeats(f)
      /\ g \in HumanAction(f, TurnSeat(f), action, 0)
  BY <1>1, <1>2 DEF PaidInv, Sound
<1>4. f \in Games(n, Users) /\ RoundWithinHand(f) /\ PotCovers(f) /\ f.payouts = {}
  BY <1>1, <1>3, TableGamesAre DEF Sound
<1>5. PICK i \in 1 .. n : i = TurnSeat(f)
  BY <1>3 DEF ActionableSeats, ActiveSeats
<1>6. BigBlind \in Nat /\ 0 \in Int
  BY BlindsAssumption
<1>7. /\ Sound(g, n) /\ g \in Games(n, Users) /\ IsFiniteSet(g.payouts)
      /\ SamePlayers(f, g)
  <2>1. n > 0
    BY <1>1, <1>5
  <2> QED BY <1>1, <1>3, <2>1, DecisionIs
<1>8. g.started => OnTurn(g)
  BY <1>1, <1>3, <1>4, <1>5, <1>6, HumanActionIs DEF Running
<1>9. /\ g.started => PaidIn(g)
      /\ ~g.started /\ Cardinality(ActiveSeats(f)) >= 2 => PaidFor(g)
  BY <1>1, <1>3, <1>4, <1>6, HumanActionPaysIn
<1>10. PICK ended \in BOOLEAN : ended = (g.intermission /\ g.lastWinner)
  OBVIOUS
<1>11. PICK idle : idle = {j \in timedOut : ~g.seats[j].sittingOut}
  OBVIOUS
<1>12. PICK paid : paid = IF ended THEN Raked(SatOut(g, idle)) ELSE SatOut(g, idle)
  OBVIOUS
<1>13. PICK broke : broke = IF ended THEN Broke(paid) ELSE {}
  OBVIOUS
<1>14. PICK final : final = SatOut(paid, broke)
  OBVIOUS
<1>15. /\ game' = final /\ saved' = Stored(g)
       /\ timers' \in ResetTurnTimer(
                       Evictions(tm, {Name(g, j) : j \in idle \cup broke}, ended), final)
  <2>1. game' = final
    BY <1>10, <1>11, <1>12, <1>13, <1>14, Zenon DEF AfterAction
  <2>2. saved' = Stored(g)
    BY Zenon DEF AfterAction, Save
  <2>3. timers' \in ResetTurnTimer(
                     Evictions(tm, {Name(g, j) : j \in idle \cup broke}, ended), final)
    BY <1>10, <1>11, <1>12, <1>13, <1>14, ZenonT(30) DEF AfterAction, Evictions
  <2> QED BY <2>1, <2>2, <2>3
<1>16. Settled(n, g, idle, paid, broke, final)
  <2>1. paid = SatOut(g, idle) \/ paid = Raked(SatOut(g, idle))
    BY <1>12
  <2> QED BY <1>1, <1>7, <1>14, <2>1, SettledIs
<1>17. /\ final \in TableGames(n) /\ final.started = g.started
       /\ final.intermission = g.intermission /\ Len(final.seats) = n
  BY <1>1, <1>16, TableSeats DEF Settled
<1>18. PICK names \in SUBSET Users : names = {Name(g, j) : j \in idle \cup broke}
  <2>1. Seats(paid) = 1 .. n
    BY <1>1, <1>16, SeatsOf DEF Settled
  <2>2. broke \in SUBSET (1 .. n) /\ idle \in SUBSET (1 .. n)
    BY <1>1, <1>11, <1>13, <2>1 DEF Broke
  <2>3. \A j \in 1 .. n : Name(g, j) \in Users
    BY <1>1, <1>7, SeatsOf DEF PlayerRecords, Name
  <2> QED BY <2>2, <2>3
<1>19. /\ ClockDue(final) => Due(timers', "turn")
       /\ ended => Due(timers', "intermission")
  BY <1>15, <1>18, SettledTimersHold
<1>20. saved'.started => PaidIn(saved')
  BY <1>1, <1>7, <1>9, <1>15, StoredPaidIn
<1>21. g.started => ~g.intermission
  BY <1>7 DEF Sound
<1>22. ASSUME g.started
       PROVE  PaidIn(final) /\ KeepsGoing(final, timers')
  <2>1. ~ended /\ paid = SatOut(g, idle) /\ final = SatOut(paid, {})
    BY <1>10, <1>12, <1>13, <1>14, <1>21, <1>22
  <2>2. SameTurn(n, g, paid) /\ paid \in Games(n, Users) /\ SameHands(n, g, paid)
    BY <1>1, <1>7, <2>1, SatOutTurn, SatOutIs DEF SameHands
  <2>3. SameTurn(n, paid, final) /\ SameHands(n, paid, final)
    BY <1>1, <2>1, <2>2, SatOutTurn, SatOutIs DEF SameHands
  <2>4. SameTurn(n, g, final) /\ SameHands(n, g, final)
    BY <2>2, <2>3 DEF SameTurn, SameHands
  <2>5. g \in TableGames(n)
    BY <1>7 DEF Sound
  <2>6. PaidIn(final) /\ ActiveSeats(final) = ActiveSeats(g) /\ (ClockDue(final) <=> ClockDue(g))
    BY <1>1, <1>9, <1>17, <1>22, <2>4, <2>5, SameTurnIs
  <2>7. ClockDue(g) /\ Cardinality(ActiveSeats(g)) >= 2
    BY <1>1, <1>8, <1>21, <1>22, <2>5, ClockDueIs DEF OnTurn
  <2> QED BY <1>17, <1>19, <1>21, <1>22, <2>6, <2>7 DEF KeepsGoing
<1>23. ASSUME ~g.started, KeepsGoing(f, timers)
       PROVE  KeepsGoing(final, timers')
  <2>1. Cardinality(ActiveSeats(f)) >= 2
    BY <1>3, <1>23 DEF KeepsGoing
  <2>2. g.intermission /\ ended
    BY <1>9, <1>10, <1>23, <2>1 DEF PaidFor
  <2>3. n >= 2
    <3>1. IsFiniteSet(ActiveSeats(f)) /\ ActiveSeats(f) \in SUBSET (1 .. n)
      BY <1>1, <1>4, PartsOfSeats
    <3>2. PICK x \in ActiveSeats(f), y \in ActiveSeats(f) : x # y
      BY <2>1, <3>1, TwoOrMore
    <3> QED BY <1>1, <3>1, <3>2
  <2> QED BY <1>17, <1>19, <2>2, <2>3 DEF KeepsGoing
<1> QED BY <1>2, <1>15, <1>17, <1>20, <1>22, <1>23, GoesOnIs DEF MovesOn

LEMMA SubmitActionGoesOn ==
  ASSUME IInv, PaidInv, NEW u \in Users, NEW action \in Decisions, SubmitAction(u, action)
  PROVE  GoesOn
<1>1. PICK g \in HumanAction(game, TurnSeat(game), action, 0) : AfterAction(g, {}, timers)
  BY DEF SubmitAction
<1>2. game.started /\ TurnSeat(game) \in ActionableSeats(game) /\ timers \in Timers
  BY DEF SubmitAction, MayAct, IInv
<1> QED BY <1>1, <1>2, AfterActionGoesOn

LEMMA HandleTurnTimeoutGoesOn ==
  ASSUME IInv, PaidInv, HandleTurnTimeout
  PROVE  GoesOn
<1>1. PICK tm \in Callbacks(timers, "turn") :
        \/ ~ClockDue(game) /\ OnlyTimers({tm})
        \/ /\ ClockDue(game)
           /\ \E action \in {"check", "fold"} :
                \E g \in HumanAction(game, TurnSeat(game), action, 0) :
                  AfterAction(g, {TurnSeat(game)}, tm)
  BY Zenon DEF HandleTurnTimeout
<1>2. Holds(timers, tm, {"turn"})
  <2>1. "turn" \in Kinds /\ timers \in Timers
    BY DEF Kinds, IInv
  <2> QED BY <2>1, CallbackHolds
<1>3. CASE ~ClockDue(game) /\ OnlyTimers({tm})
  <2>1. /\ Due(timers, "countdown") => Due(tm, "countdown")
        /\ Due(timers, "intermission") => Due(tm, "intermission")
    BY <1>2 DEF Holds, TableClocks
  <2> QED BY <1>3, <2>1, OnlyTimersGoesOn
<1>4. ASSUME ClockDue(game), NEW action \in {"check", "fold"},
             NEW g \in HumanAction(game, TurnSeat(game), action, 0),
             AfterAction(g, {TurnSeat(game)}, tm)
      PROVE  GoesOn
  <2>1. PICK n \in 0 .. MaxPlayers : n \in Nat /\ game \in TableGames(n)
    BY IInvIs
  <2>2. game.started /\ TurnSeat(game) \in ActionableSeats(game)
    BY <1>4, <2>1, ClockDueIs
  <2>3. {TurnSeat(game)} \in SUBSET Seats(game) /\ action \in Decisions /\ tm \in Timers
    BY <1>2, <1>4, <2>2 DEF ActionableSeats, ActiveSeats, Decisions, Holds
  <2> QED BY <1>4, <2>2, <2>3, AfterActionGoesOn
<1> QED BY <1>1, <1>3, <1>4

LEMMA StepGoesOn ==
  ASSUME IInv, PaidInv, [Next]_vars
  PROVE  PaidInv' /\ (KeepsGoing(game, timers) => MovesOn \/ Restart)
<1>1. CASE UNCHANGED vars
  <2>1. game' = game /\ saved' = saved /\ timers' = timers
    BY <1>1 DEF vars
  <2>2. GoesOn
    BY <2>1, GoesOnIs DEF PaidInv, MovesOn
  <2> QED BY <2>2 DEF GoesOn
<1>2. ASSUME NEW u \in Users,
             JoinTable(u) \/ LeaveTable(u) \/ SitOutEviction(u) \/ SitIn(u)
      PROVE  GoesOn
  BY <1>2, JoinGoesOn, LeaveGoesOn, SitInGoesOn
<1>3. ASSUME NEW u \in Users, NEW amount \in Refills, Refill(u, amount)
      PROVE  GoesOn
  BY <1>3, RefillGoesOn
<1>4. CASE FireCountdown \/ FireNextHand \/ StartHandManually
  BY <1>4, FireCountdownGoesOn, FireNextHandGoesOn, StartHandManuallyGoesOn DEF GoesOn
<1>5. ASSUME NEW u \in Users, NEW action \in Decisions, SubmitAction(u, action)
      PROVE  GoesOn
  BY <1>5, SubmitActionGoesOn
<1>6. CASE HandleTurnTimeout
  BY <1>6, HandleTurnTimeoutGoesOn DEF GoesOn
<1>7. CASE Restart
  <2>1. game' = saved /\ saved' = saved
    BY <1>7 DEF Restart
  <2>2. PaidInv'
    BY <2>1 DEF PaidInv
  <2> QED BY <1>7, <2>2
<1> QED BY <1>1, <1>2, <1>3, <1>4, <1>5, <1>6, <1>7 DEF Next, GoesOn

\* Everyone in a running hand has chips to go on with or all of them bet, and
\* has bet before this round once the first is over, whatever is dealt, decided,
\* given up, refilled or brought back by a restart: so every hand that ends has
\* somebody to pay (rotateDealerAndBlinds, commitBet, startBettingRound,
\* LeaveTable, Refill, loadByTableID).
THEOREM PlayersArePaidIn == Spec => []PaidInv
<1>1. Init => PaidInv
  <2>1. ASSUME Init PROVE ~game.started /\ ~saved.started
    <3>1. IInv
      BY <2>1, InitSound
    <3>2. PICK n \in Nat : Sound(game, n) /\ game \in TableGames(n)
      BY <3>1, IInvIs
    <3>3. saved = Stored(game) /\ ~game.started
      BY <2>1 DEF Init, NewGame
    <3> QED BY <3>2, <3>3 DEF Stored, TableGames
  <2> QED BY <2>1 DEF PaidInv
<1>2. IInv /\ PaidInv /\ [Next]_vars => PaidInv'
  BY StepGoesOn
<1> QED BY <1>1, <1>2, Inductive, PTL DEF Spec

\* Only a departure during a hand or the pause after it, a deal that is over at
\* once, and a restart can stop a table that keeps going; a late callback, a
\* refill, a player who sits out or comes back, a manual start and a time-out
\* leave it with the clock it needs (resetTurnTimer, fireNextHand,
\* evaluateCountdown, handleTurnTimeout, resolveSidePots).
THEOREM TableGoesOn == Spec => OnlyTwoThingsStopTheTable
<1>1. IInv /\ PaidInv /\ [Next]_vars
        => [ KeepsGoing(game, timers)
             => \/ KeepsGoing(game', timers') \/ Restart
                \/ (game.started \/ game.intermission) /\ DOMAIN userMap' # Seated
                \/ game'.intermission /\ game'.payouts # {} ]_vars
  BY StepGoesOn DEF MovesOn
<1> QED BY <1>1, Inductive, PlayersArePaidIn, PTL DEF Spec, OnlyTwoThingsStopTheTable
=============================================================================
