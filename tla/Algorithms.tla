----------------------------- MODULE Algorithms -----------------------------
(***************************************************************************)
(* The pure parts of the code, asked one question each and compared with a  *)
(* definition of their own: who wins a deal, what the receipt verifier      *)
(* makes of the bank's answers, how long a session lives and what a         *)
(* player's history adds up to.                                             *)
(***************************************************************************)
EXTENDS HandEvaluator, Receipts, Sessions, History

CONSTANTS
  Decks,     \* the nine cards a deal of two players may have come from
  MaxDays,   \* bound: the days between two visits
  MaxVisits, \* bound: the visits of a session
  HandRows,  \* what a hand may be to a player
  MaxRows    \* bound: the hands a player has played

VARIABLE input

Nothing == [kind |-> "nothing"]

Init == input = Nothing

Deal ==
  \E deck \in Decks : \E board \in kSubset(5, deck) : \E hole \in kSubset(2, deck \ board) :
    input' = [kind |-> "deal", pools |-> <<board \cup hole, deck \ hole>>]

Ask ==
  \E calls \in [1..Attempts -> Calls] : input' = [kind |-> "receipt", calls |-> calls]

Visit ==
  \E n \in 1..MaxVisits : \E visits \in [1..n -> [after : 1..MaxDays, writes : BOOLEAN]] :
    input' = [kind |-> "session", visits |-> visits]

Play ==
  \E n \in 0..MaxRows : \E rows \in [1..n -> HandRows], late \in 0..Min({n, 1}) :
    input' = [kind |-> "history", rows |-> rows, late |-> late]

Next == input = Nothing /\ (Ask \/ Visit \/ Play \/ Deal)

Spec == Init /\ [][Next]_input
-----------------------------------------------------------------------------
(***************************************************************************)
(* Poker's own rules, of five cards: the pattern of the ranks, then the     *)
(* ranks from the one held most often down; the ace is below the two in     *)
(* its lowest straight only.  The whole is one number in base 14.           *)
(***************************************************************************)
Wheel == {Ace, 1, 2, 3, 4}

Counts(five) == [r \in Ranks(five) |-> NumCardsByRank(five, r)]
Flush(five) == Cardinality(Suits(five)) = 1
Straight(five) ==
  /\ Cardinality(Ranks(five)) = 5
  /\ Ranks(five) = Wheel \/ Max(Ranks(five)) - Min(Ranks(five)) = 4

Pattern(five) ==
  LET most == Max({Counts(five)[r] : r \in Ranks(five)})
      kinds == Cardinality(Ranks(five))
  IN  CASE Straight(five) /\ Flush(five) -> 9
        [] most = 4 -> 8
        [] most = 3 /\ kinds = 2 -> 7
        [] Flush(five) /\ ~Straight(five) -> 6
        [] Straight(five) /\ ~Flush(five) -> 5
        [] most = 3 /\ kinds = 3 -> 4
        [] most = 2 /\ kinds = 3 -> 3
        [] kinds = 4 -> 2
        [] OTHER -> 1

Weight(five, r) ==
  14 * Counts(five)[r] + IF Ranks(five) = Wheel /\ r = Ace THEN 0 ELSE r

\* The k-th of the ranks, each as often as it is held.
RankAt(five, k) ==
  CHOOSE r \in Ranks(five) :
    LET above == {c \in five : Weight(five, c.rank) > Weight(five, r)}
    IN  Cardinality(above) < k /\ k <= Cardinality(above) + Counts(five)[r]

Worth(five) ==
  FoldLeft(LAMBDA worth, k : worth * 14 + RankAt(five, k), Pattern(five), <<1, 2, 3, 4, 5>>)

BestWorth(pool) == Max({Worth(five) : five \in kSubset(5, pool)})

(***************************************************************************)
(* The pot goes to whoever holds the best five of seven cards, or to both:  *)
(* the solvers try whole patterns over seven cards and never enumerate five *)
(* of them (Solve, Compare, Winners).                                       *)
(***************************************************************************)
TheBestFiveWin ==
  input.kind = "deal" =>
    LET worth(i) == BestWorth(input.pools[i])
    IN  Winners(<<Solve(input.pools[1]), Solve(input.pools[2])>>)
          = {i \in 1..2 : worth(i) >= worth(3 - i)}

(***************************************************************************)
(* "A verdict is a verdict", and no attempt is lost: what Verify says is    *)
(* the first thing the bank says in time, or a CDN in its place, however    *)
(* slow the attempts before it were; a CDN's page is never a refusal; only  *)
(* when nobody says anything is the receipt unjudged (Verify, Budget).      *)
(***************************************************************************)
TheFirstVerdictCounts ==
  input.kind = "receipt" =>
    LET inTime == {k \in 1..Attempts : input.calls[k].time <= AttemptTimeout}
        from(call) == IF call.html THEN "blocked"
                      ELSE IF call.reference THEN "receipt" ELSE "rejected"
        said == {k \in inTime : input.calls[k].status # "other" \/ input.calls[k].html}
    IN  Verify(input.calls, Budget)
          = IF said = {} THEN "unjudged" ELSE from(input.calls[Min(said)])

(***************************************************************************)
(* "A session that keeps being used keeps being renewed": whoever comes     *)
(* back within the renewal window is not signed out before the ceiling, so  *)
(* long as the renewals are written; whoever stays away for the idle time,  *)
(* and any session at its ceiling, is (slideSession).                       *)
(***************************************************************************)
SessionsLiveWhileUsed ==
  input.kind = "session" =>
    LET visits == input.visits
        day(k) == MapThenSumSet(LAMBDA j : visits[j].after, 1..k)
        last == Len(visits)
        alive == AfterVisits(visits).alive
    IN  /\ (/\ \A k \in DOMAIN visits : visits[k].after <= SessionRenewWindow /\ visits[k].writes
            /\ day(last) < SessionAbsoluteTTL) => alive
        /\ (\/ \E k \in DOMAIN visits : visits[k].after >= SessionIdleTTL
            \/ day(last) >= SessionAbsoluteTTL) => ~alive

(***************************************************************************)
(* "so the line ends at the player's true all-time net rather than at the   *)
(* window's own sum": the chart ends at the net shown beside it, also when  *)
(* a hand was recorded between the two reads; when none was, each point is  *)
(* the net up to its hand.  The rooms add up to the totals; and the pages   *)
(* of a room, one after the other, are its hands, each once and the latest  *)
(* first (Stats, Rooms, RoomHands).                                         *)
(***************************************************************************)
TheHistoryAddsUp ==
  input.kind = "history" =>
    LET rows  == input.rows
        stats == Stats(SubSeq(rows, 1, Len(rows) - input.late), rows)
        rooms == ListUserHistoryRooms(rows)
        shown == Len(stats.trend)
        paged(room, size) ==
          FoldLeft(LAMBDA all, page : all \o RoomHands(rows, room, page, size).hands, <<>>,
                   [page \in 1..RoomHands(rows, room, 1, size).totalPages |-> page])
    IN  /\ rows # <<>> => stats.trend[shown].cumulative = stats.totals.net
        /\ input.late = 0 => \A k \in 1..shown :
             stats.trend[k].cumulative = NetOf(SubSeq(rows, 1, Len(rows) - shown + k))
        /\ \A room \in {r.room : r \in rooms}, size \in 0..MaxPageSize + 1 :
             Reverse(paged(room, size)) = SelectSeq(rows, LAMBDA row : row.room = room)
        /\ input.late = 0 =>
             /\ stats.totals.hands = MapThenSumSet(LAMBDA r : r.hands, rooms)
             /\ stats.totals.net = MapThenSumSet(LAMBDA r : r.net, rooms)
             /\ stats.totals.handsWon = MapThenSumSet(LAMBDA r : r.handsWon, rooms)
=============================================================================
