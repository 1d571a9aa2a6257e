------------------------------ MODULE History ------------------------------
(***************************************************************************)
(* A player's own history (history_service.go, history.sql.go): the rooms   *)
(* he played in, the hands of a room a page at a time, his totals and the   *)
(* chart of his running net.  His rows of hand_players are a sequence,      *)
(* oldest first; hands written at the same moment are ordered by their id.  *)
(* HandRecord.tla says what a row holds.                                    *)
(***************************************************************************)
EXTENDS Integers, Sequences, FiniteSets, FiniteSetsExt, SequencesExt

CONSTANTS
  TrendLength,       \* trendLength, the hands the chart covers
  MaxPageSize,
  DefaultPageSize

ASSUME HistoryAssumption ==
  /\ {TrendLength, MaxPageSize, DefaultPageSize} \subseteq Nat \ {0}

NetOf(rows) == MapThenSumSet(LAMBDA k : rows[k].net, DOMAIN rows)
Won(row) == row.net > 0

RowsOf(rows, room) == SelectSeq(rows, LAMBDA row : row.room = room)

\* GetUserHandTotals, the counts Stats passes on.
GetUserHandTotals(rows) ==
  [hands        |-> Len(rows),
   handsWon     |-> Quantify(DOMAIN rows, LAMBDA k : Won(rows[k])),
   handsFolded  |-> Quantify(DOMAIN rows, LAMBDA k : rows[k].folded),
   showdowns    |-> Quantify(DOMAIN rows, LAMBDA k : rows[k].showedDown),
   showdownsWon |-> Quantify(DOMAIN rows, LAMBDA k : rows[k].showedDown /\ Won(rows[k])),
   net          |-> NetOf(rows),
   biggestWin   |-> Max({0} \cup {rows[k].net : k \in DOMAIN rows}),
   rooms        |-> Cardinality({rows[k].room : k \in DOMAIN rows})]

\* ListUserHistoryRooms, in any order.
ListUserHistoryRooms(rows) ==
  {[room |-> room, hands |-> Len(RowsOf(rows, room)), net |-> NetOf(RowsOf(rows, room)),
    handsWon |-> Quantify(DOMAIN RowsOf(rows, room), LAMBDA k : Won(RowsOf(rows, room)[k]))] :
     room \in {rows[k].room : k \in DOMAIN rows}}

\* The rows from here on, as LIMIT and OFFSET take them.
Slice(rows, offset, limit) == SubSeq(rows, offset + 1, Min({offset + limit, Len(rows)}))

ListUserHandsInRoom(rows, room, offset, limit) ==
  Slice(Reverse(RowsOf(rows, room)), offset, limit)

\* RoomHands: pages are counted from 1, and what is no page is the first.
RoomHands(rows, room, page, pageSize) ==
  LET total == Len(RowsOf(rows, room))
      size  == IF pageSize \in 1..MaxPageSize THEN pageSize ELSE DefaultPageSize
  IN  [hands |-> ListUserHandsInRoom(rows, room, (Max({page, 1}) - 1) * size, size),
       totalPages |-> (total + size - 1) \div size]

ListUserRecentNets(rows) == Slice(Reverse(rows), 0, TrendLength)

\* Mutant: the chart starts from nothing.
TrendFromZero(totals, rows) ==
  LET recent == ListUserRecentNets(rows)
      line(k) == [net |-> recent[k].net, cumulative |-> NetOf(SubSeq(recent, k, Len(recent)))]
  IN  Reverse([k \in DOMAIN recent |-> line(k)])

\* The chart starts where the hands before it left off.
Trend(totals, rows) ==
  LET recent  == ListUserRecentNets(rows)
      before  == totals.net - NetOf(recent)
      line(k) == [net |-> recent[k].net,
                  cumulative |-> before + NetOf(SubSeq(recent, k, Len(recent)))]
  IN  Reverse([k \in DOMAIN recent |-> line(k)])

\* Stats reads the totals first and the recent hands later: by then a goroutine
\* of recordHand may have written more rows than there were.
Stats(before, rows) ==
  LET totals == GetUserHandTotals(before)
  IN  [totals |-> totals, trend |-> Trend(totals, rows)]
=============================================================================
