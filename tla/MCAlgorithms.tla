---------------------------- MODULE MCAlgorithms ----------------------------
(***************************************************************************)
(* Decks in which the patterns meet, scaled-down times, and a player with a *)
(* handful of hands in two rooms.                                           *)
(***************************************************************************)
EXTENDS Algorithms

Of(suit, ranks) == {[rank |-> r, suit |-> suit] : r \in ranks}

MCDecks ==
  {Of("s", 11..13) \cup Of("h", 11..13) \cup Of("d", 11..13),      \* full houses, three pairs
   Of("s", 12..13) \cup Of("h", 12..13) \cup Of("d", 12..13) \cup Of("c", 11..13),    \* quads
   Of("s", {13, 1, 2, 3, 4}) \cup Of("h", {5, 3, 4, 13}),          \* the wheel, and six high
   Of("s", 8..13) \cup Of("h", {7, 6, 1}),                         \* straight flushes, flushes
   Of("s", {13, 12, 11, 1}) \cup Of("h", {13, 12, 11, 2, 3}),      \* two pairs, kickers
   Of("s", {1, 2, 5, 9, 11, 13}) \cup Of("h", {1, 9}) \cup Of("d", {9})}     \* flush and trips

MCHandRows ==
  [room : {"a", "b"}, net : {-1, 0}, folded : {TRUE}, showedDown : {FALSE}]
    \cup [room : {"a", "b"}, net : {-1, 2}, folded : {FALSE}, showedDown : {TRUE}]
    \cup [room : {"a", "b"}, net : {2}, folded : {FALSE}, showedDown : {FALSE}]
=============================================================================
