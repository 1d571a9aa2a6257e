------------------------------- MODULE MCHand -------------------------------
(* Instances of Hand: three seats, stacks around the blinds. *)
EXTENDS HandRecord

\* Stacks that make side pots, one of them short of the blinds; and two
\* players with the third away.
Chips(a, b, c, away) ==
  <<[chips |-> a, sittingOut |-> FALSE], [chips |-> b, sittingOut |-> FALSE],
    [chips |-> c, sittingOut |-> away]>>

MCTables == {Chips(1, 4, 2, FALSE), Chips(3, 4, 5, FALSE), Chips(3, 4, 2, TRUE)}

\* The first seat signed up with the second one's code.
MCReferrerOf == [u \in {1} |-> 2]
=============================================================================
