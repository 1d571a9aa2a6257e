------------------------------ MODULE MCGateway ------------------------------
(* Gateway with two checkouts.  The router words the first one's amount so   *)
(* that it is not whole ETB or another amount, and may reach the second's customer  *)
(* by phone.                                                                 *)
EXTENDS Gateway

CONSTANTS GP1, GP2

TwoRefs == {GP1, GP2}
TheFirstIsOff == [r \in TwoRefs |-> IF r = GP1 THEN {"broken", "other"} ELSE {"right"}]
TheSecond == {GP2}
=============================================================================
