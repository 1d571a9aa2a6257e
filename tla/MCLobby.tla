------------------------------ MODULE MCLobby ------------------------------
(* Lobby with three players, two rooms and two requests at a time, of which *)
(* two players at a time go between the rooms, or all three to one room     *)
(* with one request at a time, where a hand goes on without one who leaves. *)
EXTENDS Lobby, TLC

CONSTANTS ann, bob, cid, r1, r2, x, y

Players == {ann, bob, cid}
TwoRequests == {r1, r2}
TwoCodes == {x, y}
Interchangeable == Permutations(Requests) \cup Permutations(Users) \cup Permutations(Codes)

\* Who has yet to be seen anywhere.
Away(u) ==
  /\ wallet[u] = InitialWallet
  /\ u \notin overlapped \cup forgotten
  /\ \A p \in Requests : task[p] = Idle \/ task[p].user # u
  /\ \A c \in Codes : u \notin Seated(GetOrCreateTable(c)) \cup Seated(saved[c])

Unused(c) ==
  /\ live[c] = None /\ saved[c] = NewTable
  /\ \A p \in Requests : task[p] = Idle \/ task[p].code # c

\* Bound: what the three of them do.
TwoRoamOrThreeStay ==
  \/ \E u \in Users : Away(u)
  \/ (\E p \in Requests : task[p] = Idle) /\ (\E c \in Codes : Unused(c))
=============================================================================
