------------------------------- MODULE Lobby -------------------------------
(***************************************************************************)
(* Several tables, the wallets around them and the rows they are saved in:  *)
(* joining one table while leaving the others (game_service.go), and what a *)
(* crash leaves behind (storage.go).                                        *)
(*                                                                          *)
(* table.mu is held from a handler's first check to the end of its save, so *)
(* a table has at most one move under way: what it changed is in memory and *)
(* in the wallet at once, in the game's row a step later and in the         *)
(* players' rows after that.  A hand is its stakes, and the seat they go    *)
(* to; Hand and Table say how it is played.  Tables are loaded when a       *)
(* request first asks for them.                                             *)
(***************************************************************************)
EXTENDS Integers, FiniteSets, FiniteSetsExt

CONSTANTS
  Users,
  Codes,          \* room codes
  Requests,       \* requests that span several tables, at a time
  MaxPlayers,
  BuyIn,
  Stake,          \* what a hand takes of each seat
  InitialWallet,
  MaxCrashes,     \* bound: crashes
  None

\* Seats, tables and saves under way.  A table's left is a history: the stakes
\* of those who left the hand that is on.
Places == UNION {[S -> [chips : Nat, bet : 0..Stake]] : S \in SUBSET Users}
Tables == [started : BOOLEAN, pot : Nat, left : Nat, seats : Places]
Saves == [row : {"game", "players"}, moved : Nat, by : Requests \cup {None}]

ASSUME LobbyAssumption ==
  /\ {MaxPlayers, BuyIn, Stake} \subseteq Nat \ {0}
  /\ {InitialWallet, MaxCrashes} \subseteq Nat
  /\ None \notin Codes \cup Requests \cup Tables \cup Saves

VARIABLES
  wallet,     \* users.wallet
  live,       \* GameService.tables, by code
  saved,      \* poker_game and poker_player, by code
  saving,     \* the move whose save is under way, by code
  task,       \* requests between two locks
  crashes,
  overlapped, \* history: users who had two requests under way at once
  forgotten,  \* history: users seated at a table when the server went down
  exposed,    \* history: what the moves a crash interrupted had moved
  forfeited   \* history: stakes left behind by those who left a hand

taskVars == <<task, overlapped>>
crashVars == <<crashes, forgotten, exposed>>
lobbyVars == <<taskVars, wallet, live, saved, saving, crashVars, forfeited>>

SumOver(S, f(_)) == SumFunctionOnSet([x \in S |-> f(x)], S)

Idle == [at |-> "idle"]
Goto(p, step) == task' = [task EXCEPT ![p] = step]
Done(p) == Goto(p, Idle)

NewTable == [started |-> FALSE, pot |-> 0, left |-> 0, seats |-> <<>>]

LobbyInit ==
  /\ wallet = [u \in Users |-> InitialWallet]
  /\ live = [c \in Codes |-> None]
  /\ saved = [c \in Codes |-> NewTable]
  /\ saving = [c \in Codes |-> None]
  /\ task = [p \in Requests |-> Idle]
  /\ crashes = 0
  /\ overlapped = {} /\ forgotten = {}
  /\ exposed = 0 /\ forfeited = 0

(***************************************************************************)
(* A table, loaded when it is first asked for.                              *)
(***************************************************************************)
GetOrCreateTable(c) == IF live[c] = None THEN saved[c] ELSE live[c]
Seated(t) == DOMAIN t.seats
Free(c) == saving[c] = None
DealtIn(t) == {u \in Seated(t) : t.seats[u].chips >= Stake}
Stakes(t) == SumOver(Seated(t), LAMBDA u : t.seats[u].bet)

\* Every move ends with a save.
Move(c, t, moved, p) ==
  /\ live' = [live EXCEPT ![c] = t]
  /\ saving' = [saving EXCEPT ![c] = [row |-> "game", moved |-> moved, by |-> p]]

\* SaveGame: updateGame, then upsertPlayers in a transaction of its own.  A
\* stake is not left behind before its leaver's row is gone.
GameOf(old, new) ==
  [new EXCEPT !.seats = old.seats, !.left = IF old.started /\ new.started THEN old.left ELSE 0]

UpdateGame(c) ==
  /\ saving[c] # None /\ saving[c].row = "game"
  /\ saved' = [saved EXCEPT ![c] = GameOf(saved[c], live[c])]
  /\ saving' = [saving EXCEPT ![c].row = "players"]
  /\ UNCHANGED <<taskVars, wallet, live, crashVars, forfeited>>

\* Mutant: the rows of those who left are not deleted first.
UpsertWithoutDelete(c) ==
  /\ saving[c] # None /\ saving[c].row = "players"
  /\ saved' = [saved EXCEPT ![c].seats =
                 [u \in DOMAIN live[c].seats \cup DOMAIN @ |->
                    IF u \in DOMAIN live[c].seats THEN live[c].seats[u] ELSE @[u]],
                           ![c].left = live[c].left]
  /\ saving' = [saving EXCEPT ![c] = None]
  /\ UNCHANGED <<taskVars, wallet, live, crashVars, forfeited>>

UpsertPlayers(c) ==
  /\ saving[c] # None /\ saving[c].row = "players"
  /\ saved' = [saved EXCEPT ![c].seats = live[c].seats, ![c].left = live[c].left]
  /\ saving' = [saving EXCEPT ![c] = None]
  /\ UNCHANGED <<taskVars, wallet, live, crashVars, forfeited>>

(***************************************************************************)
(* Moves of one table.                                                      *)
(***************************************************************************)
Without(t, u) == [v \in Seated(t) \ {u} |-> t.seats[v]]

\* A hand that its leaver's going ends leaves its pot to nobody.
TableWithout(t, u) ==
  IF Cardinality(Seated(t)) > 2
  THEN [t EXCEPT !.seats = Without(t, u), !.left = IF t.started THEN @ + t.seats[u].bet ELSE 0]
  ELSE [t EXCEPT !.seats = Without(t, u), !.started = FALSE, !.pot = 0, !.left = 0]

LeaveTable(c, u, p) ==
  LET t == GetOrCreateTable(c)
      after == TableWithout(t, u)
  IN  /\ Free(c)
      /\ u \in Seated(t)
      /\ wallet' = [wallet EXCEPT ![u] = @ + t.seats[u].chips]
      /\ forfeited' = forfeited + IF after.started THEN 0 ELSE t.pot
      /\ Move(c, after, t.seats[u].chips + IF after.started THEN 0 ELSE t.pot, p)
      /\ UNCHANGED <<saved, crashVars>>

Leave(c, u) == LeaveTable(c, u, None) /\ UNCHANGED taskVars

HandDealt(t) ==
  LET bet(u) == IF u \in DealtIn(t) THEN Stake ELSE 0
  IN  [started |-> TRUE, pot |-> Stake * Cardinality(DealtIn(t)), left |-> 0,
       seats |-> [u \in Seated(t) |->
                    [chips |-> t.seats[u].chips - bet(u), bet |-> bet(u)]]]

StartHand(c) ==
  LET t == GetOrCreateTable(c)
  IN  /\ Free(c)
      /\ ~t.started
      /\ Cardinality(DealtIn(t)) >= 2
      /\ Move(c, HandDealt(t), HandDealt(t).pot, None)
      /\ UNCHANGED <<taskVars, wallet, saved, crashVars, forfeited>>

HandOver(t, u, won) ==
  [started |-> FALSE, pot |-> 0, left |-> 0,
   seats |-> [v \in Seated(t) |->
                [chips |-> t.seats[v].chips + IF v = u THEN won ELSE 0, bet |-> 0]]]

\* Everyone else folded, and the pot is the winner's; or the stakes of those
\* who still sit there are.
EndHand(c, u, folded) ==
  LET t == GetOrCreateTable(c)
      won == IF folded THEN t.pot ELSE Stakes(t)
      lost == IF folded THEN 0 ELSE t.left
  IN  /\ Free(c)
      /\ t.started
      /\ u \in Seated(t)
      /\ Move(c, HandOver(t, u, won), IF won + lost > t.pot THEN won + lost ELSE t.pot, None)
      /\ forfeited' = forfeited + lost
      /\ UNCHANGED <<taskVars, wallet, saved, crashVars>>

(***************************************************************************)
(* Joining leaves the other tables that are loaded, one after the other.    *)
(***************************************************************************)
SeatsOf(u) == {c \in Codes : u \in Seated(GetOrCreateTable(c))}

Begin(p, u, step) ==
  /\ task[p] = Idle
  /\ overlapped' = IF \E q \in Requests : task[q] # Idle /\ task[q].user = u
                   THEN overlapped \cup {u} ELSE overlapped
  /\ Goto(p, step)
  /\ UNCHANGED <<wallet, live, saved, saving, crashVars, forfeited>>

\* Every table is locked in its turn.
SeatedCodes(u) == {d \in Codes : live[d] # None /\ u \in Seated(live[d])}
Unlocked == \A d \in Codes : live[d] = None \/ saving[d] = None

\* Mutant: a table whose hand is on is not left.
IdleOtherTables(u, c) == {d \in SeatedCodes(u) \ {c} : ~live[d].started}

OtherTables(u, c) == SeatedCodes(u) \ {c}

Join(p, c, u) ==
  /\ Unlocked
  /\ Begin(p, u, [at |-> "joining", user |-> u, code |-> c,
                  others |-> OtherTables(u, c)])

Waiting(p) == \E d \in Codes : saving[d] # None /\ saving[d].by = p

LeaveOther(p, d) ==
  LET u == task[p].user
  IN  /\ task[p].at = "joining"
      /\ ~Waiting(p)
      /\ d \in task[p].others
      /\ Free(d)
      /\ Goto(p, [task[p] EXCEPT !.others = @ \ {d}])
      /\ IF u \in Seated(GetOrCreateTable(d))
         THEN LeaveTable(d, u, p)
         ELSE UNCHANGED <<wallet, live, saved, saving, crashVars, forfeited>>
      /\ UNCHANGED overlapped

NewSeat == [chips |-> BuyIn, bet |-> 0]

TableWith(t, u) ==
  [t EXCEPT !.seats = [v \in Seated(t) \cup {u} |-> IF v = u THEN NewSeat ELSE t.seats[v]]]

JoinTable(p) ==
  LET u == task[p].user
      c == task[p].code
      t == GetOrCreateTable(c)
  IN  /\ task[p].at = "joining"
      /\ ~Waiting(p)
      /\ task[p].others = {}
      /\ Free(c)
      /\ IF u \notin Seated(t) /\ ~t.started /\ Cardinality(Seated(t)) < MaxPlayers
            /\ wallet[u] >= BuyIn
         THEN /\ wallet' = [wallet EXCEPT ![u] = @ - BuyIn]
              /\ Move(c, TableWith(t, u), BuyIn, p)
         ELSE /\ live' = [live EXCEPT ![c] = t]
              /\ UNCHANGED <<wallet, saving>>
      /\ Done(p)
      /\ UNCHANGED <<overlapped, saved, crashVars, forfeited>>

(***************************************************************************)
(* A crash: what is in memory, and every request, is gone.                  *)
(***************************************************************************)
Crash ==
  /\ crashes < MaxCrashes
  /\ crashes' = crashes + 1
  /\ live' = [c \in Codes |-> None]
  /\ saving' = [c \in Codes |-> None]
  /\ task' = [p \in Requests |-> Idle]
  /\ forgotten' = forgotten \cup UNION {Seated(saved[c]) : c \in Codes}
  /\ overlapped' = {}
  /\ exposed' = exposed + SumOver({c \in Codes : saving[c] # None}, LAMBDA c : saving[c].moved)
  /\ UNCHANGED <<wallet, saved, forfeited>>

LobbyNext ==
  \/ \E c \in Codes : UpdateGame(c) \/ UpsertPlayers(c)
  \/ \E c \in Codes, u \in Users : Leave(c, u)
  \/ \E c \in Codes : StartHand(c)
  \/ \E c \in Codes, u \in Users, folded \in BOOLEAN : EndHand(c, u, folded)
  \/ \E p \in Requests, c \in Codes, u \in Users : Join(p, c, u)
  \/ \E p \in Requests, d \in Codes : LeaveOther(p, d)
  \/ \E p \in Requests : JoinTable(p)
  \/ Crash

LobbySpec == LobbyInit /\ [][LobbyNext]_lobbyVars
-----------------------------------------------------------------------------
(***************************************************************************)
(* Joining a table leaves every other: a user holds a seat at two tables    *)
(* only if two of his requests ran at once, or if he came back after a      *)
(* crash, when a table nobody has asked for yet still has his seat          *)
(* (autoLeaveOtherTables, JoinTable).                                       *)
(***************************************************************************)
AtOneTable ==
  \A u \in Users :
    Cardinality(SeatsOf(u)) > 1 => u \in overlapped \cup forgotten

(***************************************************************************)
(* A crash costs, or creates, no more than the moves it interrupted had     *)
(* moved: every wallet, every stack, the pots being played for and the      *)
(* stakes left behind add up to what there was, give or take those          *)
(* (BuyIn before SaveGame, CashOut before SaveGame, and SaveGame's two      *)
(* writes).                                                                 *)
(***************************************************************************)
OnTheFelt(t) ==
  SumOver(Seated(t), LAMBDA u : t.seats[u].chips) + IF t.started THEN t.pot ELSE 0

Money ==
  SumOver(Users, LAMBDA u : wallet[u]) + forfeited
    + SumOver(Codes, LAMBDA c : OnTheFelt(GetOrCreateTable(c)))

CrashCostsItsMoves ==
  LET gain == Money - Cardinality(Users) * InitialWallet
  IN  -exposed <= gain /\ gain <= exposed
=============================================================================
