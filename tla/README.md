# TLA+ models of the Go poker server

The server in `go-poker/` runs live no-limit hold'em tables for real money: a
hand engine, a table service with clocks, a wallet, bank deposits through
receipts, a payment gateway, withdrawals, and accounts that rest on one-time
codes. These modules model the parts where money, access and progress depend on
the order of events, and the pure algorithms a mistake in which would be
expensive. TLC checks them on small instances; TLAPS proves theorems about the
hand engine, the live table, the bank deposits, the withdrawals, the gateway and
the accounts for every instance.

## The system

| Component | State | Operations | Works with |
|---|---|---|---|
| hand engine (`engine*.go`, `models.go`) | `Game`, `Players`, `CurrentPlayerIx` | `StartHand`, `HumanAction`, showdown | called by the table service under `table.mu`; saves through the storage |
| table service (`services/game_service*.go`) | `ActiveTable`: engine, `UserMap`, turn / countdown / intermission / eviction timers | join, leave, sit in, refill, act, start by hand; the timers' callbacks; reload after a restart | wallet, settings, storage, broadcasts |
| several tables (`GameService.tables`) | the tables loaded so far, by room code | join one table and leave the others | table service, wallet, storage |
| rake (`wallet_service.go`, `handlePotCommission`) | wallets, `Game.Payouts` | split one award between winner, house, referrer | run by the table service when a hand ends |
| wallet and ledger (`wallet_service.go`) | `users.wallet`, `transactions` | `BuyIn`, `TopUp`, `CashOut`, `DepositWith`, refunds | everything that moves money |
| game storage (`storage.go`) | game and player rows | save (in two writes), load | engine, table service |
| bank deposits (`deposit_service.go`) | `bank_deposits` | submit a receipt; approve, credit by hand, reject; the retry worker | receipt verifier, wallet |
| receipt verifier (`receipt_verifier.go`) | none | ask the bank, with retries inside a deadline | bank deposits |
| gateway deposits (`gateway_deposit_*.go`) | `gateway_deposits` | start, webhook, reconcile | payment router, wallet |
| withdrawals (`withdrawal_service.go`) | `withdrawals` | request, cancel, complete, reject | wallet, password resets |
| codes (`auth_otp.go`) | pending registrations, reset codes, send allowances | register, resend, verify, reset | SMS sender, accounts, sessions |
| sessions (`auth_service.go`, `profile_service.go`) | `user_sessions` | log in and out, slide, change the password | accounts |
| history (`history_service.go`, `game_service_profile.go`) | `hands`, `hand_players` | record a hand; rooms, pages, totals, chart | table service |
| hand evaluator, bots, win probability | none | pure functions | engine |
| rooms, settings, admin | rows | create, list, update | table service |
| live updates (`sse_service.go`) | subscriber channels | broadcast, dropping for the slow | table service |

How they interact: an HTTP handler or a timer's callback locks the table, and
under that lock calls the engine, the wallet and the storage. Tables share
nothing but the wallets and the map they are listed in. Deposits, withdrawals,
codes and sessions have no lock: they are requests that read a row, wait (a bank
check takes minutes, an SMS up to 20 seconds) and write, and only the database
orders them. The worker of the deposits and the reconciler of the gateway are
goroutines of their own.

What makes each right, and what is hard about it:

- *Engine*: chips are conserved, no hand gets stuck, no street comes on early, a
  short stack wins only its layer. Hard: flags that raises, short calls, folds
  and all-ins set and clear in different places.
- *Table*: the seat map pays the right wallet, money is not created, play goes
  on by itself, no seat is held for ever. Hard: departures in the middle of a
  hand, callbacks that run after they were stopped, restarts.
- *Several tables*: a user sits at one, and a crash costs no more than what it
  interrupted. Hard: joining takes several locks one after the other, and a save
  is two writes after a wallet has moved.
- *Deposits*: a receipt is paid once, and of two links to one transfer only one,
  but for a credit by hand that leaves its number out; a decision is final, the
  queue clears. Hard: several tasks on one row, two links to one transfer, restarts.
- *Gateway*: a checkout is credited once and as paid, and settled even if nobody
  calls back. Hard: three writers of one row (the checkout's own request, the
  webhook, the reconciler), lost answers, repeated and reordered webhooks.
- *Withdrawals*: what is set aside is paid or given back, once. Hard: three
  parties closing one request, and a wallet that tables use meanwhile.
- *Codes and sessions*: a code is guessed at a bounded number of times, a phone
  is sent a bounded number of messages, an account is its owner's, and a new
  password ends the sessions of the old one. Hard: every limit is read first and
  written later, and rows are replaced under whoever has read them.
- *History*: what is recorded of a hand is what it did to the stacks. Hard: ties
  and rake gathered entry by entry.
- *Evaluator, verifier, session life*: pure, but with many cases that meet.

## Modules

| Module | Models | Builds on |
|---|---|---|
| `GameEngine` | `engine_betting.go`, `engine_showdown.go` as operators on a game record | |
| `Hand` | the engine driven hand after hand: `Deal`, `Act` | `GameEngine` |
| `HandPayout` | `ProcessHandPayout`, `handlePotCommission` | `GameEngine` |
| `HandRecord` | `recordHand`, `RecordHand`: a finished hand as history rows | `Hand`, `HandPayout` |
| `Table` | the table service: one action per handler and per callback | `HandPayout` |
| `Lobby` | several tables, the wallets, the rows, crashes | |
| `OncePerTransfer` | abstract: a transfer is credited at most once, to one user | |
| `BankDeposits` | `deposit_service.go` and the `bank_deposits` indexes; implements `OncePerTransfer` | |
| `Gateway` | `gateway_deposit_service.go`, `gateway_deposit_reconcile.go`, the webhook | |
| `Escrow` | abstract: money set aside is paid out or given back | |
| `Withdrawals` | `withdrawal_service.go`; implements `Escrow` | |
| `Accounts` | `auth_otp.go`, logins, password changes, the sessions they make and end | |
| `HandEvaluator` | the nine solvers, `Compare`, `Winners` | |
| `Receipts` | `Verify` of the receipt verifier | |
| `Sessions` | how a session's expiry slides | |
| `History` | rooms, pages, totals and the chart of a player's rows | |
| `Algorithms` | the four above, each compared with a definition of its own | those four |
| `HandProof`, `EngineProof`, `Sums` | theorems about `Hand`; lemmas on each operator of the engine and of the rake; laws of sums | `HandRecord`, `HandPayout` |
| `TableProof` | theorems about `Table` | `Table`, `EngineProof` |
| `BankDepositsProof` | theorems about `BankDeposits` | `BankDeposits` |
| `WithdrawalsProof` | theorems about `Withdrawals` | `Withdrawals`, `Sums` |
| `MoneyProof` | theorems about `Gateway` and `Lobby`, whose names do not meet (hence `LobbySpec` and the like) | `Gateway`, `Lobby`, `Sums` |
| `AccountsProof` | theorems about `Accounts` | `Accounts` |
| `MC*` | the instances TLC runs | |

### The engine

The engine has no concurrency of its own, so a game is a record and each
function an operator. A `game` keeps the fields the code keeps in `Game`,
`Players` and `CurrentPlayerIx` (counted from 0, read modulo the seats, as in
the code). Cards are left out: a showdown chooses any ranking of the players who
are left, ties included, which covers every deal. `StartHand` and `HumanAction`
are the sets of games that may result. `startBettingRound` and `advancePhase`
call each other until the board is out when nobody is left to bet; nothing they
test changes on the way, so `StartBettingRound` goes to the showdown directly.

`HandRecord` looks at the game a hand ended in: `RecordHand` is the snapshot
`recordHand` takes after the rake, `CreateHandPlayer` the row it becomes. It
holds who was dealt in, what he put in, what he won before and after the rake,
and whether his cards are on show.

### The table

`Table` has the engine, `userMap` (`table.UserMap`), the wallets of the users
and of the house, the timers, and `saved`, what the database would bring back.
Everything that holds `table.mu` from start to end is one action: it moves the
wallet, calls the engine, resets timers and saves, in the code's order.

A timer is `armed` while its handle can stop it. `Timer.Stop` does not reach a
callback that has fired and waits for the lock, so `Stop` leaves behind, or not,
a `loose` callback that will run later; setting the handle to nil over a running
timer makes it loose too. `MaxLate` bounds the callbacks that escape a `Stop`.

`Stored` is what a save and a load make of a game: the engine's turn and
`HasActed` have no column, the payouts are not kept, the phase comes back from
its name, and an absent winner comes back as an empty one. Rake and sitting out
are applied after the engine saved, so `AfterAction` saves the game without
them. `Restart` is `GetOrCreateTable` on that.

Amounts that a client sends with its decisions are checked in `Hand`; at the
table every decision carries 0, the code's default.

### Several tables

`Lobby` trades the engine for what `Table` cannot afford: two tables, requests
that go from one lock to the next, and a crash at any point of a save. A hand is
the stakes it takes of each seat and the seat they go to; who leaves a hand that
goes on leaves his stake in the pot, and `left`, a history, counts those stakes.
A move is a change in memory and in the wallets; `UpdateGame` and `UpsertPlayers`
are the two writes of `SaveGame` that follow it, and the table takes no other
move before they are done, because `table.mu` is held. Between the two the
database has the new pot with the old seats (`GameOf`). A joining
request notes the other tables the user sits at (`OtherTables`, under every
table's lock in turn), leaves them one by one (`LeaveOther`), and then joins
(`JoinTable`, which may refuse: a full table, a hand that is on, an empty wallet;
the old seat is gone all the same). A table is loaded when a request first asks
for it: until then `live` is `None` and only `saved` knows who sits there, as in
`GameService.tables`.

### Deposits and withdrawals

Each request and the worker is a *task*: it reads, and in later steps writes. A
database statement, and a transaction of several, is one step. The transfer
behind a link is a fixed function `TransferOf`, and the links the bank still
reads and the service accepts are the set `Accepted`; whether the bank can be
reached is chosen at each check. An administrator who credits by hand types any
number, the transfer's own, another's or none. `credits` counts the ledger's
entries by the link they paid, whatever was typed. `ResolveBankDeposit` updates its row whatever
the status is by then; `ResolveWithdrawal` does so only while it is pending.
That difference is what separates the two components' properties. A restart
drops every task between two of its steps.

### The gateway

A checkout is its row, the stage its own request has reached (`start`: filed,
made or refused by the router, given to the player) and a payment at the router.
The router is external: `Pay` and `Lapse` are all it may do, a payment that
lapsed may still be made good, and it may word the amount as it likes
(`Wordings`), so that `parseWholeETB` fails or disagrees. `router.was` keeps
every status a payment has had; `RouterCallback` delivers any of them at any
time, again and again, and `VerifyRouterSignature` refuses what the router did
not sign or signed long ago. `ApplyEvent` is one transaction that locks the row.
`RunReconcile` lists pending rows old enough (`Age`), oldest first and no more
than the batch; `FetchPayment` and `ReconcileApply` are two steps per row,
because the answer is heard before the transaction begins.

### Accounts

`Accounts` has the rows of codes for both purposes, the send allowances, the
accounts, the sessions, and a task per request. The four flows share their
steps as they share their code: look, take a send from the allowance (read in
`Grant`, written in `WriteAllowance`), replace or refresh the row, send. A row is
read into the task and decided upon later (`ReadCode`, `CheckCode`), so whatever
happens in between happens to a stale copy. Passwords and codes are numbers, in
the order they were minted: `signup` remembers the password chosen with each
code, `tried` how many wrong guesses a code was compared with, and a session
carries, in `by`, the password it proved, or `None` once it was spared. Codes
arrive, or do not, whatever the provider answered. Time is what it does: a code
expires, a cooldown or an hour is over.

`SetPassword` is three steps. `CheckPassword` compares with the hash that the
request was authenticated with; `ChangePassword` writes the new one later, and
asks nothing, so that a reset may have come between and the session that asked
may be gone; `SignOutOthers` deletes the other sessions, or fails to. A login is
two: the password is checked, and the session written after the account may have
another. `Restart` ends every request and then does what `bootstrap` does: if a
password is configured for the administrator, it becomes his account's
(`EnsureAdminUser`), and the sessions stay.

### The algorithms

`HandEvaluator`, `Receipts`, `Sessions` and `History` are functions of the code
as operators. `Algorithms` puts one input to one of them per behaviour, so that
TLC enumerates the inputs, and states for each what it should be without
following the code: the best five of the seven cards by a score of its own, the
first thing the bank says in time, the days between visits, the sum of the rows.

## Checks

Passing runs:

| Run | Instance | What it shows |
|---|---|---|
| `hand` | three tables of three seats with stacks between 1 and 5, blinds 1/2, clients that send 0 or 3 with a call or a raise, rake of 30% with half of it to a referrer | `PotIsTheBets`, `StackPlusBets`, `ChipsSurviveTheShowdown` (no chip appears or vanishes except by rounding a tie and by the layer only folded players reached), `NeverStuck`, `TurnIsOwed`, `HandMovesOn` (every hand ends), `RoundClosesOnlyWhenSettled`, `NobodyWinsBeyondHisStake`, `HistoryIsWhatTheStacksDid` |
| `table` | three users, buy-in and wallets of 3, rake of a small blind with half of it to a referrer, refills | `SeatMapOK`, `SatOutIsOnTheClock`, `NoMoneyCreated`, `StakesAreFixed`, `OnlyTwoThingsStopTheTable`, where seats move up, a dealt-out player sits among others, a full table starts fast |
| `table_reload` | two users on a private table, the host deals at any moment, restarts at any moment, one late callback, no rake | `SeatMapOK`, `NoMoneyCreated`, `OnlyTwoThingsStopTheTable` |
| `lobby` | three users with one buy-in each, two tables, two requests at a time, one crash; bounded by `TwoRoamOrThreeStay`: two users come and go between the tables, or all three at one, with one request at a time | `AtOneTable`, `CrashCostsItsMoves`, where a hand goes on without one who left it, and a crash can bring his row back |
| `deposits` | two users, two submissions, an administrator who types any FT number or none, the worker; a transfer with two links, and a link to another that the bank has aged out; one re-check | `OnlyAStaleHandBreaksTheRule` |
| `deposits_worker` | no administrator, two re-checks, fairness | `OneTransferOneCredit`, `RowsAreFinal`, `PromiseKept` (implements `OncePerTransfer`), `QueueClears` |
| `gateway` | two checkouts, the first worded as a broken or another amount, the second payable by phone; asked for 0 or 1 with limits 1 and 2; a batch of one | `CreditedOnceAsPaid`, `SettledByReconciliation` |
| `withdrawals` | two users, two requests in flight, three ever filed, amounts 1 and 2 | `RefundedExactlyOnce`, `PromiseKept` (implements `Escrow`) |
| `accounts` | one phone, two requests at a time, two tries, two sends an hour, two codes or passwords ever, two session tokens; starts of the server with the administrator's password or without | `GuessesAreBounded`, `SendsAreBounded`, `AccountsAreTheirOwners`, `SessionsKnowThePassword` |
| `algorithms` | every deal from six decks of nine cards; every three answers of the bank; every four visits, 1 to 5 days apart, with an idle time of 5, a renewal window of 3 and a ceiling of 9; every four hands in two rooms, the last perhaps recorded between two reads | `TheBestFiveWin`, `TheFirstVerdictCounts`, `SessionsLiveWhileUsed`, `TheHistoryAddsUp` |

Runs that find a disagreement between the code and what is said of it:

| Run | Property | What happens |
|---|---|---|
| `table_deals` | `TableDealsByItself` | two all-ins on the blinds end a hand as it is dealt, and nobody starts the timer of the pause after it; or a player leaves in the pause, which then never ends |
| `deposits_race` | `OneTransferOneCredit` | two decisions on one row, both from a read that found it pending: the wallet is credited twice, or the row of a paid transfer loses its reference |

**Why the bounds are enough.** Three seats are the fewest with a player who is
neither blind, with a main and a side pot of different contenders, and with a
departure that moves seats and a turn; stacks of 1 to 5 against blinds of 1 and
2 give short blinds, short calls, calls for more, all-ins below and above a
raise, and rounding. The engine's rules compare bets and never depend on how
large they are. With late callbacks and restarts two users interleave every pair
of handlers and callbacks; a second late callback of the same kind changes
nothing, because each looks at the state it finds. For several tables a conflict
is over one user and two tables, or two users and one; wallets of one buy-in make
a refused join happen; a hand that survives a departure needs a third user, at
one table, and that is what the bound leaves him. For deposits the conflict is over
one transfer, with the two links that reach it; a second transfer is the one whose
number may be typed by mistake, and its aged link the receipt that only a hand can
credit. For the gateway it is over one row, with a second to take the only place in
the batch. Three withdrawals are two of one user with one of another between.
Nothing in `Accounts` relates two phones. Two codes are the least with which one
takes the other's place, and two requests the least that overlap; the limits are 2, so that the last try and the one before it
differ. The theorems lift these bounds for what they state. The decks are those
in which patterns meet: the two ends of a straight, two triples, three pairs,
four of a kind with pairs, a flush beside a straight, kickers.

**Symmetry** is used where users, requests or rooms are interchangeable and only
safety is checked. The `table` run has a referrer, and `gateway` a property of
progress: neither has symmetry.

**Deadlock.** Hands end when fewer than two players have chips, a table may be
empty or stand still with nobody who can pay, and `Algorithms` asks one question
per behaviour: their configurations say `CHECK_DEADLOCK FALSE`. The others check
for deadlock.

**Fairness.** Two properties need any.

- `QueueClears`: weak fairness of the worker's next step. `StartQueueWorker` loops
  over a ticker until the process stops, and each bank check ends, with an answer
  or its time-out. Nothing is assumed of people, of the bank, or of restarts; the
  property asks only that restarts come to an end, because a sweep cut short over
  and over gets nowhere.
- `SettledByReconciliation`: time passes (`Age`); an open payment does not stay
  open at the router for ever, because `CreatePayment` sets `expires_in` (`Lapse`);
  the ticker goroutine of `StartReconciler` starts rounds and finishes with every
  row it listed, heard or not (`RunReconcile`, `ReconcileError`). These are weak.
  `FetchPayment` and `ReconcileApply` are strong: a row is listed again and again,
  and restarts or errors must not hit the same row every time. No webhook is
  assumed to arrive.

`HandMovesOn` shows that a hand ends by a measure that every decision lowers,
which needs no fairness; its exceptions are the clients that send an amount of
their own with a call.

**Money.** `NoMoneyCreated` allows money to disappear: the pot of a hand that a
departure or a manual start cuts off, and the rounding of ties. It holds without
restarts, and with restarts where no rake is taken. With both it does not: the
rake reaches the wallets at once and the stacks it came from are saved only at
the next write, so a restart in between keeps both. That is a gap in the code
(`game_service_actions.go:235` changes the stacks after the engine saved); no
document promises otherwise, so it is a hazard and not a finding. `Lobby` bounds
what a crash does in general: `CrashCostsItsMoves` counts, for every table whose
save was interrupted, the chips its last move had moved, and no more than their
sum is ever gained or lost.

**Restarts and play.** A restart in the middle of a hand brings the turn back at
seat 0; if that seat has folded, `resetTurnTimer` arms no clock and the hand
waits for ever. `OnlyTwoThingsStopTheTable` therefore exempts `Restart`, and
says that once play goes on no other step but two stops it: a departure
during a hand or the pause after it, and a hand that is over as it is dealt.

**What the exemptions in a property stand for.** Some limits of the code hold
only between requests that do not overlap, and the properties say by how much
they fail. `AtOneTable` exempts users with two joins under way and users seated
when the server went down. `CreditedOnceAsPaid` allows a second credit where the
router's answer was lost, the webhook paid, and `Start` then wrote
`create_failed` over the row. `GuessesAreBounded` and `SendsAreBounded` grow with
the number of requests at a time. `OnlyAStaleHandBreaksTheRule` exempts two
kinds of payment. A step of a stale task may do anything; `deposits_race` shows
what. And a transfer one of whose receipts was credited by hand without its own FT
number may be paid again through its other link, with no stale task at all: the
comment of `CreditManually` and `go-poker/README.md:265-266` say so, and
`OneTransferOneCredit` leaves that case out (`Misfiled`).
`SessionsKnowThePassword` exempts sessions that stay when the password they proved
is no longer their account's: a login that had checked the old one and wrote the
session after; those that a sign-out, cut off by a restart or an error, was to
delete; and the administrator's, when a start of the server rewrites his password
(`auth_service.go:185`; `docs/password-reset-design.md:88-91` names that gap). Only
`IssueSession`, `SignOutOthers` and `Restart` spare a session, so that one whose
`by` is an older password is a violation.

**Mutants.** For each property of a passing run a definition of the model has a
variant that a plausible bug would make of it, marked *Mutant* where it stands
and used by no specification. With the variant in place of the definition TLC
finds the property violated; `PROJECT.json` pairs them up.

### Known behaviours no run demonstrates

Read off the code while modelling it; the hazard list has their lines.

- A turn callback that waited for the lock behind an action acts against, and sits
  out, whoever is on turn by then (`handleTurnTimeout` does not ask whose clock it
  was); `models.go:119` says of `SittingOut` "Set when their clock runs out".
- After a restart nothing evicts whoever was sat out: `GetOrCreateTable` arms the
  other timers only (`README.md:161-163`).
- Each of n tied winners is listed n times and paid n shares of pot / n²; a pot of
  3 tied by two pays nothing, and the rake is taken per entry (`models.go:28`).
- A join that is refused has already given up the seat elsewhere.
- Who leaves in the middle of a hand is in nobody's record of it.
- A checkout whose answer the process did not live to note has no router id, so
  reconciliation never lists it and only a webhook settles it.
- A failed first send deletes the phone's row, whosever it is by then.
- A session slides on the server while the cookie is set at login only
  (`session_cookie.go:14-16`).

## Proofs

Thirty-five theorems, listed in `PROJECT.json`; nothing is assumed but the
`ASSUME` of the module on its constants, which TLC evaluates on every run, and
what a theorem names in its own `ASSUME` (`OneResolver` in three of the
deposits', no restarts in one of the table's, finitely many users and either no
restarts or no rake in another, finitely many users and rooms in the lobby's
two).

### The hand engine

The theorems of `HandProof` hold of tables with any number of seats, any stacks,
blinds above 0 and any amounts that clients send. `HandAssumption` asks of the
tables only that they are sequences of stacks.

- `TypeCorrect`: `Spec => []TypeOK`; no stack, bet or pot is ever negative.
- `PotIsCounted`: `Spec => []PotIsTheBets`.
- `StacksAreWhole`: `Spec => []StackPlusBets`.
- `HandIsNeverStuck`: `Spec => []NeverStuck`.

These four are read off one inductive invariant, `IInv` (theorem `Inductive`).
The strengthening is `RoundWithinHand`: what a player bet in a round is part of
what he bet in the hand. `placeBet` may stake a negative amount, when a call
follows one that was for more than the bet, and takes it back out of both counts;
the bet of the round bounds it (a call asks for `currentBet - roundBet` at
least), and only `RoundWithinHand` carries that over to the bet of the hand.

- `RoundsCloseSettled`: `Spec => RoundClosesOnlyWhenSettled`.
- `HandsMoveOn`: `Spec => HandMovesOn`; with the measure well founded, every hand
  ends, whatever the stacks, but for clients that send an amount with a call.
- `TurnsAreOwed`: `Spec => []TurnIsOwed`.

The first two are read off `IInv` and what a decision does. `TurnIsOwed` is not
inductive: it speaks of the player on turn and says nothing of the one after him.
The strengthening is `InOrder`: going round from the turn, of those who may act
whoever has acted comes after everyone who has not; a raise starts the order anew
and its author is the last of it.

- `NobodyWinsBeyond`: `Spec => []NobodyWinsBeyondHisStake`.
- `ChipsSurvive`: `Spec => []ChipsSurviveTheShowdown`.
- `HistoryIsKept`: `Spec => []HistoryIsWhatTheStacksDid`.

These look at a game in its intermission, whose bets and payments make sense only
as the outcome of a hand that is no longer there. A second invariant, `ShowInv`
(theorem `ShowInductive`), says that there was one: a game that is over is a
showdown of a hand that was `Played` with these players and stacks, and whose
pot was its bets. The rest is about one showdown. `LayersBelow`: the side pots up
to a level are worth what everyone bet up to that level, for bets in any order;
`FieldsHold`: a pot's contenders are those still in who reached its level. From
these a winner takes of each opponent at most what he put in himself
(`WonWithinReach`), and without ties all that is in reach of somebody still in is
won (`WonInAll`).

The step lemmas in `EngineProof` follow the code. A decision or a blind
`KeepsBooks`: what leaves the stack arrives in the bets and in the pot. Opening a
round, moving the turn and moving the board on is `Proper`: no chips move, and
either a showdown is due or somebody is on turn. The lemmas ask of the pot no more
than a live table has, that it covers the bets (`PotCovers`). The walk of
`findNextActionablePlayer` needs a little arithmetic, that every seat is met in
less than a round (`ModReaches`); `rotateDealerAndBlinds` needs that the blinds
are two players (`NthSeatsDiffer`); a showdown needs that what it pays is finitely
many whole, non-negative amounts (`PayoutsAre`), and the rake that it takes no
more of a player than the amount listed for him (`RakeIs`).

`Sums` has the laws of the sums: a sum is a recursive function over subsets, so
they are proved by an induction over finite sets, which `SetInduction` states for
a *set* of subsets and proves from strict inclusion being well founded.

### The table

The theorems of `TableProof` hold for any users, buy-in, number of seats, refills,
late callbacks, rake, and with manual starts and restarts or without. What
`TableAssumption` says of names is that no user's id is one of the words the
model uses for the table's own timers, or the house's account.

- `TableTyped`: `Spec => []TypeOK`; no stack, wallet or pot is ever negative.
- `SeatMapIsRight`: `Spec => []SeatMapOK`.
- `StakesStay`: `Spec => StakesAreFixed`.
- `SatOutAreOnTheClock`: `Spec => []SatOutIsOnTheClock` where `Restarts = FALSE`.
- `MoneyIsNotCreated`: `Spec => NoMoneyCreated` for finitely many users, where
  `Restarts = FALSE` or the rake takes nothing (`NoRake`).
- `PlayersArePaidIn`: `Spec => []PaidInv`.
- `TableGoesOn`: `Spec => OnlyTwoThingsStopTheTable`.

The first three are read off `IInv` (theorem `Inductive`), which says three things
beyond what is to be proved. A game is `Sound`: everyone has one seat, the round
is within the hand, and a running hand is unpaid and its pot *covers* its bets. It
need not be their sum, as it is in `Hand`: who leaves in the middle of a hand
leaves his bets in the pot. `saved` is as sound as what is in memory, or a restart
would bring in what no handler made. And while a hand runs the database is
`Mirrored`: it has the same stacks, bets and hand number. That is what makes
`StakesAreFixed` an action property of restarts too, although `Stored` loses the
turn and the flags; a new hand is told from the old one by the orbit, which every
deal moves (`OrbitMoves`).

`SatOutIsOnTheClock` is inductive beside `IInv`. Its lemmas (`StartKeeps`,
`StopKeeps`, `ResetTurnTimerKeeps` and so on) say that nothing done to the table's
three other clocks takes an eviction away. It is false with
restarts: `GetOrCreateTable` arms no eviction clock (a hazard, at
`game_service.go:164`).

For `NoMoneyCreated` every handler `Pays`: the wallets, with the chips on the
table, do not grow. The chips on the table (`OnFelt`) are the stacks and, while a
hand runs, the pot. What makes a showdown safe is a chain of lemmas in
`EngineProof`. `TiesShare`: `t` tied winners are listed `t` times each at a
`t * t`-th of a pot, so the pot is not exceeded. `WonAtMost`: all side pots
together pay at most what was bet, which rests on `FieldsHold`. `PotCovers`
carries that over to the pot, of which a departure may have left more than the
bets. The rake then moves chips and makes none (`RakeMovesChips`): summed seat by
seat it is what it is award by award, and the house and the referrers together
are credited with no more than that (`SharedOut` in `Sums`). Restarts are covered
by `Backed`, the second part of the invariant: where nothing is raked, the
database never has more chips of a table than the memory it replaces. With both
a restart and a rake the property is false (see *Money* above).

`OnlyTwoThingsStopTheTable` is mostly about clocks: each handler, with the timers
it sets and stops, leaves the one that the game it makes is waiting for. The hard
case is the end of a hand. `AfterAction` takes a hand for over by its payouts, and
only then starts the timer of the pause; a hand that ended and paid nobody would
stop the table. `IInv` allows it: a hand in which nobody still in has bet has no
pot for anyone to win. `PaidInv` excludes it. Whoever is in a running hand has
chips to go on with or all of them bet; before the flop there is a bet to meet;
and in the later rounds everyone still in has a bet from a round before. Each
decision, and each walk to the next player or round, keeps that (`PaidInStays`
and the lemmas after it in `EngineProof`), and a contested pot has a winner. It
is kept of the database as well, which a restart brings back. The other handlers
(sitting out and coming back, refills, evictions, joining) leave a running hand
as it is and take no clock away, or arm it anew.

### Several tables

The theorems of `MoneyProof` about `Lobby` hold for any finite sets of users and
rooms, any requests, seats, buy-in, stake and number of crashes.

- `OneTableAtATime`: `LobbySpec => []AtOneTable`.
- `ACrashCostsItsMoves`: `LobbySpec => []CrashCostsItsMoves`.

Both are read off one invariant, `RoomsInv`. For the first its part is
`OneSeatEach`: a joining request has on its list every table its user sits at,
but the one he joins, so that the list is empty only when he sits nowhere else.
That the list stays complete needs `RoomsSaved`: a table that is loaded late has
nobody's seat but of users who were seated when the server went down.

`CrashCostsItsMoves` is far from inductive: it says nothing of what would be left
if the server went down now, with the game's row of one moment and the players'
rows of another. `MoneyWithin` says that each room has a highest and a lowest
amount it may come to hold, and that those of all rooms, with the wallets and what
was left behind, are within what is exposed of what there was. `NoMore` and
`NoLess` tie the two to the room: what is in memory is within them as it stands,
and what a crash would bring back, before the first write or between the two, is
within them give or take what the move under way had moved. What a table may come
to hold (`AtMost`, `AtLeast`) is more than what is on it: a hand that is on may pay
out its pot or the stakes that are in it, which a crash can make differ, and bets
that a crash left at a table with no hand on count until the next deal. Every move
keeps its room `Within` these bounds, and a crash exposes exactly what `NoMore`
and `NoLess` allow. `OneTableAtATime` and `ACrashCostsItsMoves` do not say that a
crash is harmless: what is exposed is what the code's separate writes leave open.

The proof did not go through at first because the model was wrong with three
players. When a user had left a hand that went on, and the server went down before
his row was deleted, his stake was counted as left behind and was still in front
of him. The stake now counts from the write that deletes the row, and
`lobby` has the third player that it lacked.

### Bank deposits

These theorems are about `BankDeposits`, for every set of users, links, transfers
and tasks and every number of attempts, from `DepositAssumption` alone: links
lead to known transfers, amounts are positive, administrators are not the worker,
and `None` is nobody's name.

- `TypeCorrect`: `Spec => []TypeOK`. Inductive as it stands, because it includes
  that a task that resolves a row holds one on file.
- `OnlyStaleHands`: `Spec => OnlyAStaleHandBreaksTheRule`. Any number of
  submissions, administrators, workers and typed numbers. A step that changes a
  row and pays belongs to a task whose row is still pending, or to a fresh
  submission, so the receipt's count goes from 0 to 1 as its row becomes credited.
  If the row has its own transfer's number, the index shows that no other row has
  it: the transfer's other receipt is not credited, or was by hand without that
  number. A rejection by such a task touches no credited row.
- `OneCredit`, `FinalRows`, `KeepsPromise`: with `OneResolver` (at most one task
  resolves queued rows, which is the server while no administrator is at work)
  one receipt has one credit, and two receipts of one transfer only where one was
  credited by hand without its number; a decided row never changes; and the
  references that credited rows claim implement `OncePerTransfer`. `OneTransferOneCredit` is not inductive: it says
  nothing of a row that a task is about to overwrite. The strengthening is
  `Hands`: what the worker has in its hands and on its list is pending, the row
  in hand is not on the list, and so nothing is decided behind its back. With it,
  no step is stale, and `OneCredit` follows from the lemmas of `OnlyStaleHands`.
  `FinalRows` is read off the same invariant. `KeepsPromise` maps `paidTo` to the
  user of the row that claims a transfer; it needs that no two rows claim the same
  one (`StaysUnique`), so that the choice in `PaidTo` does not change.

`deposits_race` shows that `OneResolver` cannot be dropped.

### Withdrawals

For any users, amounts, requests at a time and rows, from `WithdrawalAssumption`.

- `WithdrawalsTyped`: `Spec => []TypeOK`; no wallet is ever overdrawn.
- `OneRefundPerRequest`: `Spec => []RefundedExactlyOnce`.
- `KeepsEscrow`: `Spec => PromiseKept`, every step is one of `Escrow` or none.

`TypeOK` is not inductive: a request must remember a user and an amount that
exist, and a cancellation an id on file (`TasksOK`); a new row takes the number
of rows plus one for its id, which is new only because the ids are consecutive
(`IdsOK`). The refinement maps what is set aside to the sum of a user's pending
rows; that a step moves that sum by the amount of one row needs the laws of
`Sums`, and that the row that closes was the only one pending needs `OnePending`,
the partial unique index.

### The gateway

- `OneCreditPerCheckout` (in `MoneyProof`): `Spec => []CreditedOnceAsPaid`, for any
  checkouts, amounts, wordings and batch, from `GatewayAssumption`.

A credit looks back at the router, at the row and at the ledger, and the
invariant ties each of them down. `Heard`: what a reconciliation carries from
`FetchPayment` to `ReconcileApply` was a status of that payment, though it may
not be any more. `Staged`: the router has said nothing of a checkout that was
not yet put to it, so its wording cannot change after a credit. `Accounted`: a
credit in the ledger is either the row's status or a place in `overwritten`;
that is what `create_failed` breaks and the exemption repairs. `Earned` is the
conclusion about money, carried from the event to the ledger.

### Accounts

For any phones and any number of requests at a time, from `AccountsAssumption`.

- `AccountsBelongToTheirSignUps`: `Spec => []AccountsAreTheirOwners`.
- `SessionsProvedThePassword`: `Spec => []SessionsKnowThePassword`.
- `MessagesAreBounded`: `Spec => []SendsAreBounded`.
- `CodesBurn`: `Spec => []GuessesAreBounded`.

The first two speak of rows and tasks only at the end, so the invariant says what they
hold all along. `RowsOK`: a sign-up's row holds the password its code was sent
for, and a reset's row stands for an account. `TasksOK`: the same of every row a
request has read, however stale, which is preserved because codes are never
minted twice and accounts are never deleted (`Grows`). `SessionsOK`, that every
session has an account and proved its present password, was spared or is about to
be signed out, needs that whoever is about to be given a session has an account,
which `TasksOK` says; and that a step that is not a sign-out leaves to the other
requests what they are about to delete (`EndingsStay`, `EndedStill`).

The two bounds are for a finite number of requests at a time, and each counts the
requests that can still go behind the limit's back. `AllowancesOK`: whoever is
allowed a send before the next is written read the same counter and will write
the same one, so what was sent in an hour, with those still to send, is at most
that counter for each request there can be. `GuessesOK`: a code's wrong guesses,
with the requests that read its row while it had tries left and are about to
compare with it, are at most the tries and the other requests (`GuessesLeft`); it
rests on `GuessesCounted`, that the row on file has counted every guess made at
its code, and on `CodesApart`, that a code stands in one row only, however many
requests hold a copy of it.

### Model-checked only

- *Liveness*: `QueueClears` and `SettledByReconciliation`; TLAPS does not prove
  liveness under fairness.
- *`Algorithms`*: what a fold computes for every input is an induction over data,
  which is out of the prover's reach.

## Not modelled

- *Rooms, settings, administration's listings*: single inserts, updates and
  queries; no property relates two of them.
- *Bots and win probability*: heuristics and estimates, reached from the demo
  server; their decisions pass through `applyDecision`, which is modelled for all.
- *Demo server, seats by hand, front end*: not part of the live server's state.
- *Live updates*: a broadcast drops what a slow subscriber does not take, and the
  next one carries the whole state again.
- *Session cookie*: attributes of a header.
- *Receipt parsing and account matching*: text in, fields out; `BankDeposits` takes
  their result from `TransferOf`.
- *Renaming and avatars*: `UpdateUsername` refuses a user who is seated, with the
  blind spot the hazard list notes at `AtOneTable`.
- *Database errors inside a handler*: `Table`'s handlers are one step; the error
  between the house's and the referrer's share is a hazard without a property.

## Plan

Done: engine and hand with proofs, showdown, rake and hand records included;
table with proofs, its money and its clocks included; several tables and crashes
with proofs; bank deposits, gateway, withdrawals and accounts with proofs;
history, hand evaluator, receipt verifier, session life.

Left: database errors inside the handlers of `Table`, as a choice at each write.
