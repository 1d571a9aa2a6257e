----------------------------- MODULE Withdrawals -----------------------------
(***************************************************************************)
(* Withdrawals: withdrawal_service.go over the withdrawals table and the    *)
(* wallets, which the tables' buy-ins and cash-outs move meanwhile.         *)
(*                                                                          *)
(* A player's request and a cancellation read first and write later, so     *)
(* each is a task with two steps; what one database transaction writes is   *)
(* one step, and so are Complete and Reject, which are one transaction.     *)
(* Closing a request that is no longer pending changes nothing and is not a *)
(* step.                                                                    *)
(***************************************************************************)
EXTENDS Naturals, FiniteSets, FiniteSetsExt

CONSTANTS
  Users,
  Requests,        \* players' requests to the server, at a time
  Amounts,         \* what is asked for, the site's minimum or more
  InitialWallet,
  MaxRows          \* bound: requests ever filed

ASSUME WithdrawalAssumption ==
  /\ Amounts \subseteq Nat \ {0}
  /\ InitialWallet \in Nat
  /\ MaxRows \in Nat

VARIABLES
  rows,       \* withdrawals, by id
  wallet,     \* users.wallet
  onTable,    \* what the user's seat holds
  refunds,    \* the ledger's withdrawal_refund entries, by withdrawal
  cooling,    \* the users who reset their password a short while ago
  task        \* what each request to the server is at

vars == <<rows, wallet, onTable, refunds, cooling, task>>

Idle == [doing |-> "idle"]
Filed == DOMAIN rows
\* Mutant: nothing finds the pending request.
PendingOfNobody(u) == {}

PendingOf(u) == {i \in Filed : rows[i].user = u /\ rows[i].status = "pending"}
Done(p) == task' = [task EXCEPT ![p] = Idle]

Init ==
  /\ rows = <<>>
  /\ wallet = [u \in Users |-> InitialWallet]
  /\ onTable = [u \in Users |-> 0]
  /\ refunds = <<>>
  /\ cooling = {}
  /\ task = [p \in Requests |-> Idle]

(***************************************************************************)
(* Request: the cooldown is looked at first, then one transaction debits    *)
(* the wallet if it can and files the row, unless the partial unique index  *)
(* finds a pending one.                                                     *)
(***************************************************************************)
Ask(p, u, amount) ==
  /\ task[p] = Idle
  /\ u \notin cooling
  /\ task' = [task EXCEPT ![p] = [doing |-> "requesting", user |-> u, amount |-> amount]]
  /\ UNCHANGED <<rows, wallet, onTable, refunds, cooling>>

File(p) ==
  LET u == task[p].user
      amount == task[p].amount
      id == Cardinality(Filed) + 1
  IN  /\ task[p].doing = "requesting"
      /\ Cardinality(Filed) < MaxRows
      /\ IF PendingOf(u) = {} /\ wallet[u] >= amount
         THEN /\ wallet' = [wallet EXCEPT ![u] = @ - amount]
              /\ rows' = [i \in Filed \cup {id} |->
                            IF i = id THEN [user |-> u, amount |-> amount,
                                            status |-> "pending"]
                                      ELSE rows[i]]
              /\ refunds' = [i \in Filed \cup {id} |-> IF i = id THEN 0 ELSE refunds[i]]
         ELSE UNCHANGED <<rows, wallet, refunds>>
      /\ Done(p)
      /\ UNCHANGED <<onTable, cooling>>

(***************************************************************************)
(* Closing a request.  ResolveWithdrawal updates it only while it is        *)
(* pending; the refund is in the same transaction.                          *)
(***************************************************************************)
\* Mutant: the update is not conditional on the status.
ResolveAnyStatus(i, status) ==
  /\ i \in Filed
  /\ rows' = [rows EXCEPT ![i].status = status]

Resolve(i, status) ==
  /\ i \in Filed
  /\ rows[i].status = "pending"
  /\ rows' = [rows EXCEPT ![i].status = status]

Refund(i, status) ==
  /\ Resolve(i, status)
  /\ wallet' = [wallet EXCEPT ![rows[i].user] = @ + rows[i].amount]
  /\ refunds' = [refunds EXCEPT ![i] = @ + 1]

AskCancel(p, u, i) ==
  /\ task[p] = Idle
  /\ i \in Filed
  /\ rows[i].user = u
  /\ task' = [task EXCEPT ![p] = [doing |-> "cancelling", id |-> i]]
  /\ UNCHANGED <<rows, wallet, onTable, refunds, cooling>>

Cancel(p) ==
  /\ task[p].doing = "cancelling"
  /\ \/ Refund(task[p].id, "cancelled")
     \/ rows[task[p].id].status # "pending" /\ UNCHANGED <<rows, wallet, refunds>>
  /\ Done(p)
  /\ UNCHANGED <<onTable, cooling>>

Reject(i) ==
  /\ Refund(i, "rejected")
  /\ UNCHANGED <<onTable, cooling, task>>

Complete(i) ==
  /\ Resolve(i, "completed")
  /\ UNCHANGED <<wallet, onTable, refunds, cooling, task>>

(***************************************************************************)
(* What else moves the wallet, and the password resets.                     *)
(***************************************************************************)
\* Mutant: the balance is not a condition of the debit.
DebitUnconditionally(u, amount) ==
  /\ wallet' = [wallet EXCEPT ![u] = @ - amount]
  /\ onTable' = [onTable EXCEPT ![u] = @ + amount]
  /\ UNCHANGED <<rows, refunds, cooling, task>>

\* BuyIn and TopUp: the debit and its condition are one statement.
Debit(u, amount) ==
  /\ wallet[u] >= amount
  /\ wallet' = [wallet EXCEPT ![u] = @ - amount]
  /\ onTable' = [onTable EXCEPT ![u] = @ + amount]
  /\ UNCHANGED <<rows, refunds, cooling, task>>

CashOut(u) ==
  /\ onTable[u] > 0
  /\ wallet' = [wallet EXCEPT ![u] = @ + onTable[u]]
  /\ onTable' = [onTable EXCEPT ![u] = 0]
  /\ UNCHANGED <<rows, refunds, cooling, task>>

ResetPassword(u) ==
  /\ cooling' = cooling \cup {u}
  /\ UNCHANGED <<rows, wallet, onTable, refunds, task>>

CooldownOver(u) ==
  /\ cooling' = cooling \ {u}
  /\ UNCHANGED <<rows, wallet, onTable, refunds, task>>

\* The process stops between a request's two steps.
Restart ==
  /\ task' = [p \in Requests |-> Idle]
  /\ UNCHANGED <<rows, wallet, onTable, refunds, cooling>>

Next ==
  \/ \E p \in Requests, u \in Users, amount \in Amounts : Ask(p, u, amount)
  \/ \E p \in Requests, u \in Users, i \in Filed : AskCancel(p, u, i)
  \/ \E p \in Requests : File(p) \/ Cancel(p)
  \/ \E i \in Filed : Reject(i) \/ Complete(i)
  \/ \E u \in Users, amount \in Amounts : Debit(u, amount)
  \/ \E u \in Users : CashOut(u) \/ ResetPassword(u) \/ CooldownOver(u)
  \/ Restart

Spec == Init /\ [][Next]_vars
-----------------------------------------------------------------------------
Statuses == {"pending", "completed", "rejected", "cancelled"}

\* The rows, and wallets that are never overdrawn.
TypeOK ==
  /\ \A i \in Filed : rows[i] \in [user : Users, amount : Amounts, status : Statuses]
  /\ wallet \in [Users -> Nat]
  /\ onTable \in [Users -> Nat]
  /\ refunds \in [Filed -> Nat]
  /\ cooling \subseteq Users

(***************************************************************************)
(* README.md: "two admins (or a double-click) cannot refund it twice".  A   *)
(* request that was turned down or taken back has been refunded once, and   *)
(* one that waits or was paid has not, however cancelling, rejecting and    *)
(* completing it overlap (refund, Complete, ResolveWithdrawal).             *)
(***************************************************************************)
RefundedExactlyOnce ==
  \A i \in Filed :
    refunds[i] = IF rows[i].status \in {"rejected", "cancelled"} THEN 1 ELSE 0

SumOfRows(u, status) ==
  SumFunctionOnSet([i \in Filed |-> rows[i].amount],
                   {i \in Filed : rows[i].user = u /\ rows[i].status = status})

Promise == INSTANCE Escrow
  WITH free <- [u \in Users |-> wallet[u] + onTable[u]],
       held <- [u \in Users |-> SumOfRows(u, "pending")],
       paid <- [u \in Users |-> SumOfRows(u, "completed")]

(***************************************************************************)
(* Withdrawals keep the promise of Escrow: what a request took out of the   *)
(* wallet is paid out or given back, all of it and once, and a user has one *)
(* request pending (Request, refund, Complete, idx_withdrawal_one_pending). *)
(***************************************************************************)
PromiseKept == Promise!Spec
=============================================================================
