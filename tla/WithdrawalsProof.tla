-------------------------- MODULE WithdrawalsProof --------------------------
(***************************************************************************)
(* Proofs about Withdrawals, for any number of users, server requests and   *)
(* rows: types, one refund per request, and the promise of Escrow.          *)
(***************************************************************************)
EXTENDS Withdrawals, Sums

(***************************************************************************)
(* The inductive invariant.  TypeOK alone does not carry the types (a       *)
(* request must remember what it read, and ids must be consecutive) nor     *)
(* the promise (a user has one row pending).                                *)
(***************************************************************************)
Works ==
  {Idle} \cup [doing : {"requesting"}, user : Users, amount : Amounts]
         \cup [doing : {"cancelling"}, id : Filed]

TasksOK == task \in [Requests -> Works]

IdsOK == \E n \in Nat : Filed = 1..n

OnePending ==
  \A i, j \in Filed :
    /\ rows[i].status = "pending" /\ rows[j].status = "pending"
    /\ rows[i].user = rows[j].user
    => i = j

IInv == TypeOK /\ TasksOK /\ IdsOK /\ OnePending /\ RefundedExactlyOnce

\* The next id is new, and the ids stay consecutive.
LEMMA NextId ==
  ASSUME IdsOK
  PROVE  /\ IsFiniteSet(Filed)
         /\ Cardinality(Filed) + 1 \notin Filed
         /\ \E n \in Nat : Filed \cup {Cardinality(Filed) + 1} = 1..n
<1>1. PICK n \in Nat : Filed = 1..n
  BY DEF IdsOK
<1>2. IsFiniteSet(Filed) /\ Cardinality(Filed) = n
  BY <1>1, FS_Interval
<1>3. n + 1 \in Nat /\ Filed \cup {n + 1} = 1..(n + 1)
  BY <1>1
<1> QED
  BY <1>1, <1>2, <1>3

LEMMA InitHolds == Init => IInv
<1>1. ASSUME Init PROVE IInv
  <2>1. Filed = {} /\ Filed = 1..0
    BY <1>1 DEF Init, Filed
  <2>2. refunds \in [Filed -> Nat]
    BY <1>1, <2>1 DEF Init
  <2> QED
    BY <1>1, <2>1, <2>2, WithdrawalAssumption
    DEF Init, IInv, TypeOK, TasksOK, Works, IdsOK, OnePending, RefundedExactlyOnce, Filed
<1> QED
  BY <1>1

(***************************************************************************)
(* Filing a request.                                                        *)
(***************************************************************************)
\* What File does when it files: the new row beside the old ones.
Files(u, amount, id) ==
  /\ wallet' = [wallet EXCEPT ![u] = @ - amount]
  /\ rows' = [i \in Filed \cup {id} |->
                IF i = id THEN [user |-> u, amount |-> amount, status |-> "pending"]
                          ELSE rows[i]]
  /\ refunds' = [i \in Filed \cup {id} |-> IF i = id THEN 0 ELSE refunds[i]]

LEMMA FilesHolds ==
  ASSUME IInv, NEW p \in Requests, task' = [task EXCEPT ![p] = Idle],
         NEW u \in Users, NEW amount \in Amounts,
         PendingOf(u) = {}, wallet[u] >= amount,
         NEW id, id = Cardinality(Filed) + 1, Files(u, amount, id),
         UNCHANGED <<onTable, cooling>>
  PROVE  IInv'
<1>1. id \notin Filed /\ \E n \in Nat : Filed \cup {id} = 1..n
  BY NextId DEF IInv
<1>2. Filed' = Filed \cup {id}
  BY DEF Files, Filed
<1>3. /\ rows'[id] = [user |-> u, amount |-> amount, status |-> "pending"]
      /\ \A i \in Filed : rows'[i] = rows[i]
      /\ refunds'[id] = 0
      /\ \A i \in Filed : refunds'[i] = refunds[i]
  BY <1>1 DEF Files
<1>4. TypeOK'
  <2>1. \A i \in Filed' : rows'[i] \in [user : Users, amount : Amounts, status : Statuses]
    BY <1>2, <1>3 DEF IInv, TypeOK, Statuses
  <2>2. wallet' \in [Users -> Nat]
    BY WithdrawalAssumption DEF IInv, TypeOK, Files
  <2>3. refunds' \in [Filed' -> Nat]
    BY <1>2, <1>3 DEF IInv, TypeOK, Files
  <2> QED
    BY <2>1, <2>2, <2>3 DEF IInv, TypeOK
<1>5. TasksOK'
  BY <1>2 DEF IInv, TasksOK, Works
<1>6. IdsOK'
  BY <1>1, <1>2 DEF IdsOK
<1>7. OnePending'
  BY <1>2, <1>3 DEF IInv, OnePending, PendingOf
<1>8. RefundedExactlyOnce'
  BY <1>2, <1>3 DEF IInv, RefundedExactlyOnce
<1> QED
  BY <1>4, <1>5, <1>6, <1>7, <1>8 DEF IInv

(***************************************************************************)
(* Closing a request, with or without a refund.                             *)
(***************************************************************************)
LEMMA ResolveHolds ==
  ASSUME IInv, NEW i \in Filed, NEW status \in Statuses \ {"pending"},
         Resolve(i, status), task' \in [Requests -> Works],
         wallet' \in [Users -> Nat], UNCHANGED <<onTable, cooling>>,
         refunds' = [refunds EXCEPT ![i] = IF status = "completed" THEN @ ELSE @ + 1]
  PROVE  IInv'
<1>1. /\ Filed' = Filed
      /\ rows'[i] = [rows[i] EXCEPT !.status = status]
      /\ \A j \in Filed \ {i} : rows'[j] = rows[j]
  BY DEF Resolve, Filed
<1>2. /\ rows[i] \in [user : Users, amount : Amounts, status : Statuses]
      /\ rows[i].status = "pending" /\ rows'[i].status = status
      /\ refunds[i] = 0
  BY <1>1 DEF IInv, TypeOK, Resolve, RefundedExactlyOnce
<1>3. TypeOK'
  BY <1>1, <1>2 DEF IInv, TypeOK
<1>4. TasksOK' /\ IdsOK'
  BY <1>1 DEF IInv, TasksOK, Works, IdsOK
<1>5. OnePending'
  BY <1>1, <1>2 DEF IInv, OnePending
<1>6. RefundedExactlyOnce'
  BY <1>1, <1>2 DEF IInv, TypeOK, RefundedExactlyOnce, Statuses
<1> QED
  BY <1>3, <1>4, <1>5, <1>6 DEF IInv

LEMMA RefundHolds ==
  ASSUME IInv, NEW i, NEW status \in {"cancelled", "rejected"}, Refund(i, status),
         task' \in [Requests -> Works], UNCHANGED <<onTable, cooling>>
  PROVE  IInv'
<1>1. i \in Filed /\ Resolve(i, status)
  BY DEF Refund, Resolve
<1>2. wallet' \in [Users -> Nat]
  <2>1. rows[i].user \in Users /\ rows[i].amount \in Nat
    BY <1>1, WithdrawalAssumption DEF IInv, TypeOK
  <2> QED
    BY <2>1 DEF IInv, TypeOK, Refund
<1> QED
  BY <1>1, <1>2, ResolveHolds DEF Refund, Statuses

(***************************************************************************)
(* Every step keeps the invariant.                                          *)
(***************************************************************************)
LEMMA StepHolds ==
  ASSUME IInv, [Next]_vars
  PROVE  IInv'
<1> USE DEF IInv
<1>1. ASSUME NEW p \in Requests, NEW u \in Users, NEW amount \in Amounts, Ask(p, u, amount)
      PROVE  IInv'
  BY <1>1 DEF Ask, TypeOK, TasksOK, Works, IdsOK, OnePending, RefundedExactlyOnce, Filed
<1>2. ASSUME NEW p \in Requests, NEW u \in Users, NEW i \in Filed, AskCancel(p, u, i)
      PROVE  IInv'
  BY <1>2 DEF AskCancel, TypeOK, TasksOK, Works, IdsOK, OnePending, RefundedExactlyOnce, Filed
<1>3. ASSUME NEW p \in Requests, File(p) PROVE IInv'
  <2>1. task[p].user \in Users /\ task[p].amount \in Amounts
    BY <1>3 DEF File, TasksOK, Works, Idle
  <2>2. CASE PendingOf(task[p].user) = {} /\ wallet[task[p].user] >= task[p].amount
    <3>1. PICK u \in Users, amount \in Amounts, id \in {Cardinality(Filed) + 1} :
            u = task[p].user /\ amount = task[p].amount /\ id = Cardinality(Filed) + 1
      BY <2>1
    <3>2. Files(u, amount, id)
      BY <1>3, <2>2, <3>1 DEF File, Files
    <3>3. task' = [task EXCEPT ![p] = Idle] /\ UNCHANGED <<onTable, cooling>>
      BY <1>3 DEF File, Done
    <3> QED
      BY <2>2, <3>1, <3>2, <3>3, FilesHolds
  <2>3. CASE UNCHANGED <<rows, wallet, refunds>>
    BY <1>3, <2>3
    DEF File, Done, TypeOK, TasksOK, Works, IdsOK, OnePending, RefundedExactlyOnce, Filed
  <2> QED
    BY <1>3, <2>2, <2>3 DEF File
<1>4. ASSUME NEW p \in Requests, Cancel(p) PROVE IInv'
  <2>1. task' \in [Requests -> Works]
    BY <1>4 DEF Cancel, Done, TasksOK, Works
  <2>2. CASE Refund(task[p].id, "cancelled")
    BY <1>4, <2>1, <2>2, RefundHolds DEF Cancel
  <2>3. CASE UNCHANGED <<rows, wallet, refunds>>
    BY <1>4, <2>1, <2>3
    DEF Cancel, TypeOK, TasksOK, Works, IdsOK, OnePending, RefundedExactlyOnce, Filed
  <2> QED
    BY <1>4, <2>2, <2>3 DEF Cancel
<1>5. ASSUME NEW i \in Filed, Reject(i) PROVE IInv'
  BY <1>5, RefundHolds DEF Reject, TasksOK
<1>6. ASSUME NEW i \in Filed, Complete(i) PROVE IInv'
  <2>1. refunds' = [refunds EXCEPT ![i] = refunds[i]]
    BY <1>6 DEF Complete, TypeOK
  <2> QED
    BY <1>6, <2>1, ResolveHolds DEF Complete, Statuses, TypeOK, TasksOK
<1>7. ASSUME NEW u \in Users, NEW amount \in Amounts, Debit(u, amount) PROVE IInv'
  <2>1. wallet' \in [Users -> Nat] /\ onTable' \in [Users -> Nat]
    BY <1>7, WithdrawalAssumption DEF Debit, TypeOK
  <2> QED
    BY <1>7, <2>1
    DEF Debit, TypeOK, TasksOK, Works, IdsOK, OnePending, RefundedExactlyOnce, Filed
<1>8. ASSUME NEW u \in Users, CashOut(u) PROVE IInv'
  <2>1. wallet' \in [Users -> Nat] /\ onTable' \in [Users -> Nat]
    BY <1>8 DEF CashOut, TypeOK
  <2> QED
    BY <1>8, <2>1
    DEF CashOut, TypeOK, TasksOK, Works, IdsOK, OnePending, RefundedExactlyOnce, Filed
<1>9. ASSUME NEW u \in Users, ResetPassword(u) \/ CooldownOver(u) PROVE IInv'
  BY <1>9
  DEF ResetPassword, CooldownOver, TypeOK, TasksOK, Works, IdsOK, OnePending,
      RefundedExactlyOnce, Filed
<1>10. CASE Restart
  BY <1>10
  DEF Restart, TypeOK, TasksOK, Works, IdsOK, OnePending, RefundedExactlyOnce, Filed
<1>11. CASE UNCHANGED vars
  BY <1>11
  DEF vars, TypeOK, TasksOK, Works, IdsOK, OnePending, RefundedExactlyOnce, Filed
<1> QED
  BY <1>1, <1>2, <1>3, <1>4, <1>5, <1>6, <1>7, <1>8, <1>9, <1>10, <1>11 DEF Next

(***************************************************************************)
(* Wallets are never overdrawn and every row is a well-formed request, in   *)
(* every run of withdrawal_service.go (TypeOK).                             *)
(***************************************************************************)
THEOREM WithdrawalsTyped == Spec => []TypeOK
<1>1. IInv /\ [Next]_vars => IInv'
  BY StepHolds
<1>2. IInv => TypeOK
  BY DEF IInv
<1> QED
  BY InitHolds, <1>1, <1>2, PTL DEF Spec

(***************************************************************************)
(* A request turned down or taken back is refunded once and no other is,    *)
(* however many requests and administrators close it at the same time       *)
(* (refund, ResolveWithdrawal).                                             *)
(***************************************************************************)
THEOREM OneRefundPerRequest == Spec => []RefundedExactlyOnce
<1>1. IInv /\ [Next]_vars => IInv'
  BY StepHolds
<1>2. IInv => RefundedExactlyOnce
  BY DEF IInv
<1> QED
  BY InitHolds, <1>1, <1>2, PTL DEF Spec

(***************************************************************************)
(* The promise of Escrow.  What is held and what is sent are sums over the  *)
(* rows, so a step is mapped by what it does to these sums.                 *)
(***************************************************************************)
AmountOf == [i \in Filed |-> rows[i].amount]
RowsOf(u, status) == {i \in Filed : rows[i].user = u /\ rows[i].status = status}

LEMMA RowTyped ==
  ASSUME IInv, NEW i \in Filed
  PROVE  rows[i].user \in Users /\ rows[i].amount \in Nat /\ rows[i].status \in Statuses
<1>1. rows[i] \in [user : Users, amount : Amounts, status : Statuses]
  BY DEF IInv, TypeOK
<1>2. rows[i].user \in Users /\ rows[i].amount \in Amounts /\ rows[i].status \in Statuses
  BY <1>1
<1> QED
  BY <1>2, WithdrawalAssumption

\* Sums over the same rows with the same amounts are the same.
LEMMA SumStays ==
  ASSUME IInv, NEW u \in Users, NEW status \in Statuses,
         RowsOf(u, status)' = RowsOf(u, status),
         \A i \in RowsOf(u, status) : AmountOf'[i] = AmountOf[i]
  PROVE  SumOfRows(u, status)' = SumOfRows(u, status)
<1>1. IsFiniteSet(RowsOf(u, status))
  BY NextId, FS_Subset DEF IInv, RowsOf
<1>2. SumFunctionOnSet(AmountOf, RowsOf(u, status))
        = SumFunctionOnSet(AmountOf', RowsOf(u, status))
  BY <1>1, SumSame
<1> QED
  BY <1>2 DEF SumOfRows, AmountOf, RowsOf

\* One row more adds its amount.
LEMMA SumGrows ==
  ASSUME IInv, NEW u \in Users, NEW status \in Statuses, NEW i, NEW amount \in Nat,
         i \notin RowsOf(u, status), RowsOf(u, status)' = RowsOf(u, status) \cup {i},
         \A j \in RowsOf(u, status) : AmountOf'[j] = AmountOf[j],
         AmountOf'[i] = amount
  PROVE  SumOfRows(u, status)' = SumOfRows(u, status) + amount
<1> DEFINE S == RowsOf(u, status)
<1>1. IsFiniteSet(S) /\ IsFiniteSet(S \cup {i})
  BY NextId, FS_Subset, FS_AddElement DEF IInv, RowsOf
<1>2. \A j \in S : AmountOf[j] \in Int
  BY RowTyped DEF RowsOf, AmountOf
<1>3. \A j \in S \cup {i} : AmountOf'[j] \in Int
  BY <1>2
<1>4. SumFunctionOnSet(AmountOf', S \cup {i})
        = AmountOf'[i] + SumFunctionOnSet(AmountOf', (S \cup {i}) \ {i})
  <2> HIDE DEF S
  <2> QED
    BY <1>1, <1>3, SumSplit
<1>5. (S \cup {i}) \ {i} = S
  OBVIOUS
<1>6. SumFunctionOnSet(AmountOf, S) = SumFunctionOnSet(AmountOf', S)
  <2> HIDE DEF S
  <2> QED
    BY <1>1, SumSame DEF S
<1>7. SumFunctionOnSet(AmountOf, S) \in Int
  <2> HIDE DEF S
  <2> QED
    BY <1>1, <1>2, SumType
<1>8. SumFunctionOnSet(AmountOf', RowsOf(u, status)') = amount + SumFunctionOnSet(AmountOf, S)
  BY <1>4, <1>5, <1>6
<1> QED
  BY <1>7, <1>8 DEF SumOfRows, AmountOf, RowsOf

\* A sum over no rows is zero.
LEMMA NothingPending ==
  ASSUME NEW u, RowsOf(u, "pending") = {}
  PROVE  SumOfRows(u, "pending") = 0
<1>1. SumFunctionOnSet(AmountOf, {}) = 0
  BY SumOfNothing
<1> QED
  BY <1>1 DEF SumOfRows, AmountOf, RowsOf

\* A pending row is its user's only one, and holds its amount.
LEMMA PendingAmount ==
  ASSUME IInv, NEW i \in Filed, rows[i].status = "pending", NEW u, u = rows[i].user
  PROVE  SumOfRows(u, "pending") = rows[i].amount
<1>1. RowsOf(u, "pending") = {i}
  BY DEF IInv, OnePending, RowsOf
<1>2. IsFiniteSet({i}) /\ {i} \ {i} = {}
  BY FS_Singleton
<1>3. rows[i].amount \in Int /\ AmountOf[i] = rows[i].amount
  BY RowTyped DEF AmountOf
<1>4. SumFunctionOnSet(AmountOf, {i}) = AmountOf[i] + SumFunctionOnSet(AmountOf, {i} \ {i})
  BY <1>2, <1>3, SumSplit
<1>5. SumFunctionOnSet(AmountOf, {i} \ {i}) = 0
  BY <1>2, SumOfNothing
<1>6. SumOfRows(u, "pending") = SumFunctionOnSet(AmountOf, RowsOf(u, "pending"))
  BY DEF SumOfRows, AmountOf, RowsOf
<1>7. SumFunctionOnSet(AmountOf, {i}) = rows[i].amount
  BY <1>3, <1>4, <1>5
<1> QED
  BY <1>1, <1>6, <1>7, Zenon

Free == [u \in Users |-> wallet[u] + onTable[u]]
Held == [u \in Users |-> SumOfRows(u, "pending")]
Sent == [u \in Users |-> SumOfRows(u, "completed")]

\* Filing a request sets the amount aside.
LEMMA FilesSetsAside ==
  ASSUME IInv, NEW u \in Users, NEW amount \in Amounts,
         PendingOf(u) = {}, wallet[u] >= amount,
         NEW id, id = Cardinality(Filed) + 1, Files(u, amount, id), UNCHANGED onTable
  PROVE  Promise!SetAside(u, amount)
<1>0. amount \in Nat
  BY WithdrawalAssumption
<1>1. id \notin Filed
  BY NextId DEF IInv
<1>2. Filed' = Filed \cup {id}
  BY DEF Files, Filed
<1>3. /\ rows'[id] = [user |-> u, amount |-> amount, status |-> "pending"]
      /\ \A i \in Filed : rows'[i] = rows[i]
  BY <1>1 DEF Files
<1>4. \A i \in Filed : AmountOf'[i] = AmountOf[i]
  BY <1>2, <1>3 DEF AmountOf
<1>5. AmountOf'[id] = amount
  BY <1>2, <1>3 DEF AmountOf
<1>6. RowsOf(u, "pending") = {} /\ RowsOf(u, "pending")' = {id}
  BY <1>1, <1>2, <1>3 DEF RowsOf, PendingOf
<1>7. SumOfRows(u, "pending") = 0
  BY <1>6, NothingPending
<1>8. SumOfRows(u, "pending")' = amount
  <2>1. SumOfRows(u, "pending")' = SumOfRows(u, "pending") + amount
    BY <1>0, <1>1, <1>4, <1>5, <1>6, SumGrows DEF Statuses, RowsOf
  <2> QED
    BY <1>0, <1>7, <2>1
<1>9. ASSUME NEW v \in Users, v # u PROVE SumOfRows(v, "pending")' = SumOfRows(v, "pending")
  <2>1. RowsOf(v, "pending")' = RowsOf(v, "pending")
    BY <1>2, <1>3, <1>9 DEF RowsOf
  <2> QED
    BY <1>4, <2>1, SumStays DEF Statuses, RowsOf
<1>10. ASSUME NEW v \in Users PROVE SumOfRows(v, "completed")' = SumOfRows(v, "completed")
  <2>1. RowsOf(v, "completed")' = RowsOf(v, "completed")
    BY <1>2, <1>3 DEF RowsOf
  <2> QED
    BY <1>4, <2>1, SumStays DEF Statuses, RowsOf
<1>11. Free' = [Free EXCEPT ![u] = @ - amount] /\ amount <= Free[u]
  <2>1. /\ wallet \in [Users -> Nat] /\ onTable \in [Users -> Nat]
        /\ wallet' = [wallet EXCEPT ![u] = @ - amount] /\ onTable' = onTable
    BY DEF IInv, TypeOK, Files
  <2>2. Free' = [Free EXCEPT ![u] = @ - amount]
    <3>1. ASSUME NEW v \in Users
          PROVE  Free'[v] = IF v = u THEN Free[u] - amount ELSE Free[v]
      <4>1. /\ Free'[v] = wallet'[v] + onTable'[v]
            /\ Free[v] = wallet[v] + onTable[v]
        BY DEF Free
      <4>2. CASE v = u
        <5>1. wallet'[u] = wallet[u] - amount /\ onTable'[u] = onTable[u]
          BY <2>1
        <5>2. wallet[u] \in Int /\ onTable[u] \in Int /\ amount \in Int
          BY <1>0, <2>1
        <5> QED
          BY <4>1, <4>2, <5>1, <5>2
      <4>3. CASE v # u
        BY <2>1, <4>1, <4>3
      <4> QED
        BY <4>2, <4>3
    <3>2. Free' = [v \in Users |-> Free'[v]]
      BY DEF Free
    <3>3. [Free EXCEPT ![u] = @ - amount]
            = [v \in Users |-> IF v = u THEN Free[u] - amount ELSE Free[v]]
      BY DEF Free
    <3> QED
      BY <3>1, <3>2, <3>3, Zenon
  <2>3. amount <= Free[u]
    BY <1>0, <2>1 DEF Free
  <2> QED
    BY <2>2, <2>3
<1>12. Held' = [Held EXCEPT ![u] = amount] /\ Held[u] = 0
  BY <1>7, <1>8, <1>9 DEF Held
<1>13. Sent' = Sent
  BY <1>10 DEF Sent
<1> QED
  BY <1>11, <1>12, <1>13 DEF Promise!SetAside, Free, Held, Sent

\* What closing a request does to the sums.
LEMMA ResolveSums ==
  ASSUME IInv, NEW i \in Filed, NEW status \in Statuses \ {"pending"}, Resolve(i, status),
         NEW u, u = rows[i].user, NEW amount, amount = rows[i].amount
  PROVE  /\ u \in Users /\ amount \in Nat /\ Held[u] = amount
         /\ Held' = [Held EXCEPT ![u] = 0]
         /\ Sent' = IF status = "completed" THEN [Sent EXCEPT ![u] = @ + amount] ELSE Sent
<1>1. /\ Filed' = Filed
      /\ rows'[i] = [rows[i] EXCEPT !.status = status]
      /\ \A j \in Filed \ {i} : rows'[j] = rows[j]
      /\ rows[i].status = "pending"
  BY DEF Resolve, Filed
<1>2. rows[i] \in [user : Users, amount : Amounts, status : Statuses]
  BY DEF IInv, TypeOK
<1>3. u \in Users /\ amount \in Nat
  BY <1>2, WithdrawalAssumption
<1>4. /\ rows'[i].user = u /\ rows'[i].status = status /\ rows'[i].amount = amount
  BY <1>1, <1>2
<1>5. \A j \in Filed : AmountOf'[j] = AmountOf[j]
  BY <1>1, <1>4 DEF AmountOf
<1>6. SumOfRows(u, "pending") = amount
  BY <1>1, PendingAmount
<1>7. SumOfRows(u, "pending")' = 0
  <2>1. RowsOf(u, "pending")' = {}
    <3>1. \A j \in Filed : rows[j].status = "pending" /\ rows[j].user = u => j = i
      BY <1>1 DEF IInv, OnePending
    <3>2. ASSUME NEW j \in Filed PROVE ~(rows'[j].user = u /\ rows'[j].status = "pending")
      <4>1. CASE j = i
        BY <1>4, <4>1
      <4>2. CASE j # i
        BY <1>1, <3>1, <4>2
      <4> QED
        BY <4>1, <4>2
    <3>3. RowsOf(u, "pending")' = {j \in Filed : rows'[j].user = u /\ rows'[j].status = "pending"}
      BY <1>1 DEF RowsOf
    <3> QED
      BY <3>2, <3>3
  <2>2. SumFunctionOnSet(AmountOf', {}) = 0
    BY SumOfNothing
  <2> QED
    BY <2>1, <2>2 DEF SumOfRows, AmountOf, RowsOf
<1>8. ASSUME NEW v \in Users, v # u PROVE SumOfRows(v, "pending")' = SumOfRows(v, "pending")
  <2>1. RowsOf(v, "pending")' = RowsOf(v, "pending")
    BY <1>1, <1>4, <1>8 DEF RowsOf
  <2> QED
    BY <1>5, <2>1, SumStays DEF Statuses, RowsOf
<1>9. ASSUME NEW v \in Users, v # u \/ status # "completed"
      PROVE  SumOfRows(v, "completed")' = SumOfRows(v, "completed")
  <2>1. RowsOf(v, "completed")' = RowsOf(v, "completed")
    BY <1>1, <1>4, <1>9 DEF RowsOf
  <2> QED
    BY <1>5, <2>1, SumStays DEF Statuses, RowsOf
<1>10. ASSUME status = "completed"
       PROVE  SumOfRows(u, "completed")' = SumOfRows(u, "completed") + amount
  <2>1. /\ i \notin RowsOf(u, "completed")
        /\ RowsOf(u, "completed")' = RowsOf(u, "completed") \cup {i}
    <3>1. i \in Filed /\ rows[i].status # "completed"
      BY <1>1
    <3>2. RowsOf(u, "completed")' = {j \in Filed : rows'[j].user = u /\ rows'[j].status = "completed"}
      BY <1>1 DEF RowsOf
    <3>3. rows'[i].user = u /\ rows'[i].status = "completed"
      BY <1>1, <1>4, <1>10
    <3>4. \A j \in Filed \ {i} : rows'[j] = rows[j]
      BY <1>1
    <3> QED
      BY <3>1, <3>2, <3>3, <3>4 DEF RowsOf
  <2>2. AmountOf'[i] = amount
    BY <1>1, <1>4 DEF AmountOf
  <2> QED
    BY <1>3, <1>5, <2>1, <2>2, SumGrows DEF Statuses, RowsOf
<1>11. Held[u] = amount /\ Held' = [Held EXCEPT ![u] = 0]
  BY <1>3, <1>6, <1>7, <1>8 DEF Held
<1>12. Sent' = IF status = "completed" THEN [Sent EXCEPT ![u] = @ + amount] ELSE Sent
  BY <1>3, <1>9, <1>10 DEF Sent
<1> QED
  BY <1>3, <1>11, <1>12

LEMMA RefundGivesBack ==
  ASSUME IInv, NEW i, NEW status \in {"cancelled", "rejected"}, Refund(i, status),
         UNCHANGED onTable
  PROVE  Promise!Next
<1>1. i \in Filed /\ Resolve(i, status)
  BY DEF Refund, Resolve
<1> PICK u, amount : u = rows[i].user /\ amount = rows[i].amount
  OBVIOUS
<1>2. /\ u \in Users /\ amount \in Nat /\ Held[u] = amount
      /\ Held' = [Held EXCEPT ![u] = 0]
      /\ Sent' = Sent
  BY <1>1, ResolveSums DEF Statuses
<1>3. Free' = [Free EXCEPT ![u] = @ + amount]
  BY <1>2 DEF IInv, TypeOK, Refund, Free
<1>4. Promise!GiveBack(u)
  BY <1>2, <1>3 DEF Promise!GiveBack, Free, Held, Sent
<1> QED
  BY <1>2, <1>4 DEF Promise!Next

LEMMA CompletePaysOut ==
  ASSUME IInv, NEW i \in Filed, Complete(i)
  PROVE  Promise!Next
<1> PICK u, amount : u = rows[i].user /\ amount = rows[i].amount
  OBVIOUS
<1>1. /\ u \in Users /\ amount \in Nat /\ Held[u] = amount
      /\ Held' = [Held EXCEPT ![u] = 0]
      /\ Sent' = [Sent EXCEPT ![u] = @ + amount]
  BY ResolveSums DEF Complete, Statuses
<1>2. Free' = Free
  BY DEF Complete, Free
<1>3. Promise!PayOut(u)
  BY <1>1, <1>2 DEF Promise!PayOut, Free, Held, Sent
<1> QED
  BY <1>1, <1>3 DEF Promise!Next

\* Nothing is set aside or settled while the rows stay and money only moves
\* between a wallet and a table.
LEMMA OnlyMoves ==
  ASSUME UNCHANGED rows, Free' = Free
  PROVE  UNCHANGED Promise!vars
<1>1. Held' = Held /\ Sent' = Sent
  BY DEF Held, Sent, SumOfRows, Filed
<1> QED
  BY <1>1 DEF Promise!vars, Free, Held, Sent

LEMMA PromiseStep ==
  ASSUME IInv, [Next]_vars
  PROVE  [Promise!Next]_(Promise!vars)
<1>1. ASSUME UNCHANGED <<rows, wallet, onTable>> PROVE UNCHANGED Promise!vars
  BY <1>1, OnlyMoves DEF Free
<1>2. ASSUME NEW p \in Requests, NEW u \in Users, NEW amount \in Amounts, Ask(p, u, amount)
      PROVE  UNCHANGED Promise!vars
  BY <1>1, <1>2 DEF Ask
<1>3. ASSUME NEW p \in Requests, NEW u \in Users, NEW i \in Filed, AskCancel(p, u, i)
      PROVE  UNCHANGED Promise!vars
  BY <1>1, <1>3 DEF AskCancel
<1>4. ASSUME NEW p \in Requests, File(p) PROVE [Promise!Next]_(Promise!vars)
  <2>1. task[p].user \in Users /\ task[p].amount \in Amounts
    BY <1>4 DEF IInv, File, TasksOK, Works, Idle
  <2>2. CASE PendingOf(task[p].user) = {} /\ wallet[task[p].user] >= task[p].amount
    <3>1. PICK u \in Users, amount \in Amounts, id \in {Cardinality(Filed) + 1} :
            u = task[p].user /\ amount = task[p].amount /\ id = Cardinality(Filed) + 1
      BY <2>1
    <3>2. Files(u, amount, id) /\ UNCHANGED onTable
      BY <1>4, <2>2, <3>1 DEF File, Files
    <3>3. Promise!SetAside(u, amount)
      BY <2>2, <3>1, <3>2, FilesSetsAside
    <3> QED
      BY <3>3 DEF Promise!Next
  <2>3. CASE UNCHANGED <<rows, wallet, refunds>>
    BY <1>1, <1>4, <2>3 DEF File
  <2> QED
    BY <1>4, <2>2, <2>3 DEF File
<1>5. ASSUME NEW p \in Requests, Cancel(p) PROVE [Promise!Next]_(Promise!vars)
  <2>1. CASE Refund(task[p].id, "cancelled")
    BY <1>5, <2>1, RefundGivesBack DEF Cancel
  <2>2. CASE UNCHANGED <<rows, wallet, refunds>>
    BY <1>1, <1>5, <2>2 DEF Cancel
  <2> QED
    BY <1>5, <2>1, <2>2 DEF Cancel
<1>6. ASSUME NEW i \in Filed, Reject(i) PROVE Promise!Next
  BY <1>6, RefundGivesBack DEF Reject
<1>7. ASSUME NEW i \in Filed, Complete(i) PROVE Promise!Next
  BY <1>7, CompletePaysOut
<1>8. ASSUME NEW u \in Users, NEW amount \in Amounts, Debit(u, amount)
      PROVE  UNCHANGED Promise!vars
  <2>1. amount \in Nat
    BY WithdrawalAssumption
  <2>2. Free' = Free
    BY <1>8, <2>1 DEF IInv, TypeOK, Debit, Free
  <2> QED
    BY <1>8, <2>2, OnlyMoves DEF Debit
<1>9. ASSUME NEW u \in Users, CashOut(u) PROVE UNCHANGED Promise!vars
  <2>1. Free' = Free
    BY <1>9 DEF IInv, TypeOK, CashOut, Free
  <2> QED
    BY <1>9, <2>1, OnlyMoves DEF CashOut
<1>10. ASSUME NEW u \in Users, ResetPassword(u) \/ CooldownOver(u)
       PROVE  UNCHANGED Promise!vars
  BY <1>1, <1>10 DEF ResetPassword, CooldownOver
<1>11. CASE Restart
  BY <1>1, <1>11 DEF Restart
<1>12. CASE UNCHANGED vars
  BY <1>1, <1>12 DEF vars
<1> QED
  BY <1>2, <1>3, <1>4, <1>5, <1>6, <1>7, <1>8, <1>9, <1>10, <1>11, <1>12 DEF Next

(***************************************************************************)
(* Withdrawals implement Escrow: a request sets its amount aside once, and  *)
(* completing it pays out, rejecting or cancelling it gives back, exactly   *)
(* what was set aside (Request, refund, Complete).                          *)
(***************************************************************************)
THEOREM KeepsEscrow == Spec => PromiseKept
<1>1. Init => Promise!Init
  <2> SUFFICES ASSUME Init PROVE Promise!Init
    OBVIOUS
  <2>1. Filed = {}
    BY DEF Init, Filed
  <2>2. \A u \in Users, status \in Statuses : SumOfRows(u, status) = 0
    BY <2>1, SumOfNothing DEF SumOfRows
  <2> QED
    BY <2>2, WithdrawalAssumption DEF Init, Promise!Init, Statuses
<1>2. IInv /\ [Next]_vars => IInv'
  BY StepHolds
<1>3. IInv /\ [Next]_vars => [Promise!Next]_(Promise!vars)
  BY PromiseStep
<1> QED
  BY InitHolds, <1>1, <1>2, <1>3, PTL DEF Spec, PromiseKept, Promise!Spec
=============================================================================
