-------------------------- MODULE BankDepositsProof --------------------------
(***************************************************************************)
(* Proofs about BankDeposits, for any number of users, links, transfers and *)
(* tasks.                                                                   *)
(***************************************************************************)
EXTENDS BankDeposits, TLAPS

(***************************************************************************)
(* Type correctness, action by action.                                      *)
(***************************************************************************)
LEMMA SubmitTyped ==
  ASSUME TypeOK, NEW p \in Submitters, SubmitStep(p)
  PROVE  TypeOK'
<1>0. p \in Tasks
  BY DEF Tasks
<1>1. ASSUME NEW u \in Users, NEW l \in Urls, Submit(p, u, l) PROVE TypeOK'
  BY <1>0, <1>1 DEF TypeOK, Submit, Doing, Works, Deeds, Resolving, Filed
<1>2. CASE Queue(p)
  <2>1. task[p].url \in Urls /\ task[p].user \in Users
    BY <1>0, <1>2 DEF TypeOK, Queue
  <2>2. /\ Filed' \subseteq Urls
        /\ Filed \subseteq Filed'
        /\ \A l \in Filed' : rows'[l] \in Rows
    BY <1>2, <2>1 DEF TypeOK, Queue, Filing, NewRow, Rows, Statuses, Filed
  <2> QED
    BY <1>0, <1>2, <2>1, <2>2
    DEF TypeOK, Queue, Done, Idle, NoMoney, Works, Deeds, Resolving
<1>3. CASE Refuse(p)
  BY <1>0, <1>3 DEF TypeOK, Refuse, Done, Idle, NoMoney, Works, Deeds, Resolving, Filed
<1>4. CASE CreditFresh(p)
  <2>1. task[p].url \in Urls /\ task[p].user \in Users
    BY <1>0, <1>4 DEF TypeOK, CreditFresh
  <2>2. /\ TransferOf[task[p].url] \in Transfers
        /\ AmountOf[TransferOf[task[p].url]] \in Nat
    BY <1>4, DepositAssumption DEF CreditFresh
  <2>3. /\ Filed' \subseteq Urls
        /\ Filed \subseteq Filed'
        /\ \A l \in Filed' : rows'[l] \in Rows
    BY <1>4, <2>1, <2>2 DEF TypeOK, CreditFresh, Filing, NewRow, Rows, Statuses, Filed
  <2>4. wallet' \in [Users -> Nat] /\ credits' \in [Urls -> Nat]
    BY <1>4, <2>1, <2>2 DEF TypeOK, CreditFresh, Pay
  <2> QED
    BY <1>0, <1>4, <2>1, <2>3, <2>4
    DEF TypeOK, CreditFresh, Done, Idle, Works, Deeds, Resolving
<1> QED
  BY <1>1, <1>2, <1>3, <1>4 DEF SubmitStep

\* A row in hand may be decided in two ways: rejected, or credited.
LEMMA DecidedTyped ==
  ASSUME TypeOK, NEW l \in Filed, NEW status \in Statuses,
         NEW t \in Transfers \cup {None}, NEW amount \in Nat,
         rows' = Resolved(l, status, t, amount)
  PROVE  Filed' = Filed /\ \A x \in Filed' : rows'[x] \in Rows
BY DEF TypeOK, Resolved, Rows, Filed

LEMMA PaidTyped ==
  ASSUME TypeOK, NEW l \in Urls, NEW u \in Users, NEW amount \in Nat,
         Pay(l, u, amount)
  PROVE  wallet' \in [Users -> Nat] /\ credits' \in [Urls -> Nat]
BY DEF TypeOK, Pay

LEMMA VerdictTyped ==
  ASSUME TypeOK, NEW p \in Tasks, task[p].doing \in {"approving", "retrying"},
         Verdict(p, Done(p)) \/ Verdict(p, task' = [task EXCEPT ![p].doing = "claimed"]),
         UNCHANGED batch
  PROVE  TypeOK'
<1> DEFINE l == task[p].url
<1>0. /\ l \in Filed /\ task[p].user \in Users
      /\ l \in Urls
      /\ task[p] \in Works
  BY DEF TypeOK, Resolving
<1>1. \/ task' = [task EXCEPT ![p] = Idle]
      \/ task' = [task EXCEPT ![p].doing = "claimed"]
  BY DEF Verdict, Done, Reject, CreditQueued
<1>2. /\ task' \in [Tasks -> Works]
      /\ \A q \in Tasks :
           /\ task'[q].doing # "idle" => task'[q].url \in Urls /\ task'[q].user \in Users
           /\ task'[q].doing \in Resolving => task'[q].url \in Filed
  <2>1. CASE task' = [task EXCEPT ![p] = Idle]
    BY <2>1 DEF TypeOK, Idle, Works, Deeds, Resolving
  <2>2. CASE task' = [task EXCEPT ![p].doing = "claimed"]
    <3>1. [task[p] EXCEPT !.doing = "claimed"] \in Works
      BY <1>0 DEF Works, Deeds, Resolving
    <3>2. /\ task'[p].url = l /\ task'[p].user = task[p].user
          /\ \A q \in Tasks : q # p => task'[q] = task[q]
      BY <1>0, <2>2 DEF TypeOK, Works
    <3> QED
      BY <1>0, <2>2, <3>1, <3>2 DEF TypeOK
  <2> QED
    BY <1>1, <2>1, <2>2
<1>3. CASE UNCHANGED <<rows, wallet, credits>>
  BY <1>2, <1>3 DEF TypeOK, Filed
<1>4. CASE Reject(p)
  <2>1. Filed' = Filed /\ \A x \in Filed' : rows'[x] \in Rows
    BY <1>0, <1>4, DecidedTyped DEF Reject, Statuses
  <2> QED
    BY <1>2, <1>4, <2>1 DEF TypeOK, Reject, NoMoney
<1>5. CASE /\ l \in Accepted
           /\ rows' = Resolved(l, "credited", TransferOf[l], AmountOf[TransferOf[l]])
           /\ Pay(l, task[p].user, AmountOf[TransferOf[l]])
  <2>1. TransferOf[l] \in Transfers /\ AmountOf[TransferOf[l]] \in Nat
    BY <1>5, DepositAssumption
  <2>2. Filed' = Filed /\ \A x \in Filed' : rows'[x] \in Rows
    BY <1>0, <1>5, <2>1, DecidedTyped DEF Statuses
  <2>3. wallet' \in [Users -> Nat] /\ credits' \in [Urls -> Nat]
    BY <1>0, <1>5, <2>1, PaidTyped
  <2> QED
    BY <1>2, <2>2, <2>3 DEF TypeOK
<1> QED
  BY <1>3, <1>4, <1>5 DEF Verdict, CreditQueued

LEMMA AdminTyped ==
  ASSUME TypeOK, NEW p \in Admins, AdminStep(p)
  PROVE  TypeOK'
<1>0. p \in Tasks
  BY DEF Tasks, Resolvers
<1>1. ASSUME NEW l \in Urls, NEW what \in {"approving", "crediting by hand", "rejecting"},
             TakeUp(p, what, l)
      PROVE  TypeOK'
  BY <1>0, <1>1 DEF TypeOK, TakeUp, Doing, Works, Rows, Deeds, Resolving, Filed
<1>2. CASE ApproveQueued(p)
  BY <1>0, <1>2, VerdictTyped DEF ApproveQueued
<1>3. CASE CreditManually(p)
  <2>0. task[p].url \in Filed /\ task[p].user \in Users
    BY <1>0, <1>3 DEF TypeOK, CreditManually, Resolving
  <2>1. PICK amount \in ManualAmounts,
             t \in Transfers \cup {None} :
          CreditQueued(p, t, amount, Done(p))
    BY <1>3 DEF CreditManually
  <2>2. amount \in Nat
    BY DepositAssumption
  <2>3. task' = [task EXCEPT ![p] = Idle] /\ UNCHANGED batch
    BY <1>3, <2>1 DEF CreditManually, CreditQueued, Done
  <2>4. CASE UNCHANGED <<rows, wallet, credits>>
    BY <1>0, <2>3, <2>4 DEF TypeOK, Idle, Works, Deeds, Resolving, Filed
  <2>5. CASE /\ rows' = Resolved(task[p].url, "credited", t, amount)
             /\ Pay(task[p].url, task[p].user, amount)
    <3>1. Filed' = Filed /\ \A x \in Filed' : rows'[x] \in Rows
      BY <2>0, <2>2, <2>5, DecidedTyped DEF Statuses
    <3>2. wallet' \in [Users -> Nat] /\ credits' \in [Urls -> Nat]
      BY <2>0, <2>2, <2>5, PaidTyped DEF TypeOK
    <3> QED
      BY <1>0, <2>3, <3>1, <3>2 DEF TypeOK, Idle, Works, Deeds, Resolving
  <2> QED
    BY <2>1, <2>4, <2>5 DEF CreditQueued
<1>4. CASE RejectQueued(p)
  <2>1. Filed' = Filed /\ \A x \in Filed' : rows'[x] \in Rows
    BY <1>0, <1>4, DecidedTyped DEF RejectQueued, Reject, Statuses, TypeOK, Resolving
  <2> QED
    BY <1>0, <1>4, <2>1
    DEF TypeOK, RejectQueued, Reject, Done, NoMoney, Idle, Works, Deeds, Resolving
<1> QED
  BY <1>1, <1>2, <1>3, <1>4 DEF AdminStep

LEMMA SweepTyped ==
  ASSUME TypeOK, NEW p \in Sweepers, SweepStep(p)
  PROVE  TypeOK'
<1>0. p \in Tasks
  BY DEF Tasks, Resolvers
<1>1. CASE SweepList(p)
  BY <1>1 DEF TypeOK, SweepList, Filed
<1>2. ASSUME NEW l \in Urls, SweepTouch(p, l) PROVE TypeOK'
  <2>1. l \in Filed /\ rows[l].user \in Users
    BY <1>2 DEF TypeOK, SweepTouch, Rows
  <2>2. Filed' = Filed /\ \A x \in Filed' : rows'[x] \in Rows
    BY <1>2, <2>1 DEF TypeOK, SweepTouch, Rows, Filed
  <2>3. Doing("retrying", l, rows[l].user) \in Works
    BY <2>1 DEF Doing, Works, Deeds, Resolving
  <2> QED
    BY <1>0, <1>2, <2>1, <2>2, <2>3 DEF TypeOK, SweepTouch, Doing, NoMoney, Resolving
<1>3. CASE RetryQueued(p)
  BY <1>0, <1>3, VerdictTyped DEF RetryQueued
<1>4. CASE RejectClaimed(p)
  <2>1. Filed' = Filed /\ \A x \in Filed' : rows'[x] \in Rows
    BY <1>0, <1>4, DecidedTyped DEF RejectClaimed, Reject, Statuses, TypeOK, Resolving
  <2> QED
    BY <1>0, <1>4, <2>1
    DEF TypeOK, RejectClaimed, Reject, Done, NoMoney, Idle, Works, Deeds, Resolving
<1> QED
  BY <1>1, <1>2, <1>3, <1>4 DEF SweepStep

(***************************************************************************)
(* The table, the wallets and the tasks always have their types: no task    *)
(* ever works on a receipt that is not on file, and a transfer that is      *)
(* credited is one of the bank's.                                           *)
(***************************************************************************)
THEOREM TypeCorrect == Spec => []TypeOK
<1>1. Init => TypeOK
  <2> SUFFICES ASSUME Init PROVE TypeOK
    OBVIOUS
  <2>1. Filed = {} /\ batch \subseteq Filed
    BY DEF Init, Filed
  <2>2. task \in [Tasks -> Works] /\ \A p \in Tasks : task[p].doing = "idle"
    BY DEF Init, Idle, Works, Deeds
  <2>3. wallet \in [Users -> Nat] /\ credits \in [Urls -> Nat]
    BY DEF Init
  <2> QED
    BY <2>1, <2>2, <2>3 DEF TypeOK, Resolving
<1>2. TypeOK /\ [Next]_vars => TypeOK'
  <2> SUFFICES ASSUME TypeOK, [Next]_vars PROVE TypeOK'
    OBVIOUS
  <2>1. CASE Restart
    BY <2>1 DEF TypeOK, Restart, Idle, Works, Deeds, Resolving, Filed
  <2>2. CASE UNCHANGED vars
    BY <2>2 DEF TypeOK, vars, Filed
  <2> QED
    BY <2>1, <2>2, SubmitTyped, AdminTyped, SweepTyped DEF Next
<1> QED
  BY <1>1, <1>2, PTL DEF Spec

(***************************************************************************)
(* One transfer, one credit: what the three ways of writing a row do to it. *)
(***************************************************************************)
LEMMA FiledOnce ==
  ASSUME TypeOK, OneTransferOneCredit,
         NEW l \in DOMAIN TransferOf \ Filed, NEW u \in Users, NEW amount \in Nat,
         Free(TransferOf[l], l),
         rows' = Filing(l, NewRow(u, "credited", TransferOf[l], amount)),
         Pay(l, u, amount)
  PROVE  OneTransferOneCredit'
<1>0. l \in Urls /\ TransferOf[l] # None
  BY DepositAssumption
<1>1. /\ Credited(l)' /\ ~Credited(l)
      /\ \A x \in Urls : x # l =>
           (Credited(x)' <=> Credited(x)) /\ (Misfiled(x)' <=> Misfiled(x))
  BY DEF Filing, NewRow, Filed, Credited, Misfiled
<1>2. \A x \in Urls : credits'[x] = IF Credited(x)' THEN 1 ELSE 0
  BY <1>0, <1>1 DEF OneTransferOneCredit, Pay, TypeOK
<1>3. \A x \in DOMAIN TransferOf :
        x # l /\ TransferOf[x] = TransferOf[l] /\ Credited(x) => Misfiled(x)
  BY <1>0 DEF Free, Credited, Misfiled
<1> QED
  BY <1>1, <1>2, <1>3, DepositAssumption DEF OneTransferOneCredit

LEMMA ResolvedOnce ==
  ASSUME TypeOK, OneTransferOneCredit,
         NEW l \in Filed, rows[l].status = "pending_review",
         NEW u \in Users, NEW t \in Transfers \cup {None}, NEW amount \in Nat,
         Free(t, l), rows' = Resolved(l, "credited", t, amount), Pay(l, u, amount)
  PROVE  OneTransferOneCredit'
<1>0. l \in Urls
  BY DEF TypeOK
<1>1. /\ Credited(l)' /\ ~Credited(l)
      /\ rows'[l].reference = t
      /\ \A x \in Urls : x # l =>
           (Credited(x)' <=> Credited(x)) /\ (Misfiled(x)' <=> Misfiled(x))
  BY DEF Resolved, Filed, Credited, Misfiled, TypeOK, Rows
<1>2. \A x \in Urls : credits'[x] = IF Credited(x)' THEN 1 ELSE 0
  BY <1>0, <1>1 DEF OneTransferOneCredit, Pay, TypeOK
<1>3. ASSUME NEW x \in DOMAIN TransferOf, x # l, l \in DOMAIN TransferOf,
             TransferOf[x] = TransferOf[l], Credited(x)
      PROVE  Misfiled(x) \/ Misfiled(l)'
  <2>1. CASE t = TransferOf[l]
    BY <1>3, <2>1, DepositAssumption DEF Free, Credited, Misfiled
  <2>2. CASE t # TransferOf[l]
    BY <1>1, <2>2 DEF Misfiled
  <2> QED
    BY <2>1, <2>2
<1> QED
  BY <1>1, <1>2, <1>3, DepositAssumption DEF OneTransferOneCredit

LEMMA RejectedOnce ==
  ASSUME TypeOK, OneTransferOneCredit,
         NEW l \in Filed, rows[l].status = "pending_review",
         rows' = Resolved(l, "rejected", None, 0), NoMoney
  PROVE  OneTransferOneCredit'
<1>1. \A x \in Urls : (Credited(x)' <=> Credited(x)) /\ (Misfiled(x)' <=> Misfiled(x))
  BY DEF Resolved, Filed, Credited, Misfiled, TypeOK, Rows
<1> QED
  BY <1>1, DepositAssumption DEF OneTransferOneCredit, NoMoney

LEMMA UncreditedOnce ==
  ASSUME TypeOK, OneTransferOneCredit, Filed \subseteq Filed', UNCHANGED credits,
         \A x \in Filed : /\ rows'[x].status = rows[x].status
                          /\ rows'[x].reference = rows[x].reference,
         \A x \in Filed' \ Filed : rows'[x].status # "credited"
  PROVE  OneTransferOneCredit'
<1>1. \A x \in Urls : (Credited(x)' <=> Credited(x)) /\ (Misfiled(x)' <=> Misfiled(x))
  BY DEF Credited, Misfiled
<1> QED
  BY <1>1, DepositAssumption DEF OneTransferOneCredit

LEMMA VerdictOnce ==
  ASSUME TypeOK, OneTransferOneCredit,
         NEW p \in Tasks, task[p].doing \in {"approving", "retrying"},
         Verdict(p, Done(p)) \/ Verdict(p, task' = [task EXCEPT ![p].doing = "claimed"]),
         \A q \in Tasks : task'[q] # task[q] => ~Stale(q)
  PROVE  OneTransferOneCredit'
<1> DEFINE l == task[p].url
<1>0. l \in Filed /\ task[p].user \in Users
  BY DEF TypeOK, Resolving
<1>1. CASE UNCHANGED <<rows, wallet, credits>>
  BY <1>1 DEF OneTransferOneCredit, Misfiled, Credited, Filed
<1>2. CASE Reject(p)
  <2>1. task'[p] # task[p]
    BY <1>2 DEF Reject, Done, Idle, TypeOK
  <2>2. rows[l].status = "pending_review"
    BY <2>1 DEF Stale, Resolving
  <2> QED
    BY <1>0, <1>2, <2>2, RejectedOnce DEF Reject
<1>3. CASE /\ l \in Accepted
           /\ Free(TransferOf[l], l)
           /\ rows' = Resolved(l, "credited", TransferOf[l], AmountOf[TransferOf[l]])
           /\ Pay(l, task[p].user, AmountOf[TransferOf[l]])
           /\ Done(p)
  <2>1. task'[p] # task[p]
    BY <1>3 DEF Done, Idle, TypeOK
  <2>2. rows[l].status = "pending_review"
    BY <2>1 DEF Stale, Resolving
  <2>3. TransferOf[l] \in Transfers /\ AmountOf[TransferOf[l]] \in Nat
    BY <1>3, DepositAssumption
  <2> QED
    BY <1>0, <1>3, <2>2, <2>3, ResolvedOnce
<1> QED
  BY <1>1, <1>2, <1>3 DEF Verdict, CreditQueued

LEMMA StepOnce ==
  ASSUME TypeOK, OneTransferOneCredit, Next,
         \A q \in Tasks : task'[q] # task[q] => ~Stale(q)
  PROVE  OneTransferOneCredit'
<1>1. CASE UNCHANGED <<rows, credits>>
  BY <1>1 DEF OneTransferOneCredit, Misfiled, Credited, Filed
<1>2. ASSUME NEW p \in Submitters, SubmitStep(p) PROVE OneTransferOneCredit'
  <2>0. p \in Tasks
    BY DEF Tasks
  <2>1. CASE Queue(p)
    <3>1. /\ Filed \subseteq Filed' /\ UNCHANGED credits
          /\ \A x \in Filed : rows'[x] = rows[x]
          /\ \A x \in Filed' \ Filed : rows'[x].status # "credited"
      BY <2>1 DEF Queue, Filing, NewRow, NoMoney, Filed
    <3> QED
      BY <3>1, UncreditedOnce
  <2>2. CASE CreditFresh(p)
    <3>1. task[p].url \in Urls /\ task[p].user \in Users
      BY <2>0, <2>2 DEF CreditFresh, TypeOK
    <3>2. /\ TransferOf[task[p].url] \in Transfers
          /\ AmountOf[TransferOf[task[p].url]] \in Nat
      BY <2>2, DepositAssumption DEF CreditFresh
    <3> QED
      BY <1>1, <2>2, <3>1, <3>2, FiledOnce, DepositAssumption DEF CreditFresh
  <2> QED
    BY <1>1, <1>2, <2>1, <2>2 DEF SubmitStep, Submit, Refuse, NoMoney
<1>3. ASSUME NEW p \in Admins, AdminStep(p) PROVE OneTransferOneCredit'
  <2>0. p \in Tasks
    BY DEF Tasks, Resolvers
  <2>1. CASE ApproveQueued(p)
    BY <2>0, <2>1, VerdictOnce DEF ApproveQueued
  <2>2. CASE CreditManually(p)
    <3>0. /\ task[p].url \in Filed /\ task[p].user \in Users
          /\ task[p].doing = "crediting by hand"
      BY <2>0, <2>2 DEF TypeOK, CreditManually, Resolving
    <3>1. PICK amount \in ManualAmounts,
               t \in Transfers \cup {None} :
            CreditQueued(p, t, amount, Done(p))
      BY <2>2 DEF CreditManually
    <3>2. amount \in Nat
      BY DepositAssumption
    <3>3. task'[p] # task[p]
      <4>1. task' = [task EXCEPT ![p] = Idle]
        BY <3>1 DEF CreditQueued, Done
      <4>2. task'[p] = Idle
        BY <2>0, <4>1 DEF TypeOK
      <4>3. Idle.doing = "idle"
        BY DEF Idle
      <4> QED
        BY <3>0, <4>2, <4>3
    <3>4. rows[task[p].url].status = "pending_review"
      BY <2>0, <3>0, <3>3 DEF Stale, Resolving
    <3> QED
      BY <1>1, <3>0, <3>1, <3>2, <3>4, ResolvedOnce DEF CreditQueued
  <2>3. CASE RejectQueued(p)
    <3>1. task[p].url \in Filed
      BY <2>0, <2>3 DEF TypeOK, RejectQueued, Resolving
    <3>2. task'[p] # task[p]
      BY <2>0, <2>3 DEF TypeOK, RejectQueued, Reject, Done, Idle
    <3> QED
      BY <2>0, <2>3, <3>1, <3>2, RejectedOnce DEF RejectQueued, Reject, Stale, Resolving
  <2> QED
    BY <1>1, <1>3, <2>1, <2>2, <2>3 DEF AdminStep, TakeUp
<1>4. ASSUME NEW p \in Sweepers, SweepStep(p) PROVE OneTransferOneCredit'
  <2>0. p \in Tasks
    BY DEF Tasks, Resolvers
  <2>1. ASSUME NEW l \in Urls, SweepTouch(p, l) PROVE OneTransferOneCredit'
    <3>1. /\ Filed' = Filed /\ UNCHANGED credits
          /\ \A x \in Filed : /\ rows'[x].status = rows[x].status
                              /\ rows'[x].reference = rows[x].reference
      BY <2>1 DEF SweepTouch, NoMoney, Filed, TypeOK, Rows
    <3> QED
      BY <3>1, UncreditedOnce
  <2>2. CASE RetryQueued(p)
    BY <2>0, <2>2, VerdictOnce DEF RetryQueued
  <2>3. CASE RejectClaimed(p)
    <3>1. task[p].url \in Filed
      BY <2>0, <2>3 DEF TypeOK, RejectClaimed, Resolving
    <3>2. task'[p] # task[p]
      BY <2>0, <2>3 DEF TypeOK, RejectClaimed, Reject, Done, Idle
    <3> QED
      BY <2>0, <2>3, <3>1, <3>2, RejectedOnce DEF RejectClaimed, Reject, Stale, Resolving
  <2> QED
    BY <1>1, <1>4, <2>1, <2>2, <2>3 DEF SweepStep, SweepList
<1> QED
  BY <1>1, <1>2, <1>3, <1>4 DEF Next, Restart

(***************************************************************************)
(* Whatever overlaps and whatever number is typed, only a task whose row    *)
(* was decided by another since it was read can pay a receipt twice, take   *)
(* its row from money already paid, or credit both receipts of a transfer   *)
(* under its own number.  A transfer credited by hand without its number is *)
(* outside the rule: it may be paid once more through its other receipt.    *)
(***************************************************************************)
THEOREM OnlyStaleHands == Spec => OnlyAStaleHandBreaksTheRule
<1>1. TypeOK /\ [Next]_vars
        => [OneTransferOneCredit /\ (\A p \in Tasks : task'[p] # task[p] => ~Stale(p))
              => OneTransferOneCredit']_vars
  BY StepOnce
<1> QED
  BY <1>1, TypeCorrect, PTL DEF Spec, OnlyAStaleHandBreaksTheRule

-----------------------------------------------------------------------------
(***************************************************************************)
(* What deposits promise where one task at most, be it the worker or one    *)
(* administrator, takes rows out of the queue; any number of people submit. *)
(***************************************************************************)

OneResolver == \A p, q \in Resolvers : p = q

(***************************************************************************)
(* The strengthening that makes the promise inductive: what is in a hand or *)
(* in the worker's batch is still pending, and never in both.               *)
(***************************************************************************)
Hands ==
  /\ \A p \in Tasks :
       /\ task[p].doing \in {"approving", "crediting by hand", "rejecting"} => p \in Admins
       /\ task[p].doing \in {"retrying", "claimed"} => p \in Sweepers
       /\ ~Stale(p)
       /\ p \in Sweepers /\ task[p].doing \in Resolving => task[p].url \notin batch
  /\ \A l \in batch : rows[l].status = "pending_review"
  /\ batch # {} => Sweepers # {}

\* A step that decides the row in p's hand, or leaves it be, and puts p at rest.
LEMMA HandsDecide ==
  ASSUME TypeOK, Hands, OneResolver,
         NEW p \in Tasks, task[p].doing \in Resolving,
         task' = [task EXCEPT ![p] = Idle], UNCHANGED batch,
         \A x \in Filed : x # task[p].url => rows'[x] = rows[x]
  PROVE  Hands'
<1>1. p \in Resolvers
  BY DEF Hands, Resolvers, Resolving
<1>2. task'[p].doing = "idle" /\ \A q \in Tasks : q # p => task'[q] = task[q]
  BY DEF TypeOK, Idle
<1>3. \A q \in Tasks : task'[q].doing \notin Resolving
  <2>1. \A q \in Tasks : task[q].doing \in Resolving => q \in Resolvers
    BY DEF Hands, Resolvers, Resolving
  <2> QED
    BY <1>1, <1>2, <2>1 DEF OneResolver, Resolving
<1>4. task[p].url \notin batch
  <2>1. CASE p \in Sweepers
    BY <2>1 DEF Hands
  <2>2. CASE p \in Admins
    <3>1. Sweepers = {}
      BY <1>1, <2>2, DepositAssumption DEF OneResolver, Resolvers
    <3> QED
      BY <3>1 DEF Hands
  <2> QED
    BY <1>1, <2>1, <2>2 DEF Resolvers
<1>5. \A l \in batch' : rows'[l].status = "pending_review"
  BY <1>4 DEF Hands, TypeOK
<1> QED
  BY <1>3, <1>5 DEF Hands, Stale, Resolving

\* A step that changes no row and nobody's hand but p's, which holds no row of
\* the queue afterwards.
LEMMA HandsSubmit ==
  ASSUME TypeOK, Hands, NEW p \in Tasks, task[p].doing \notin Resolving,
         task' \in [Tasks -> Works], task'[p].doing \notin Resolving,
         \A q \in Tasks : q # p => task'[q] = task[q],
         \A x \in Filed : rows'[x] = rows[x], UNCHANGED batch
  PROVE  Hands'
<1>1. \A q \in Tasks : task'[q].doing \in Resolving => task'[q] = task[q]
  OBVIOUS
<1>2. \A l \in batch' : rows'[l].status = "pending_review"
  BY DEF Hands, TypeOK
<1>3. \A q \in Tasks : ~Stale(q)'
  <2> TAKE q \in Tasks
  <2>1. SUFFICES ASSUME task'[q].doing \in Resolving
                 PROVE  rows'[task'[q].url].status = "pending_review"
    BY DEF Stale
  <2>2. task'[q] = task[q] /\ task[q].doing \in Resolving
    BY <1>1, <2>1
  <2>3. task[q].url \in Filed
    BY <2>2 DEF TypeOK
  <2>4. rows[task[q].url].status = "pending_review"
    BY <2>2 DEF Hands, Stale
  <2> QED
    BY <2>2, <2>3, <2>4
<1> QED
  BY <1>1, <1>2, <1>3 DEF Hands, Resolving

LEMMA HandsStep ==
  ASSUME TypeOK, Hands, OneResolver, [Next]_vars
  PROVE  Hands'
<1>1. CASE UNCHANGED vars
  BY <1>1 DEF vars, Hands, Stale
<1>2. CASE Restart
  BY <1>2 DEF Restart, Hands, Stale, Idle, Resolving
<1>3. ASSUME NEW p \in Submitters, SubmitStep(p) PROVE Hands'
  <2>0. p \in Tasks
    BY DEF Tasks
  <2>1. ASSUME NEW u \in Users, NEW l \in Urls, Submit(p, u, l) PROVE Hands'
    <3>1. task[p].doing = "idle" /\ UNCHANGED <<rows, batch>>
      BY <2>1 DEF Submit, Idle
    <3>2. TypeOK'
      BY <1>3, SubmitTyped
    <3>3. task'[p].doing = "submitting" /\ \A q \in Tasks : q # p => task'[q] = task[q]
      BY <2>0, <2>1 DEF TypeOK, Submit, Doing
    <3> QED
      BY <2>0, <3>1, <3>2, <3>3, HandsSubmit DEF Resolving, TypeOK
  <2>2. CASE Queue(p) \/ Refuse(p) \/ CreditFresh(p)
    <3>1. task[p].doing = "submitting" /\ task' = [task EXCEPT ![p] = Idle]
      BY <2>2 DEF Queue, Refuse, CreditFresh, Done
    <3>2. UNCHANGED batch /\ \A x \in Filed : rows'[x] = rows[x]
      BY <2>2 DEF Queue, Refuse, CreditFresh, Filing, Filed
    <3>3. TypeOK'
      BY <1>3, SubmitTyped
    <3>4. task'[p].doing = "idle" /\ \A q \in Tasks : q # p => task'[q] = task[q]
      BY <2>0, <3>1 DEF TypeOK, Idle
    <3> QED
      BY <2>0, <3>1, <3>2, <3>3, <3>4, HandsSubmit DEF Resolving, TypeOK
  <2> QED
    BY <1>3, <2>1, <2>2 DEF SubmitStep
<1>4. ASSUME NEW p \in Admins, AdminStep(p) PROVE Hands'
  <2>0. p \in Tasks /\ p \in Resolvers
    BY DEF Tasks, Resolvers
  <2>1. ASSUME NEW l \in Urls, NEW what \in {"approving", "crediting by hand", "rejecting"},
               TakeUp(p, what, l)
        PROVE  Hands'
    <3>1. /\ task'[p].doing = what /\ task'[p].url = l
          /\ \A q \in Tasks : q # p => task'[q] = task[q]
      BY <2>0, <2>1 DEF TakeUp, Doing, TypeOK
    <3>2. UNCHANGED <<rows, batch>> /\ rows[l].status = "pending_review"
      BY <2>1 DEF TakeUp
    <3>3. p \notin Sweepers
      BY DepositAssumption
    <3> QED
      BY <3>1, <3>2, <3>3 DEF Hands, Stale, Resolving
  <2>2. CASE ApproveQueued(p) \/ CreditManually(p) \/ RejectQueued(p)
    <3>1. task[p].doing \in Resolving /\ task' = [task EXCEPT ![p] = Idle] /\ UNCHANGED batch
      BY <2>2 DEF ApproveQueued, CreditManually, RejectQueued, Verdict, Reject,
                  CreditQueued, Done, Resolving
    <3>2. \A x \in Filed : x # task[p].url => rows'[x] = rows[x]
      BY <2>2 DEF ApproveQueued, CreditManually, RejectQueued, Verdict, Reject,
                  CreditQueued, Resolved, Filed
    <3> QED
      BY <2>0, <3>1, <3>2, HandsDecide
  <2> QED
    BY <1>4, <2>1, <2>2 DEF AdminStep
<1>5. ASSUME NEW p \in Sweepers, SweepStep(p) PROVE Hands'
  <2>0. p \in Tasks /\ p \in Resolvers
    BY DEF Tasks, Resolvers
  <2>a. \A q \in Tasks : task[q].doing \in Resolving => q = p
    BY <2>0 DEF Hands, OneResolver, Resolvers, Resolving
  <2>1. CASE SweepList(p)
    <3>1. \A q \in Tasks : task[q].doing \notin Resolving
      <4>1. task[p].doing = "idle"
        BY <2>1 DEF SweepList, Idle
      <4> QED
        BY <2>a, <4>1 DEF Resolving
    <3> QED
      BY <2>1, <3>1 DEF SweepList, Hands, Stale, Resolving
  <2>2. ASSUME NEW l \in Urls, SweepTouch(p, l) PROVE Hands'
    <3>1. /\ task'[p].doing = "retrying" /\ task'[p].url = l
          /\ \A q \in Tasks : q # p => task'[q] = task[q]
      BY <2>0, <2>2 DEF SweepTouch, Doing, TypeOK
    <3>2. batch' = batch \ {l} /\ l \in batch
      BY <2>2 DEF SweepTouch
    <3>3. \A x \in Filed : rows'[x].status = rows[x].status
      BY <2>2 DEF SweepTouch, TypeOK, Rows, Filed
    <3>4. \A x \in batch : rows'[x].status = "pending_review"
      BY <3>3 DEF Hands, TypeOK
    <3>5. p \notin Admins
      BY DepositAssumption
    <3>6. \A q \in Tasks : q # p => task'[q].doing \notin Resolving
      BY <2>a, <3>1
    <3> QED
      BY <3>1, <3>2, <3>4, <3>5, <3>6 DEF Hands, Stale, Resolving
  <2>3. CASE (RetryQueued(p) \/ RejectClaimed(p)) /\ Done(p)
    <3>1. task[p].doing \in Resolving /\ task' = [task EXCEPT ![p] = Idle] /\ UNCHANGED batch
      BY <2>3 DEF RetryQueued, RejectClaimed, Done, Resolving
    <3>2. \A x \in Filed : x # task[p].url => rows'[x] = rows[x]
      BY <2>3 DEF RetryQueued, RejectClaimed, Verdict, Reject, CreditQueued, Resolved, Filed
    <3> QED
      BY <2>0, <3>1, <3>2, HandsDecide
  <2>4. CASE RetryQueued(p) /\ task' = [task EXCEPT ![p].doing = "claimed"] /\ UNCHANGED rows
    <3>1. /\ task'[p].doing = "claimed" /\ task'[p].url = task[p].url
          /\ \A q \in Tasks : q # p => task'[q] = task[q]
      BY <2>0, <2>4 DEF TypeOK, Works
    <3>2. task[p].doing = "retrying" /\ UNCHANGED batch
      BY <2>4 DEF RetryQueued
    <3>3. p \notin Admins
      BY DepositAssumption
    <3>4. \A q \in Tasks : ~Stale(q)'
      BY <2>0, <2>4, <3>1, <3>2 DEF Hands, Stale, Resolving
    <3>5. \A q \in Tasks : q \in Sweepers /\ task'[q].doing \in Resolving
                             => task'[q].url \notin batch'
      BY <2>0, <3>1, <3>2 DEF Hands, Resolving
    <3>6. /\ \A l \in batch' : rows'[l].status = "pending_review"
          /\ batch' # {} => Sweepers # {}
      BY <2>4, <3>2 DEF Hands
    <3>7. \A q \in Tasks :
            /\ task'[q].doing \in {"approving", "crediting by hand", "rejecting"} => q \in Admins
            /\ task'[q].doing \in {"retrying", "claimed"} => q \in Sweepers
      BY <1>5, <3>1 DEF Hands
    <3> QED
      BY <3>4, <3>5, <3>6, <3>7 DEF Hands
  <2> QED
    BY <1>5, <2>1, <2>2, <2>3, <2>4
    DEF SweepStep, RetryQueued, RejectClaimed, Verdict, CreditQueued, Reject
<1> QED
  BY <1>1, <1>2, <1>3, <1>4, <1>5 DEF Next

(***************************************************************************)
(* With one task at a time taking rows out of the queue, a receipt is paid  *)
(* out once if its row says credited and never otherwise, and a transfer    *)
(* through two receipts only where one was credited by hand without its     *)
(* own number.                                                              *)
(***************************************************************************)
THEOREM OneCredit == ASSUME OneResolver PROVE Spec => []OneTransferOneCredit
<1>1. Init => Hands /\ OneTransferOneCredit
  <2> SUFFICES ASSUME Init PROVE Hands /\ OneTransferOneCredit
    OBVIOUS
  <2>1. Filed = {} /\ batch = {} /\ \A p \in Tasks : task[p].doing = "idle"
    BY DEF Init, Filed, Idle
  <2>2. \A l \in Urls : credits[l] = 0
    BY DEF Init
  <2> QED
    BY <2>1, <2>2 DEF Hands, OneTransferOneCredit, Credited, Stale, Resolving
<1>2. TypeOK /\ Hands /\ OneTransferOneCredit /\ [Next]_vars => Hands' /\ OneTransferOneCredit'
  <2> SUFFICES ASSUME TypeOK, Hands, OneTransferOneCredit, [Next]_vars
               PROVE  Hands' /\ OneTransferOneCredit'
    OBVIOUS
  <2>1. CASE UNCHANGED vars
    BY <2>1, HandsStep DEF vars, OneTransferOneCredit, Misfiled, Credited, Filed
  <2>2. CASE Next
    BY <2>2, HandsStep, StepOnce DEF Hands
  <2> QED
    BY <2>1, <2>2
<1> QED
  BY <1>1, <1>2, TypeCorrect, PTL DEF Spec

(***************************************************************************)
(* How a step writes the table, if it does: a row is filed in the queue, or *)
(* filed as credited, or one in hand is rejected, or credited, or the       *)
(* attempt at one in the batch is recorded.                                 *)
(***************************************************************************)
Enqueues(l, u) == rows' = Filing(l, NewRow(u, "pending_review", None, 0))
Files(l, u, t, amount) ==
  Free(t, l) /\ rows' = Filing(l, NewRow(u, "credited", t, amount))
Rejects(l) == rows' = Resolved(l, "rejected", None, 0)
Credits(l, t, amount) == Free(t, l) /\ rows' = Resolved(l, "credited", t, amount)
Touches(l) == rows' = [rows EXCEPT ![l].attempts = @ + 1]

InHand(l) == \E p \in Tasks : task[p].doing \in Resolving /\ task[p].url = l

Writes ==
  \/ UNCHANGED rows
  \/ \E l \in Urls \ Filed, u \in Users :
       \/ Enqueues(l, u)
       \/ \E t \in Transfers, amount \in Nat : Files(l, u, t, amount)
  \/ \E l \in Filed :
       /\ InHand(l)
       /\ \/ Rejects(l)
          \/ \E t \in Transfers \cup {None}, amount \in Nat : Credits(l, t, amount)
  \/ \E l \in batch : Touches(l)

LEMMA VerdictWrites ==
  ASSUME TypeOK, NEW p \in Tasks, task[p].doing \in {"approving", "retrying"},
         Verdict(p, Done(p)) \/ Verdict(p, task' = [task EXCEPT ![p].doing = "claimed"])
  PROVE  Writes
<1>1. task[p].url \in Filed /\ InHand(task[p].url)
  BY DEF TypeOK, InHand, Resolving
<1>2. \/ UNCHANGED rows
      \/ Rejects(task[p].url)
      \/ /\ task[p].url \in Accepted
         /\ Credits(task[p].url, TransferOf[task[p].url], AmountOf[TransferOf[task[p].url]])
  BY DEF Verdict, Reject, CreditQueued, Rejects, Credits
<1>3. task[p].url \in Accepted =>
        /\ TransferOf[task[p].url] \in Transfers
        /\ AmountOf[TransferOf[task[p].url]] \in Nat
  BY DepositAssumption
<1> QED
  BY <1>1, <1>2, <1>3 DEF Writes

LEMMA NextWrites == ASSUME TypeOK, [Next]_vars PROVE Writes
<1>1. CASE UNCHANGED rows
  BY <1>1 DEF Writes
<1>2. ASSUME NEW p \in Submitters, Queue(p) PROVE Writes
  <2>1. task[p].url \in Urls /\ task[p].user \in Users
    BY <1>2 DEF TypeOK, Queue, Tasks
  <2>2. UNCHANGED rows \/ (task[p].url \notin Filed /\ Enqueues(task[p].url, task[p].user))
    BY <1>2 DEF Queue, Enqueues
  <2> QED
    BY <2>1, <2>2 DEF Writes
<1>3. ASSUME NEW p \in Submitters, CreditFresh(p) PROVE Writes
  <2>1. task[p].url \in Urls /\ task[p].user \in Users
    BY <1>3 DEF TypeOK, CreditFresh, Tasks
  <2>2. /\ TransferOf[task[p].url] \in Transfers
        /\ AmountOf[TransferOf[task[p].url]] \in Nat
    BY <1>3, DepositAssumption DEF CreditFresh
  <2>3. \/ UNCHANGED rows
        \/ /\ task[p].url \notin Filed
           /\ Files(task[p].url, task[p].user, TransferOf[task[p].url],
                    AmountOf[TransferOf[task[p].url]])
    BY <1>3 DEF CreditFresh, Files
  <2> QED
    BY <2>1, <2>2, <2>3 DEF Writes
<1>4. ASSUME NEW p \in Admins, AdminStep(p) PROVE Writes
  <2>0. p \in Tasks
    BY DEF Tasks, Resolvers
  <2>1. CASE ApproveQueued(p)
    BY <2>0, <2>1, VerdictWrites DEF ApproveQueued
  <2>2. CASE CreditManually(p)
    <3>1. task[p].url \in Filed /\ InHand(task[p].url)
      BY <2>0, <2>2 DEF TypeOK, CreditManually, InHand, Resolving
    <3>2. PICK amount \in ManualAmounts,
               t \in Transfers \cup {None} :
            CreditQueued(p, t, amount, Done(p))
      BY <2>2 DEF CreditManually
    <3>3. amount \in Nat
      BY DepositAssumption
    <3>4. UNCHANGED rows \/ Credits(task[p].url, t, amount)
      BY <3>2 DEF CreditQueued, Credits
    <3> QED
      BY <3>1, <3>3, <3>4 DEF Writes
  <2>3. CASE RejectQueued(p)
    BY <2>0, <2>3 DEF RejectQueued, Reject, Rejects, InHand, Resolving, TypeOK, Writes
  <2> QED
    BY <1>1, <1>4, <2>1, <2>2, <2>3 DEF AdminStep, TakeUp
<1>5. ASSUME NEW p \in Sweepers, SweepStep(p) PROVE Writes
  <2>0. p \in Tasks
    BY DEF Tasks, Resolvers
  <2>1. ASSUME NEW l \in Urls, SweepTouch(p, l) PROVE Writes
    BY <2>1 DEF SweepTouch, Touches, Writes
  <2>2. CASE RetryQueued(p)
    BY <2>0, <2>2, VerdictWrites DEF RetryQueued
  <2>3. CASE RejectClaimed(p)
    BY <2>0, <2>3 DEF RejectClaimed, Reject, Rejects, InHand, Resolving, TypeOK, Writes
  <2> QED
    BY <1>1, <1>5, <2>1, <2>2, <2>3 DEF SweepStep, SweepList
<1> QED
  BY <1>1, <1>2, <1>3, <1>4, <1>5 DEF Next, SubmitStep, Submit, Refuse, Restart, vars

\* What Hands says of a row that is written again.
LEMMA InHandIsPending ==
  ASSUME TypeOK, Hands, NEW l \in Filed, InHand(l) \/ l \in batch
  PROVE  rows[l].status = "pending_review"
BY DEF InHand, Hands, Stale

LEMMA DecidedStays ==
  ASSUME TypeOK, Hands, [Next]_vars, NEW l \in Filed, rows[l].status # "pending_review"
  PROVE  l \in Filed' /\ rows'[l] = rows[l]
<1>1. Writes
  BY NextWrites
<1>2. ~InHand(l) /\ l \notin batch
  BY InHandIsPending
<1> QED
  BY <1>1, <1>2
  DEF Writes, Enqueues, Files, Rejects, Credits, Touches, Filing, Resolved, Filed

LEMMA InvariantHands == ASSUME OneResolver PROVE Spec => [](TypeOK /\ Hands)
<1>1. Init => Hands
  <2> SUFFICES ASSUME Init PROVE Hands
    OBVIOUS
  <2>1. batch = {} /\ \A p \in Tasks : task[p].doing = "idle"
    BY DEF Init, Idle
  <2> QED
    BY <2>1 DEF Hands, Stale, Resolving
<1>2. TypeOK /\ Hands /\ [Next]_vars => Hands'
  BY HandsStep
<1> QED
  BY <1>1, <1>2, TypeCorrect, PTL DEF Spec

(***************************************************************************)
(* With one task at a time taking rows out of the queue, a receipt that was *)
(* credited or rejected stays as it is.                                     *)
(***************************************************************************)
THEOREM FinalRows == ASSUME OneResolver PROVE Spec => RowsAreFinal
<1>1. TypeOK /\ Hands /\ [Next]_vars
        => [\A l \in Filed : rows[l].status # "pending_review"
              => l \in Filed' /\ rows'[l] = rows[l]]_vars
  BY DecidedStays
<1> QED
  BY <1>1, InvariantHands, PTL DEF Spec, RowsAreFinal

(***************************************************************************)
(* The refinement of OncePerTransfer.                                       *)
(***************************************************************************)
\* The UNIQUE index does what it is there for.
OneRowPerReference ==
  \A l, m \in Filed :
    rows[l].reference # None /\ rows[l].reference = rows[m].reference => l = m

LEMMA StaysUnique ==
  ASSUME TypeOK, OneRowPerReference, Writes
  PROVE  OneRowPerReference'
<1>1. CASE UNCHANGED rows
  BY <1>1 DEF OneRowPerReference, Filed
<1>2. ASSUME NEW l \in Urls \ Filed, NEW u \in Users, Enqueues(l, u)
      PROVE  OneRowPerReference'
  BY <1>2 DEF Enqueues, Filing, NewRow, Filed, OneRowPerReference
<1>3. ASSUME NEW l \in Urls \ Filed, NEW u \in Users, NEW t \in Transfers,
             NEW amount \in Nat, Files(l, u, t, amount)
      PROVE  OneRowPerReference'
  <2>1. t # None
    BY DepositAssumption
  <2> QED
    BY <1>3, <2>1 DEF Files, Free, Filing, NewRow, Filed, OneRowPerReference
<1>4. ASSUME NEW l \in Filed, Rejects(l) PROVE OneRowPerReference'
  BY <1>4 DEF Rejects, Resolved, Filed, OneRowPerReference, TypeOK, Rows
<1>5. ASSUME NEW l \in Filed, NEW t \in Transfers \cup {None}, NEW amount \in Nat,
             Credits(l, t, amount)
      PROVE  OneRowPerReference'
  <2>1. Filed' = Filed /\ \A x \in Filed : rows'[x].reference = IF x = l THEN t ELSE rows[x].reference
    BY <1>5 DEF Credits, Resolved, Filed, TypeOK, Rows
  <2> QED
    BY <1>5, <2>1 DEF Credits, Free, OneRowPerReference
<1>6. ASSUME NEW l \in batch, Touches(l) PROVE OneRowPerReference'
  <2>1. Filed' = Filed /\ \A x \in Filed : rows'[x].reference = rows[x].reference
    BY <1>6 DEF Touches, Filed, TypeOK, Rows
  <2> QED
    BY <2>1 DEF OneRowPerReference
<1> QED
  BY <1>1, <1>2, <1>3, <1>4, <1>5, <1>6 DEF Writes

Paid(t) == \E l \in Filed : Claims(l, t)

\* PaidTo, read off the rows.
PaidToByRow ==
  /\ PaidTo = [t \in DOMAIN PaidTo |-> PaidTo[t]]
  /\ DOMAIN PaidTo = {t \in Transfers : Paid(t)}
  /\ \A l \in Filed, t \in Transfers : Claims(l, t) => PaidTo[t] = rows[l].user

LEMMA PaidToIs == TypeOK /\ OneRowPerReference => PaidToByRow
<1> SUFFICES ASSUME TypeOK, OneRowPerReference PROVE PaidToByRow
  OBVIOUS
<1>1. PaidTo = [t \in DOMAIN PaidTo |-> PaidTo[t]]
  BY DEF PaidTo
<1>2. DOMAIN PaidTo = {rows[l].reference : l \in {x \in Filed : rows[x].status = "credited"}} \ {None}
  BY DEF PaidTo
<1>3. DOMAIN PaidTo = {t \in Transfers : Paid(t)}
  <2>1. \A l \in Filed : rows[l].reference \in Transfers \cup {None}
    BY DEF TypeOK, Rows
  <2>2. None \notin Transfers
    BY DepositAssumption
  <2> QED
    BY <1>2, <2>1, <2>2 DEF Paid, Claims, Credited
<1>4. ASSUME NEW l \in Filed, NEW t \in Transfers, Claims(l, t)
      PROVE  PaidTo[t] = rows[l].user
  <2>1. t \in DOMAIN PaidTo
    BY <1>3, <1>4 DEF Paid
  <2>2. PaidTo[t] = rows[CHOOSE x \in Filed : Claims(x, t)].user
    BY <2>1 DEF PaidTo
  <2>3. PICK c \in Filed : c = (CHOOSE x \in Filed : Claims(x, t)) /\ Claims(c, t)
    BY <1>4
  <2>4. c = l
    BY <1>4, <2>3, DepositAssumption DEF OneRowPerReference, Claims, Credited
  <2> QED
    BY <2>2, <2>3, <2>4
<1> QED
  BY <1>1, <1>3, <1>4 DEF PaidToByRow

\* A step that leaves every claim in place and adds none does not show.
LEMMA NothingPaid ==
  ASSUME TypeOK, OneRowPerReference, TypeOK', OneRowPerReference',
         \A t \in Transfers : Paid(t)' <=> Paid(t),
         \A l \in Filed, t \in Transfers :
           Claims(l, t) => l \in Filed' /\ Claims(l, t)' /\ rows'[l].user = rows[l].user
  PROVE  PaidTo' = PaidTo
<1>0. PaidToByRow
  BY PaidToIs
<1>1. PaidToByRow'
  BY PaidToIs, PTL
<1>2. DOMAIN PaidTo' = DOMAIN PaidTo
  BY <1>0, <1>1 DEF PaidToByRow
<1>3. \A t \in DOMAIN PaidTo : PaidTo'[t] = PaidTo[t]
  <2> TAKE t \in DOMAIN PaidTo
  <2>1. PICK l \in Filed : t \in Transfers /\ Claims(l, t)
    BY <1>0 DEF Paid, PaidToByRow
  <2> QED
    BY <1>0, <1>1, <2>1 DEF PaidToByRow
<1> QED
  BY <1>0, <1>1, <1>2, <1>3 DEF PaidToByRow

\* A step that adds one claim on a transfer not yet paid is a credit.
LEMMA OnePaid ==
  ASSUME TypeOK, OneRowPerReference, TypeOK', OneRowPerReference',
         NEW t \in Transfers, NEW c \in Urls, c \in Filed', Claims(c, t)', ~Paid(t),
         \A y \in Transfers : Paid(y)' <=> (Paid(y) \/ y = t),
         \A l \in Filed, y \in Transfers :
           Claims(l, y) => l \in Filed' /\ Claims(l, y)' /\ rows'[l].user = rows[l].user
  PROVE  Promise!Next
<1> DEFINE u == rows'[c].user
<1>0. PaidToByRow
  BY PaidToIs
<1>1. PaidToByRow'
  BY PaidToIs, PTL
<1>2. u \in Users
  BY DEF TypeOK, Rows
<1>3. t \notin DOMAIN PaidTo /\ DOMAIN PaidTo' = DOMAIN PaidTo \cup {t}
  BY <1>0, <1>1 DEF PaidToByRow
<1>4. PaidTo'[t] = u
  BY <1>1 DEF PaidToByRow
<1>5. \A y \in DOMAIN PaidTo : PaidTo'[y] = PaidTo[y]
  <2> TAKE y \in DOMAIN PaidTo
  <2>1. PICK l \in Filed : y \in Transfers /\ Claims(l, y)
    BY <1>0 DEF Paid, PaidToByRow
  <2> QED
    BY <1>0, <1>1, <2>1 DEF PaidToByRow
<1>6. PaidTo' = [x \in DOMAIN PaidTo \cup {t} |-> IF x = t THEN u ELSE PaidTo[x]]
  BY <1>1, <1>3, <1>4, <1>5 DEF PaidToByRow
<1> QED
  BY <1>2, <1>3, <1>6 DEF Promise!Next, Promise!Credit

LEMMA PromiseStep ==
  ASSUME TypeOK, Hands, OneRowPerReference, TypeOK', OneRowPerReference', [Next]_vars
  PROVE  [Promise!Next]_PaidTo
<1>1. Writes
  BY NextWrites
<1>2. \A l \in Filed, y \in Transfers :
        Claims(l, y) => l \in Filed' /\ Claims(l, y)' /\ rows'[l].user = rows[l].user
  BY DecidedStays DEF Claims, Credited
<1>3. CASE \A t \in Transfers : Paid(t)' => Paid(t)
  <2>1. \A t \in Transfers : Paid(t)' <=> Paid(t)
    BY <1>2, <1>3 DEF Paid
  <2> QED
    BY <1>2, <2>1, NothingPaid
<1>4. ASSUME NEW c \in Urls, NEW t \in Transfers, Free(t, c), c \in Filed', Claims(c, t)',
             c \in Filed => rows[c].status = "pending_review",
             \A x \in Filed', y \in Transfers : Claims(x, y)' => Claims(x, y) \/ (x = c /\ y = t)
      PROVE  [Promise!Next]_PaidTo
  <2>1. ~Paid(t)
    BY <1>4, DepositAssumption DEF Paid, Free, Claims, Credited
  <2>2. \A y \in Transfers : Paid(y)' <=> (Paid(y) \/ y = t)
    BY <1>2, <1>4 DEF Paid, Claims, Credited
  <2> QED
    BY <1>2, <1>4, <2>1, <2>2, OnePaid
<1>5. ASSUME NEW l \in Urls \ Filed, NEW u \in Users, NEW t \in Transfers,
             NEW amount \in Nat, Files(l, u, t, amount)
      PROVE  [Promise!Next]_PaidTo
  <2>1. l \in Filed' /\ Claims(l, t)'
    BY <1>5 DEF Files, Filing, NewRow, Claims, Credited, Filed
  <2>2. \A x \in Filed', y \in Transfers : Claims(x, y)' => Claims(x, y) \/ (x = l /\ y = t)
    BY <1>5 DEF Files, Filing, NewRow, Claims, Credited, Filed
  <2> QED
    BY <1>4, <1>5, <2>1, <2>2 DEF Files
<1>6. ASSUME NEW l \in Filed, InHand(l), NEW t \in Transfers, NEW amount \in Nat,
             Credits(l, t, amount)
      PROVE  [Promise!Next]_PaidTo
  <2>1. l \in Filed' /\ Claims(l, t)' /\ l \in Urls
    BY <1>6 DEF Credits, Resolved, Claims, Credited, Filed, TypeOK, Rows
  <2>2. \A x \in Filed', y \in Transfers : Claims(x, y)' => Claims(x, y) \/ (x = l /\ y = t)
    BY <1>6 DEF Credits, Resolved, Claims, Credited, Filed, TypeOK, Rows
  <2>3. rows[l].status = "pending_review"
    BY <1>6, InHandIsPending
  <2> QED
    BY <1>4, <1>6, <2>1, <2>2, <2>3 DEF Credits
<1>7. \/ \A t \in Transfers : Paid(t)' => Paid(t)
      \/ \E l \in Urls \ Filed, u \in Users, t \in Transfers, amount \in Nat :
           Files(l, u, t, amount)
      \/ \E l \in Filed, t \in Transfers, amount \in Nat : InHand(l) /\ Credits(l, t, amount)
  <2>1. CASE UNCHANGED rows
    BY <2>1 DEF Paid, Claims, Credited, Filed
  <2>2. ASSUME NEW l \in Urls \ Filed, NEW u \in Users, Enqueues(l, u)
        PROVE  \A t \in Transfers : Paid(t)' => Paid(t)
    BY <2>2 DEF Enqueues, Filing, NewRow, Paid, Claims, Credited, Filed
  <2>3. ASSUME NEW l \in Filed, Rejects(l)
        PROVE  \A t \in Transfers : Paid(t)' => Paid(t)
    BY <2>3 DEF Rejects, Resolved, Paid, Claims, Credited, Filed, TypeOK, Rows
  <2>4. ASSUME NEW l \in Filed, NEW amount \in Nat, Credits(l, None, amount)
        PROVE  \A t \in Transfers : Paid(t)' => Paid(t)
    <3>1. \A x \in Filed', y \in Transfers : Claims(x, y)' => x # l /\ Claims(x, y) /\ x \in Filed
      BY <2>4, DepositAssumption DEF Credits, Resolved, Claims, Credited, Filed, TypeOK, Rows
    <3> QED
      BY <3>1 DEF Paid
  <2>5. ASSUME NEW l \in batch, Touches(l)
        PROVE  \A t \in Transfers : Paid(t)' => Paid(t)
    BY <2>5 DEF Touches, Paid, Claims, Credited, Filed, TypeOK, Rows
  <2> QED
    BY <1>1, <2>1, <2>2, <2>3, <2>4, <2>5 DEF Writes
<1> QED
  BY <1>3, <1>5, <1>6, <1>7

(***************************************************************************)
(* With one task at a time taking rows out of the queue, deposits implement *)
(* OncePerTransfer, read off the references of credited rows: a reference   *)
(* is claimed for one user, once, for good, typed by hand or not.           *)
(***************************************************************************)
THEOREM KeepsPromise == ASSUME OneResolver PROVE Spec => PromiseKept
<1>1. Init => Promise!Init /\ OneRowPerReference
  <2> SUFFICES ASSUME Init PROVE Promise!Init /\ OneRowPerReference
    OBVIOUS
  <2>1. Filed = {}
    BY DEF Init, Filed
  <2>2. PaidTo = [t \in {} |-> t]
    BY <2>1 DEF PaidTo
  <2> QED
    BY <2>1, <2>2 DEF Promise!Init, OneRowPerReference
<1>2. TypeOK /\ OneRowPerReference /\ [Next]_vars => OneRowPerReference'
  BY NextWrites, StaysUnique
<1>3. TypeOK /\ Hands /\ OneRowPerReference /\ TypeOK' /\ OneRowPerReference' /\ [Next]_vars
        => [Promise!Next]_PaidTo
  BY PromiseStep
<1> QED
  BY <1>1, <1>2, <1>3, InvariantHands, PTL DEF Spec, PromiseKept, Promise!Spec
=============================================================================
