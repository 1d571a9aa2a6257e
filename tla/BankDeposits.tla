---------------------------- MODULE BankDeposits ----------------------------
(***************************************************************************)
(* Bank receipts: deposit_service.go over the bank_deposits table.          *)
(*                                                                          *)
(* Every request and the background sweep is a task of its own.  A task     *)
(* reads the row, asks the verifier for up to two minutes, and then writes: *)
(* between its steps the other tasks run.  A database statement, and the    *)
(* transaction of creditRow, is one step.                                   *)
(*                                                                          *)
(* A row is known by its receipt URL, which is UNIQUE; rows are never       *)
(* deleted.  The transfer behind a URL, and whether the verifier can read   *)
(* its receipt, are fixed facts; only whether it can be reached is not.     *)
(***************************************************************************)
EXTENDS Naturals, FiniteSets

CONSTANTS
  Users,
  Urls,               \* receipt links
  Transfers,          \* what the bank calls a reference
  TransferOf,         \* the transfer behind each link that is the receipt of one
  Accepted,           \* the links the verifier reads and validateReceipt accepts;
                      \*   the others the bank or we refuse
  AmountOf,           \* transfer -> whole ETB
  ManualAmounts,      \* what an administrator may type
  Submitters,         \* requests to SubmitReceipt
  Admins,             \* requests to ApproveQueued, CreditManually, RejectQueued
  Sweepers,           \* StartQueueWorker's goroutine: one, or none
  MaxQueueAttempts,
  None                \* no reference, no user, nothing in hand

ASSUME DepositAssumption ==
  /\ Accepted \subseteq DOMAIN TransferOf
  /\ DOMAIN TransferOf \subseteq Urls
  /\ \A l \in DOMAIN TransferOf : TransferOf[l] \in Transfers
  /\ AmountOf \in [Transfers -> Nat \ {0}]
  /\ ManualAmounts \subseteq Nat \ {0}
  /\ MaxQueueAttempts \in Nat
  /\ Admins \cap Sweepers = {}
  /\ None \notin Users \cup Transfers \cup Urls

Resolvers == Admins \cup Sweepers
Tasks == Submitters \cup Resolvers

VARIABLES
  rows,      \* bank_deposits
  wallet,    \* users.wallet, in deposits
  credits,   \* the ledger's deposit entries, counted by the receipt they paid
  task,      \* where each task is: what it is doing, to which row, for whom
  batch      \* the rows a sweep listed and has still to look at

vars == <<rows, wallet, credits, task, batch>>

Idle == [doing |-> "idle", url |-> None, user |-> None]
\* Mutant: who asked is forgotten.
DoingForNobody(what, l, u) == [doing |-> what, url |-> l, user |-> None]

Doing(what, l, u) == [doing |-> what, url |-> l, user |-> u]

Filed == DOMAIN rows
NewRow(u, status, t, amount) ==
  [user |-> u, status |-> status, reference |-> t, amount |-> amount, attempts |-> 0]

Filing(l, row) == [x \in Filed \cup {l} |-> IF x = l THEN row ELSE rows[x]]
Resolved(l, status, t, amount) ==
  [rows EXCEPT ![l].status = status, ![l].reference = t, ![l].amount = amount]

\* Mutant: there is no index on reference.
FreeAnyway(t, l) == TRUE

\* The UNIQUE index on reference, which a NULL never meets.
Free(t, l) == t = None \/ \A x \in Filed \ {l} : rows[x].reference # t

Pay(l, u, amount) ==
  /\ wallet' = [wallet EXCEPT ![u] = @ + amount]
  /\ credits' = [credits EXCEPT ![l] = @ + 1]

Done(p) == task' = [task EXCEPT ![p] = Idle]
NoMoney == UNCHANGED <<wallet, credits>>

Init ==
  /\ rows = [l \in {} |-> l]
  /\ wallet = [u \in Users |-> 0]
  /\ credits = [l \in Urls |-> 0]
  /\ task = [p \in Tasks |-> Idle]
  /\ batch = {}

(***************************************************************************)
(* SubmitReceipt.  A link on file is answered from its row.                 *)
(***************************************************************************)
Submit(p, u, l) ==
  /\ task[p] = Idle
  /\ l \notin Filed
  /\ task' = [task EXCEPT ![p] = Doing("submitting", l, u)]
  /\ UNCHANGED <<rows, wallet, credits, batch>>

\* queueForReview: no reference, nothing has read the bank's side of it.
Queue(p) ==
  /\ task[p].doing = "submitting"
  /\ rows' = IF task[p].url \in Filed THEN rows
             ELSE Filing(task[p].url, NewRow(task[p].user, "pending_review", None, 0))
  /\ Done(p)
  /\ NoMoney
  /\ UNCHANGED batch

Refuse(p) ==
  /\ task[p].doing = "submitting"
  /\ task[p].url \notin Accepted
  /\ Done(p)
  /\ NoMoney
  /\ UNCHANGED <<rows, batch>>

CreditFresh(p) ==
  LET l == task[p].url
      u == task[p].user
      t == TransferOf[l]
  IN  /\ task[p].doing = "submitting"
      /\ l \in Accepted
      /\ IF l \notin Filed /\ Free(t, l)
         THEN /\ rows' = Filing(l, NewRow(u, "credited", t, AmountOf[t]))
              /\ Pay(l, u, AmountOf[t])
         ELSE UNCHANGED <<rows, wallet, credits>>
      /\ Done(p)
      /\ UNCHANGED batch

(***************************************************************************)
(* Taking a row out of the queue.  ResolveBankDeposit updates the row with  *)
(* that id, whatever its status is by then.                                 *)
(***************************************************************************)
\* An administrator's request reads the row and finds it pending.
TakeUp(p, what, l) ==
  /\ task[p] = Idle
  /\ l \in Filed
  /\ rows[l].status = "pending_review"
  /\ task' = [task EXCEPT ![p] = Doing(what, l, rows[l].user)]
  /\ UNCHANGED <<rows, wallet, credits, batch>>

Reject(p) ==
  /\ rows' = Resolved(task[p].url, "rejected", None, 0)
  /\ Done(p)
  /\ NoMoney

\* creditRow for a queued row: "claimed" is the refusal by the index.
CreditQueued(p, t, amount, claimed) ==
  IF Free(t, task[p].url)
  THEN /\ rows' = Resolved(task[p].url, "credited", t, amount)
       /\ Pay(task[p].url, task[p].user, amount)
       /\ Done(p)
  ELSE claimed /\ UNCHANGED <<rows, wallet, credits>>

\* The verifier's verdict on the row in hand, and what is done about it.
Verdict(p, claimed) ==
  LET l == task[p].url
  IN  \/ Done(p) /\ UNCHANGED <<rows, wallet, credits>>       \* unavailable
      \/ l \notin Accepted /\ Reject(p)
      \/ /\ l \in Accepted
         /\ CreditQueued(p, TransferOf[l], AmountOf[TransferOf[l]], claimed)

ApproveQueued(p) ==
  /\ task[p].doing = "approving"
  /\ Verdict(p, Done(p))
  /\ UNCHANGED batch

\* The FT number is typed by hand, rightly or not, or left out.
CreditManually(p) ==
  /\ task[p].doing = "crediting by hand"
  /\ \E amount \in ManualAmounts, t \in Transfers \cup {None} :
       CreditQueued(p, t, amount, Done(p))
  /\ UNCHANGED batch

RejectQueued(p) ==
  /\ task[p].doing = "rejecting"
  /\ Reject(p)
  /\ UNCHANGED batch

(***************************************************************************)
(* The sweep: a list, then row after row.  An attempt is recorded before    *)
(* the check; the status is not read again.                                 *)
(***************************************************************************)
\* Mutant: the list is not restricted to pending rows.
SweepListAll(p) ==
  /\ task[p] = Idle
  /\ batch = {}
  /\ batch' = {l \in Filed : rows[l].attempts < MaxQueueAttempts}
  /\ UNCHANGED <<rows, wallet, credits, task>>

SweepList(p) ==
  /\ task[p] = Idle
  /\ batch = {}
  /\ batch' = {l \in Filed : /\ rows[l].status = "pending_review"
                             /\ rows[l].attempts < MaxQueueAttempts}
  /\ UNCHANGED <<rows, wallet, credits, task>>

\* Mutants: the attempt is not counted; the row stays on the list.
SweepTouchUncounted(p, l) ==
  /\ task[p] = Idle
  /\ l \in batch
  /\ batch' = batch \ {l}
  /\ task' = [task EXCEPT ![p] = Doing("retrying", l, rows[l].user)]
  /\ UNCHANGED rows
  /\ NoMoney

SweepTouchAgain(p, l) ==
  /\ task[p] = Idle
  /\ l \in batch
  /\ rows[l].attempts < MaxQueueAttempts
  /\ rows' = [rows EXCEPT ![l].attempts = @ + 1]
  /\ task' = [task EXCEPT ![p] = Doing("retrying", l, rows[l].user)]
  /\ UNCHANGED batch
  /\ NoMoney

SweepTouch(p, l) ==
  /\ task[p] = Idle
  /\ l \in batch
  /\ batch' = batch \ {l}
  /\ rows' = [rows EXCEPT ![l].attempts = @ + 1]
  /\ task' = [task EXCEPT ![p] = Doing("retrying", l, rows[l].user)]
  /\ NoMoney

RetryQueued(p) ==
  /\ task[p].doing = "retrying"
  /\ Verdict(p, task' = [task EXCEPT ![p].doing = "claimed"])
  /\ UNCHANGED batch

\* "The same transfer was credited through its other receipt link."
RejectClaimed(p) ==
  /\ task[p].doing = "claimed"
  /\ Reject(p)
  /\ UNCHANGED batch

\* The process stops: a task under way is gone, and so is a sweep's list.
Restart ==
  /\ task' = [p \in Tasks |-> Idle]
  /\ batch' = {}
  /\ UNCHANGED <<rows, wallet, credits>>

AdminStep(p) ==
  \/ \E l \in Urls, what \in {"approving", "crediting by hand", "rejecting"} :
       TakeUp(p, what, l)
  \/ ApproveQueued(p) \/ CreditManually(p) \/ RejectQueued(p)

SweepStep(p) ==
  \/ SweepList(p)
  \/ \E l \in Urls : SweepTouch(p, l)
  \/ RetryQueued(p)
  \/ RejectClaimed(p)

SubmitStep(p) ==
  \/ \E u \in Users, l \in Urls : Submit(p, u, l)
  \/ Queue(p) \/ Refuse(p) \/ CreditFresh(p)

Next ==
  \/ \E p \in Submitters : SubmitStep(p)
  \/ \E p \in Admins : AdminStep(p)
  \/ \E p \in Sweepers : SweepStep(p)
  \/ Restart

Spec == Init /\ [][Next]_vars

\* The worker's ticker goes on; people submit and administrators decide when
\* they like, and the verifier may be unreachable for ever.
FairSpec == Spec /\ \A p \in Sweepers : WF_vars(SweepStep(p))
-----------------------------------------------------------------------------
Statuses == {"pending_review", "credited", "rejected"}
Resolving == {"approving", "crediting by hand", "rejecting", "retrying", "claimed"}
Deeds == {"idle", "submitting"} \cup Resolving

Rows == [user : Users, status : Statuses, reference : Transfers \cup {None},
         amount : Nat, attempts : Nat]

Works == [doing : Deeds, url : Urls \cup {None}, user : Users \cup {None}]

\* The table, the wallets and the tasks; a task at work has a row in hand and
\* the user it is for.
TypeOK ==
  /\ Filed \subseteq Urls
  /\ \A l \in Filed : rows[l] \in Rows
  /\ wallet \in [Users -> Nat]
  /\ credits \in [Urls -> Nat]
  /\ task \in [Tasks -> Works]
  /\ \A p \in Tasks :
       /\ task[p].doing # "idle" => task[p].url \in Urls /\ task[p].user \in Users
       /\ task[p].doing \in Resolving => task[p].url \in Filed
  /\ batch \subseteq Filed

Credited(l) == l \in Filed /\ rows[l].status = "credited"
Claims(l, t) == Credited(l) /\ rows[l].reference = t

\* Only CreditManually leaves a row credited without the number of the transfer
\* behind its link, or with another's.
Misfiled(l) ==
  Credited(l) /\ (l \in DOMAIN TransferOf => rows[l].reference # TransferOf[l])

(***************************************************************************)
(* README.md: "It has not been used before.  Every credited deposit claims  *)
(* its bank reference, and the reference is unique across the whole table." *)
(* The wallet was credited for a receipt once if its row says credited, and *)
(* never otherwise; and of two receipts of one transfer both are credited   *)
(* only where an administrator credited one of them by hand without its own *)
(* FT number, where "only the receipt URL stands between that transfer and  *)
(* a second credit" (creditRow, ResolveBankDeposit).                        *)
(***************************************************************************)
OneTransferOneCredit ==
  /\ \A l \in Urls : credits[l] = IF Credited(l) THEN 1 ELSE 0
  /\ \A l, m \in DOMAIN TransferOf :
       /\ l # m /\ TransferOf[l] = TransferOf[m]
       /\ Credited(l) /\ Credited(m)
       => Misfiled(l) \/ Misfiled(m)

(***************************************************************************)
(* A receipt that was credited or rejected stays as it is: its status, its  *)
(* amount and the reference it claims (ResolveBankDeposit).                 *)
(***************************************************************************)
RowsAreFinal ==
  [][ \A l \in Filed : rows[l].status # "pending_review"
        => l \in Filed' /\ rows'[l] = rows[l] ]_vars

\* The row in p's hands was decided after p found it pending.
Stale(p) == /\ task[p].doing \in Resolving
            /\ rows[task[p].url].status # "pending_review"

(***************************************************************************)
(* However many submissions, administrators and sweeps overlap, whatever    *)
(* the verifier answers, whatever number is typed and whenever the process  *)
(* restarts: a receipt is paid twice, or keeps its money and loses its row, *)
(* and a transfer is paid through both its links though each of the two     *)
(* carries its number, only by a step of a task whose row was decided by    *)
(* another since it was read (ApproveQueued, CreditManually, RejectQueued,  *)
(* retryQueued).  A transfer credited by hand without its own number may be *)
(* paid again through its other link with no such task: OneTransferOneCredit*)
(* leaves that case out, as CreditManually's comment does.                  *)
(***************************************************************************)
OnlyAStaleHandBreaksTheRule ==
  [][ OneTransferOneCredit /\ (\A p \in Tasks : task'[p] # task[p] => ~Stale(p))
      => OneTransferOneCredit' ]_vars

\* The references credited rows hold, and for whom.
PaidTo ==
  [t \in {rows[l].reference : l \in {x \in Filed : rows[x].status = "credited"}}
           \ {None} |->
     rows[CHOOSE l \in Filed : Claims(l, t)].user]

Promise == INSTANCE OncePerTransfer WITH paidTo <- PaidTo

(***************************************************************************)
(* Deposits keep the promise of OncePerTransfer: the credited rows only     *)
(* ever gain one reference at a time, and none changes hands or is lost.    *)
(***************************************************************************)
PromiseKept == Promise!Spec

(***************************************************************************)
(* Unless the process is restarted again and again, every queued receipt is *)
(* decided or has had its automatic re-checks (StartQueueWorker,            *)
(* RunQueueSweep, retryQueued).                                             *)
(***************************************************************************)
QueueClears ==
  <>[][~Restart]_vars =>
    \A l \in Urls :
      (l \in Filed) ~> (l \in Filed /\ (\/ rows[l].status # "pending_review"
                                        \/ rows[l].attempts >= MaxQueueAttempts))
=============================================================================
