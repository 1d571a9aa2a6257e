------------------------------- MODULE Gateway -------------------------------
(***************************************************************************)
(* Automatic deposits: gateway_deposit_service.go and its reconciliation,   *)
(* between the gateway_deposits table and a payment router that tells us of *)
(* a payment by webhooks, in any order, more than once, or never, and that  *)
(* can be asked for its present status.                                     *)
(*                                                                          *)
(* Starting a checkout files the row, calls the router and then notes the   *)
(* answer: three steps, between which the router may already be heard from  *)
(* and the process may stop.  A reconciliation lists, asks and applies, one *)
(* row after the other; ApplyEvent is one transaction that holds the row.   *)
(***************************************************************************)
EXTENDS Naturals, FiniteSets, Sequences, SequencesExt

CONSTANTS
  Refs,               \* references of checkouts, GP...
  Asked,              \* amounts players ask for
  MinGatewayDeposit,
  MaxGatewayDeposit,
  GatewayReconcileBatch,
  Wordings,           \* per reference, how the router may word its amount
  Prompted,           \* references whose customer the router reaches by phone,
                      \*   not only through the page we send him to
  Blank               \* no amount in the message

ASSUME GatewayAssumption ==
  /\ Asked \subseteq Nat
  /\ MinGatewayDeposit \in Nat \ {0} /\ MaxGatewayDeposit \in Nat
  /\ GatewayReconcileBatch \in Nat \ {0}
  /\ Wordings \in [Refs -> SUBSET {"right", "broken", "other", "blank"}]
  /\ Prompted \subseteq Refs
  /\ Blank \notin Nat

VARIABLES
  rows,        \* gateway_deposits, by reference
  created,     \* the references in the order of created_at
  start,       \* how far the request that started each checkout is
  router,      \* the router's payments: their status now, all they had, and how
               \*   it words the amount
  credits,     \* wallet credits "gateway <reference>" in the ledger
  overwritten, \* history: references closed by create_failed when no longer pending
  enabled,     \* the site's switch
  reconciler   \* the rows a reconciliation has still to look at, and what it heard

vars == <<rows, created, start, router, credits, overwritten, enabled, reconciler>>

Filed == DOMAIN rows
Final == {"succeeded", "failed", "cancelled", "expired"}
Resting == [todo |-> <<>>, heard |-> "nothing"]

Init ==
  /\ rows = [r \in {} |-> r]
  /\ created = <<>>
  /\ start = [r \in Refs |-> "none"]
  /\ router = [r \in Refs |-> [now |-> "none", was |-> {}, says |-> "blank"]]
  /\ credits = [r \in Refs |-> 0]
  /\ overwritten = {}
  /\ enabled \in BOOLEAN
  /\ reconciler = Resting

(***************************************************************************)
(* The statements on gateway_deposits.                                      *)
(***************************************************************************)
CreateGatewayDeposit(r, amount) ==
  /\ rows' = [x \in Filed \cup {r} |->
                IF x = r THEN [amount |-> amount, status |-> "pending",
                               attached |-> FALSE, aged |-> FALSE]
                         ELSE rows[x]]
  /\ created' = Append(created, r)

AttachGatewayCheckout(r) == rows' = [rows EXCEPT ![r].attached = TRUE]

ResolveGatewayDeposit(r, status) == rows' = [rows EXCEPT ![r].status = status]

\* Mutant: rows whose checkout was never attached are the only ones listed.
ListUnattachedPendingSince ==
  LET waits(r) == rows[r].status = "pending" /\ ~rows[r].attached /\ rows[r].aged
  IN  SelectSeq(created, waits)

ListGatewayDepositsPendingSince ==
  LET waits(r) == rows[r].status = "pending" /\ rows[r].attached /\ rows[r].aged
      all == SelectSeq(created, waits)
  IN  SubSeq(all, 1, IF Len(all) < GatewayReconcileBatch THEN Len(all)
                                                         ELSE GatewayReconcileBatch)

(***************************************************************************)
(* What the router says, in our words.                                      *)
(***************************************************************************)
GatewayStatusForEvent(event) ==
  [succeeded |-> "credited", failed |-> "failed",
   cancelled |-> "cancelled", expired |-> "expired"][event]

\* A status the reconciliation acts on; "open" and its like are none.
RouterEventForStatus(status) == status \in Final

\* parseWholeETB reads an amount in cents, if there is one and it is whole.
WholeETB(cents) == cents # Blank /\ cents % 100 = 0

Report(r) ==
  LET a == rows[r].amount
  IN  [right |-> a * 100, broken |-> a * 100 + 50,
       other |-> (a + 1) * 100, blank |-> Blank][router[r].says]

AmountDiffers(r, cents) == WholeETB(cents) /\ cents # rows[r].amount * 100

(***************************************************************************)
(* ApplyEvent: the row's lock is held from the read to the commit, and a     *)
(* reference nobody filed is refused.                                       *)
(***************************************************************************)
\* Mutant: only a failure looks at what the row says already.
CreditsAnyStatus(r, event, cents) ==
  /\ GatewayStatusForEvent(event) = "credited"
  /\ ~AmountDiffers(r, cents)

Credits(r, event, cents) ==
  /\ rows[r].status # "credited"
  /\ GatewayStatusForEvent(event) = "credited"
  /\ ~AmountDiffers(r, cents)

Closes(r, event) ==
  /\ GatewayStatusForEvent(event) # "credited"
  /\ rows[r].status = "pending"

ApplyEvent(r, event, cents) ==
  /\ r \in Filed
  /\ IF Credits(r, event, cents) \/ Closes(r, event)
     THEN /\ ResolveGatewayDeposit(r, GatewayStatusForEvent(event))
          /\ credits' = [credits EXCEPT ![r] = IF Credits(r, event, cents) THEN @ + 1 ELSE @]
     ELSE UNCHANGED <<rows, credits>>

(***************************************************************************)
(* Starting a checkout.                                                     *)
(***************************************************************************)
Start(r, amount) ==
  /\ enabled
  /\ amount \in MinGatewayDeposit..MaxGatewayDeposit
  /\ start[r] = "none"
  /\ CreateGatewayDeposit(r, amount)
  /\ start' = [start EXCEPT ![r] = "filed"]
  /\ UNCHANGED <<router, credits, overwritten, enabled, reconciler>>

\* The router makes the payment or refuses; its answer arrives or does not.
CreatePayment(r, made, answered) ==
  /\ start[r] = "filed"
  /\ IF made
     THEN \E wording \in Wordings[r] :
            router' = [router EXCEPT ![r].now = "open", ![r].says = wording]
     ELSE router' = router
  /\ start' = [start EXCEPT ![r] = IF made /\ answered THEN "made" ELSE "refused"]
  /\ UNCHANGED <<rows, created, credits, overwritten, enabled, reconciler>>

Attach(r) ==
  /\ start[r] = "made"
  /\ AttachGatewayCheckout(r)
  /\ start' = [start EXCEPT ![r] = "given"]
  /\ UNCHANGED <<created, router, credits, overwritten, enabled, reconciler>>

\* ResolveGatewayDeposit asks for no status.
CreateFailed(r) ==
  /\ start[r] = "refused"
  /\ ResolveGatewayDeposit(r, "failed")
  /\ overwritten' = overwritten \cup (IF rows[r].status # "pending" THEN {r} ELSE {})
  /\ start' = [start EXCEPT ![r] = "over"]
  /\ UNCHANGED <<created, router, credits, enabled, reconciler>>

(***************************************************************************)
(* The router and its customer.  A payment that failed, was cancelled or    *)
(* expired may still be made good.                                          *)
(***************************************************************************)
Becomes(r, status) ==
  /\ router' = [router EXCEPT ![r].now = status, ![r].was = @ \cup {status}]
  /\ UNCHANGED <<rows, created, start, credits, overwritten, enabled, reconciler>>

Pay(r) ==
  /\ router[r].now \notin {"none", "succeeded"}
  /\ start[r] = "given" \/ r \in Prompted
  /\ Becomes(r, "succeeded")

Lapse(r) ==
  /\ router[r].now = "open"
  /\ \E status \in Final \ {"succeeded"} : Becomes(r, status)

(***************************************************************************)
(* The webhook: a delivery anyone may post, taken when the router signed it *)
(* a short while ago.  Any status a payment ever had may be told, at any    *)
(* time, again and again.                                                   *)
(***************************************************************************)
Deliveries == [ref : Refs, event : Final, signed : BOOLEAN, recent : BOOLEAN]

Posted(d) == d.signed => d.event \in router[d.ref].was

VerifyRouterSignature(d) == d.signed /\ d.recent

RouterCallback(d) ==
  /\ Posted(d)
  /\ VerifyRouterSignature(d)
  /\ ApplyEvent(d.ref, d.event, Report(d.ref))
  /\ UNCHANGED <<created, start, router, overwritten, enabled, reconciler>>

(***************************************************************************)
(* Reconciliation.                                                          *)
(***************************************************************************)
NextRow == Head(reconciler.todo)
Moved == reconciler' = [todo |-> Tail(reconciler.todo), heard |-> "nothing"]

RunReconcile ==
  /\ reconciler = Resting
  /\ ListGatewayDepositsPendingSince # <<>>
  /\ reconciler' = [todo |-> ListGatewayDepositsPendingSince, heard |-> "nothing"]
  /\ UNCHANGED <<rows, created, start, router, credits, overwritten, enabled>>

\* FetchPayment answers: the row's turn, or the next row's if it is not final.
FetchPayment(r) ==
  /\ reconciler.todo # <<>> /\ reconciler.heard = "nothing" /\ NextRow = r
  /\ IF RouterEventForStatus(router[r].now)
     THEN reconciler' = [reconciler EXCEPT !.heard = router[r].now]
     ELSE Moved
  /\ UNCHANGED <<rows, created, start, router, credits, overwritten, enabled>>

ReconcileApply(r) ==
  /\ reconciler.heard # "nothing" /\ NextRow = r
  /\ ApplyEvent(r, reconciler.heard, Report(r))
  /\ Moved
  /\ UNCHANGED <<created, start, router, overwritten, enabled>>

\* The router or the database does not answer: this row waits for the next round.
ReconcileError ==
  /\ reconciler.todo # <<>>
  /\ Moved
  /\ UNCHANGED <<rows, created, start, router, credits, overwritten, enabled>>

(***************************************************************************)
(* Time, the administrator and the process.                                 *)
(***************************************************************************)
\* GatewayReconcileAfter has passed since created_at.
Age(r) ==
  /\ ~rows[r].aged
  /\ rows' = [rows EXCEPT ![r].aged = TRUE]
  /\ UNCHANGED <<created, start, router, credits, overwritten, enabled, reconciler>>

Toggle ==
  /\ enabled' = ~enabled
  /\ UNCHANGED <<rows, created, start, router, credits, overwritten, reconciler>>

Restart ==
  /\ start' = [r \in Refs |-> IF start[r] \in {"filed", "made", "refused"}
                              THEN "over" ELSE start[r]]
  /\ reconciler' = Resting
  /\ UNCHANGED <<rows, created, router, credits, overwritten, enabled>>

Next ==
  \/ \E r \in Refs, amount \in Asked : Start(r, amount)
  \/ \E r \in Refs, made \in BOOLEAN, answered \in BOOLEAN : CreatePayment(r, made, answered)
  \/ \E r \in Refs : Attach(r) \/ CreateFailed(r)
  \/ \E r \in Refs : Pay(r) \/ Lapse(r)
  \/ \E d \in Deliveries : RouterCallback(d)
  \/ RunReconcile \/ ReconcileError
  \/ \E r \in Refs : FetchPayment(r) \/ ReconcileApply(r)
  \/ \E r \in Filed : Age(r)
  \/ Toggle
  \/ Restart

\* Time passes; an open payment is settled or lapses with the router; the
\* reconciler's ticker goes on, its loop moves, and the process stays up long
\* enough, often enough, to hear of a row and to write it.
Fairness ==
  /\ \A r \in Refs : WF_vars(r \in Filed /\ Age(r))
  /\ \A r \in Refs : WF_vars(Lapse(r))
  /\ WF_vars(RunReconcile) /\ WF_vars(ReconcileError)
  /\ \A r \in Refs : SF_vars(FetchPayment(r)) /\ SF_vars(ReconcileApply(r))

Spec == Init /\ [][Next]_vars /\ Fairness
-----------------------------------------------------------------------------
(***************************************************************************)
(* A checkout is credited once, only if its payment succeeded and never when *)
(* the router reports another amount, however webhooks, reconciliation and   *)
(* the checkout's own request overlap.  One order is exempt: the router's    *)
(* answer to CreatePayment was lost, the customer paid all the same and the  *)
(* webhook credited him before the request wrote create_failed over the row  *)
(* (ApplyEvent, Start).                                                     *)
(***************************************************************************)
CreditedOnceAsPaid ==
  \A r \in Refs :
    /\ credits[r] > 0 => "succeeded" \in router[r].was /\ ~AmountDiffers(r, Report(r))
    /\ credits[r] <= IF r \in overwritten THEN 2 ELSE 1
    /\ r \in Filed /\ rows[r].status = "credited" => credits[r] > 0

\* Rows that stay pending for good: the router reports another amount.
Mismatched == {r \in Filed : rows[r].attached /\ AmountDiffers(r, Report(r))}

(***************************************************************************)
(* A checkout the router knows is decided even if its webhook never comes:  *)
(* reconciliation lists it, hears of it and writes it, unless rows it can   *)
(* never close fill its batch (RunReconcile, gatewayReconcileBatch).        *)
(***************************************************************************)
SettledByReconciliation ==
  \A r \in Refs :
    (r \in Filed /\ rows[r].attached)
      ~> \/ r \in Filed /\ rows[r].status # "pending"
         \/ r \in Mismatched
         \/ Cardinality(Mismatched) >= GatewayReconcileBatch
=============================================================================
