----------------------------- MODULE MoneyProof -----------------------------
(***************************************************************************)
(* Proofs about how money comes to the wallets and goes to the tables.      *)
(*                                                                          *)
(* Gateway, for any number of checkouts, amounts and wordings: a checkout   *)
(* is credited once, and only what its payment was for.                     *)
(*                                                                          *)
(* Lobby, for any number of users, rooms, server requests and crashes: a    *)
(* user has a seat at one table at a time, and a crash costs no more than   *)
(* the moves it interrupted had moved.                                      *)
(***************************************************************************)
EXTENDS Gateway, Lobby, Sums

(***************************************************************************)
(* The inductive invariant.  That a credit is for a payment that succeeded  *)
(* needs what a reconciliation heard to be something the router said, and a *)
(* router that says nothing of a checkout before the request asked it; that *)
(* it is the only one needs the row's status to account for the ledger.     *)
(***************************************************************************)
Stages == {"none", "filed", "made", "refused", "given", "over"}
Statuses == {"pending", "credited", "failed", "cancelled", "expired"}
Says == {"right", "broken", "other", "blank"}

Types ==
  /\ Filed \subseteq Refs
  /\ \A r \in Filed :
       rows[r] \in [amount : Asked, status : Statuses, attached : BOOLEAN, aged : BOOLEAN]
  /\ start \in [Refs -> Stages]
  /\ router \in [Refs -> [now : Final \cup {"none", "open"}, was : SUBSET Final, says : Says]]
  /\ credits \in [Refs -> Nat]
  /\ reconciler = [todo |-> reconciler.todo, heard |-> reconciler.heard]

\* A row and a payment exist once the request has come as far.
Staged ==
  \A r \in Refs :
    /\ start[r] = "none" <=> r \notin Filed
    /\ start[r] \in {"none", "filed"} => router[r].now = "none" /\ router[r].was = {}
    /\ r \in overwritten => start[r] = "over"

\* What the router is at, and what a reconciliation heard, has been so.
Heard ==
  /\ \A r \in Refs : router[r].now \in Final => router[r].now \in router[r].was
  /\ reconciler.heard # "nothing" =>
       /\ NextRow \in Refs
       /\ reconciler.heard \in Final
       /\ reconciler.heard \in router[NextRow].was

One(b) == IF b THEN 1 ELSE 0

\* The row's status and its history account for every credit in the ledger.
Accounted ==
  \A r \in Refs :
    /\ r \notin Filed => credits[r] = 0
    /\ r \in Filed => credits[r] <= One(rows[r].status = "credited") + One(r \in overwritten)
    /\ r \in Filed /\ rows[r].status = "credited" => credits[r] > 0

\* What is in the ledger was paid, as the router words it.
Earned ==
  \A r \in Refs :
    credits[r] > 0 => "succeeded" \in router[r].was /\ ~AmountDiffers(r, Report(r))

IInv == Types /\ Staged /\ Heard /\ Accounted /\ Earned

LEMMA InitHolds == Init => IInv
BY DEF Init, IInv, Types, Staged, Heard, Accounted, Earned, Filed, Resting, Stages, Final, Says

\* What an amount is worth to the router hangs on the row and on its wording.
LEMMA SameReport ==
  ASSUME NEW r, rows'[r].amount = rows[r].amount, router'[r].says = router[r].says
  PROVE  AmountDiffers(r, Report(r))' <=> AmountDiffers(r, Report(r))
BY DEF AmountDiffers, Report, WholeETB

(***************************************************************************)
(* The request that starts a checkout.                                      *)
(***************************************************************************)
LEMMA StartHolds ==
  ASSUME IInv, NEW r \in Refs, NEW amount \in Asked, Start(r, amount)
  PROVE  IInv'
<1>1. r \notin Filed /\ credits[r] = 0 /\ r \notin overwritten
  BY DEF IInv, Staged, Accounted, Start
<1>2. /\ Filed' = Filed \cup {r}
      /\ rows'[r] = [amount |-> amount, status |-> "pending", attached |-> FALSE, aged |-> FALSE]
      /\ \A x \in Filed : rows'[x] = rows[x]
  BY <1>1 DEF Start, CreateGatewayDeposit, Filed
<1>3. /\ start' = [start EXCEPT ![r] = "filed"]
      /\ router' = router /\ credits' = credits /\ overwritten' = overwritten
      /\ reconciler' = reconciler
  BY DEF Start
<1>4. Types'
  <2>1. \A x \in Filed' :
          rows'[x] \in [amount : Asked, status : Statuses, attached : BOOLEAN, aged : BOOLEAN]
    <3>1. rows'[r] \in [amount : Asked, status : Statuses, attached : BOOLEAN, aged : BOOLEAN]
      <4>1. [amount |-> amount, status |-> "pending", attached |-> FALSE, aged |-> FALSE]
              \in [amount : Asked, status : Statuses, attached : BOOLEAN, aged : BOOLEAN]
        BY DEF Statuses
      <4> QED
        BY <1>2, <4>1, Zenon
    <3>2. \A x \in Filed :
            rows'[x] \in [amount : Asked, status : Statuses, attached : BOOLEAN, aged : BOOLEAN]
      BY <1>2, Zenon DEF IInv, Types
    <3> QED
      BY <1>2, <3>1, <3>2, Zenon
  <2>2. start' \in [Refs -> Stages]
    BY <1>3 DEF IInv, Types, Stages
  <2> QED
    BY <1>2, <1>3, <2>1, <2>2 DEF IInv, Types
<1>5. Staged'
  BY <1>1, <1>2, <1>3 DEF IInv, Types, Staged, Start
<1>6. Heard'
  BY <1>3 DEF IInv, Heard, NextRow
<1>7. Accounted'
  BY <1>1, <1>2, <1>3 DEF IInv, Types, Accounted, One
<1>8. Earned'
  <2> SUFFICES ASSUME NEW x \in Refs, credits[x] > 0
               PROVE  "succeeded" \in router[x].was /\ ~AmountDiffers(x, Report(x))'
    BY <1>3 DEF Earned
  <2>1. x # r /\ x \in Filed
    BY <1>1 DEF IInv, Accounted
  <2>2. AmountDiffers(x, Report(x))' <=> AmountDiffers(x, Report(x))
    BY <1>2, <1>3, <2>1, SameReport
  <2> QED
    BY <2>2 DEF IInv, Earned
<1> QED
  BY <1>4, <1>5, <1>6, <1>7, <1>8 DEF IInv

LEMMA CreatePaymentHolds ==
  ASSUME IInv, NEW r \in Refs, NEW made \in BOOLEAN, NEW answered \in BOOLEAN,
         CreatePayment(r, made, answered)
  PROVE  IInv'
<1>1. /\ start[r] = "filed" /\ r \in Filed /\ r \notin overwritten
      /\ router[r].was = {} /\ credits[r] = 0
  BY DEF IInv, Types, Staged, Accounted, Earned, CreatePayment
<1>2. /\ rows' = rows /\ credits' = credits /\ overwritten' = overwritten
      /\ reconciler' = reconciler /\ Filed' = Filed
      /\ start' \in [Refs -> Stages]
      /\ start'[r] \in {"made", "refused"}
      /\ \A x \in Refs \ {r} : start'[x] = start[x]
  BY DEF CreatePayment, Filed, IInv, Types, Stages
<1>3. /\ router' \in [Refs -> [now : Final \cup {"none", "open"}, was : SUBSET Final, says : Says]]
      /\ router'[r].was = {} /\ router'[r].now \in {"none", "open"}
      /\ \A x \in Refs \ {r} : router'[x] = router[x]
  <2>1. CASE made
    <3>1. PICK wording \in Wordings[r] :
            router' = [router EXCEPT ![r].now = "open", ![r].says = wording]
      BY <2>1 DEF CreatePayment
    <3>2. wording \in Says
      BY GatewayAssumption DEF Says
    <3>3. PICK P : P = [now : Final \cup {"none", "open"}, was : SUBSET Final, says : Says]
      OBVIOUS
    <3>4. router \in [Refs -> P] /\ router[r] \in P
      BY <3>3 DEF IInv, Types
    <3>5. PICK p : p = [router[r] EXCEPT !.now = "open", !.says = wording]
      OBVIOUS
    <3>6. p \in P /\ p.now = "open" /\ p.was = {}
      BY <1>1, <3>2, <3>3, <3>4, <3>5
    <3>7. router' = [router EXCEPT ![r] = p]
      BY <3>1, <3>4, <3>5
    <3>8. router' \in [Refs -> P] /\ router'[r] = p /\ \A x \in Refs \ {r} : router'[x] = router[x]
      BY <3>4, <3>6, <3>7
    <3> QED
      BY <3>3, <3>6, <3>8
  <2>2. CASE ~made
    BY <1>1, <2>2 DEF CreatePayment, IInv, Types, Staged
  <2> QED
    BY <2>1, <2>2
<1>4. Types'
  BY <1>2, <1>3 DEF IInv, Types
<1>5. Staged'
  BY <1>1, <1>2, <1>3 DEF IInv, Staged
<1>6. Heard'
  <2>1. \A x \in Refs : router'[x].now \in Final => router'[x].now \in router'[x].was
    BY <1>3 DEF IInv, Heard, Final
  <2>2. reconciler.heard # "nothing" => reconciler.heard \in router'[NextRow].was
    BY <1>1, <1>3 DEF IInv, Types, Heard
  <2> QED
    BY <1>2, <2>1, <2>2 DEF IInv, Heard, NextRow
<1>7. Accounted'
  BY <1>2 DEF IInv, Accounted, One
<1>8. Earned'
  <2> SUFFICES ASSUME NEW x \in Refs, credits[x] > 0
               PROVE  "succeeded" \in router'[x].was /\ ~AmountDiffers(x, Report(x))'
    BY <1>2 DEF Earned
  <2>1. x # r
    BY <1>1
  <2>2. AmountDiffers(x, Report(x))' <=> AmountDiffers(x, Report(x))
    BY <1>2, <1>3, <2>1, SameReport
  <2> QED
    BY <1>3, <2>1, <2>2 DEF IInv, Earned
<1> QED
  BY <1>4, <1>5, <1>6, <1>7, <1>8 DEF IInv

\* Noting the router's answer on the row.
LEMMA AttachHolds ==
  ASSUME IInv, NEW r \in Refs, start[r] # "none", start' = [start EXCEPT ![r] = "given"],
         AttachGatewayCheckout(r), start[r] # "over",
         UNCHANGED <<created, router, credits, overwritten, enabled, reconciler>>
  PROVE  IInv'
<1>1. r \in Filed /\ r \notin overwritten
  BY DEF IInv, Staged
<1>2. /\ Filed' = Filed
      /\ rows'[r] = [rows[r] EXCEPT !.attached = TRUE]
      /\ \A x \in Filed \ {r} : rows'[x] = rows[x]
  BY <1>1 DEF AttachGatewayCheckout, Filed
<1>3. \A x \in Filed : rows'[x].amount = rows[x].amount /\ rows'[x].status = rows[x].status
  BY <1>1, <1>2 DEF IInv, Types
<1>4. Types'
  <2>1. rows'[r] \in [amount : Asked, status : Statuses, attached : BOOLEAN, aged : BOOLEAN]
    BY <1>1, <1>2 DEF IInv, Types
  <2>2. start' \in [Refs -> Stages]
    BY DEF IInv, Types, Stages
  <2> QED
    BY <1>2, <2>1, <2>2 DEF IInv, Types
<1>5. Staged'
  BY <1>1, <1>2 DEF IInv, Types, Staged
<1>6. Heard'
  BY DEF IInv, Heard, NextRow
<1>7. Accounted'
  BY <1>2, <1>3 DEF IInv, Accounted, One
<1>8. Earned'
  <2> SUFFICES ASSUME NEW x \in Refs, credits[x] > 0
               PROVE  "succeeded" \in router[x].was /\ ~AmountDiffers(x, Report(x))'
    BY DEF Earned
  <2>1. x \in Filed
    BY DEF IInv, Accounted
  <2> QED
    BY <1>3, <2>1, SameReport DEF IInv, Earned
<1> QED
  BY <1>4, <1>5, <1>6, <1>7, <1>8 DEF IInv

LEMMA CreateFailedHolds ==
  ASSUME IInv, NEW r \in Refs, CreateFailed(r)
  PROVE  IInv'
<1>1. r \in Filed /\ r \notin overwritten /\ start[r] = "refused"
  BY DEF IInv, Staged, CreateFailed
<1>2. /\ Filed' = Filed
      /\ rows'[r] = [rows[r] EXCEPT !.status = "failed"]
      /\ \A x \in Filed \ {r} : rows'[x] = rows[x]
  BY <1>1 DEF CreateFailed, ResolveGatewayDeposit, Filed
<1>3. /\ start' = [start EXCEPT ![r] = "over"]
      /\ overwritten' = overwritten \cup (IF rows[r].status # "pending" THEN {r} ELSE {})
      /\ router' = router /\ credits' = credits /\ reconciler' = reconciler
  BY DEF CreateFailed
<1>4. /\ \A x \in Filed : rows'[x].amount = rows[x].amount
      /\ rows'[r].status = "failed"
  BY <1>1, <1>2 DEF IInv, Types
<1>5. Types'
  BY <1>1, <1>2, <1>3 DEF IInv, Types, Stages, Statuses
<1>6. Staged'
  BY <1>1, <1>2, <1>3 DEF IInv, Types, Staged
<1>7. Heard'
  BY <1>3 DEF IInv, Heard, NextRow
<1>8. Accounted'
  <2> SUFFICES ASSUME NEW x \in Refs
               PROVE  /\ x \notin Filed => credits[x] = 0
                      /\ x \in Filed => credits[x] <= One(rows'[x].status = "credited")
                                                        + One(x \in overwritten')
                      /\ x \in Filed /\ rows'[x].status = "credited" => credits[x] > 0
    BY <1>2, <1>3 DEF Accounted, One
  <2>1. CASE x # r
    BY <1>2, <1>3, <2>1 DEF IInv, Accounted, One
  <2>2. CASE x = r
    <3>1. credits[r] \in Nat
      BY DEF IInv, Types
    <3>2. rows[r].status = "pending" => credits[r] = 0
      BY <1>1, <3>1 DEF IInv, Accounted, One
    <3>3. credits[r] <= 1
      BY <1>1, <3>1 DEF IInv, Accounted, One
    <3> QED
      BY <1>1, <1>3, <1>4, <2>2, <3>1, <3>2, <3>3 DEF One
  <2> QED
    BY <2>1, <2>2
<1>9. Earned'
  <2> SUFFICES ASSUME NEW x \in Refs, credits[x] > 0
               PROVE  "succeeded" \in router[x].was /\ ~AmountDiffers(x, Report(x))'
    BY <1>3 DEF Earned
  <2>1. x \in Filed
    BY DEF IInv, Accounted
  <2> QED
    BY <1>3, <1>4, <2>1, SameReport DEF IInv, Earned
<1> QED
  BY <1>5, <1>6, <1>7, <1>8, <1>9 DEF IInv

(***************************************************************************)
(* ApplyEvent, for something the router has been heard to say.              *)
(***************************************************************************)
LEMMA ApplyEventHolds ==
  ASSUME IInv, NEW r \in Refs, NEW event \in router[r].was,
         ApplyEvent(r, event, Report(r)),
         UNCHANGED <<start, router, overwritten>>,
         reconciler' = [todo |-> reconciler'.todo, heard |-> reconciler'.heard],
         reconciler'.heard = "nothing" \/ reconciler' = reconciler
  PROVE  IInv'
<1>0. r \in Filed /\ event \in Final
  BY DEF ApplyEvent, IInv, Types
<1>1. Heard'
  BY DEF IInv, Heard, NextRow
<1>2. ASSUME UNCHANGED <<rows, credits>> PROVE IInv'
  <2>1. Types' /\ Staged' /\ Accounted'
    BY <1>2 DEF IInv, Types, Staged, Accounted, Filed, One
  <2>2. Earned'
    BY <1>2 DEF IInv, Earned, AmountDiffers, Report, WholeETB
  <2> QED
    BY <1>1, <2>1, <2>2 DEF IInv
<1>3. ASSUME NEW status \in Statuses \ {"pending"}, NEW n \in {0, 1},
             ResolveGatewayDeposit(r, status),
             credits' = [credits EXCEPT ![r] = @ + n],
             status = "credited" <=> n = 1,
             rows[r].status # "credited",
             n = 1 => "succeeded" \in router[r].was /\ ~AmountDiffers(r, Report(r))
      PROVE  IInv'
  <2>1. /\ Filed' = Filed
        /\ rows'[r] = [rows[r] EXCEPT !.status = status]
        /\ \A x \in Filed \ {r} : rows'[x] = rows[x]
    BY <1>0, <1>3 DEF ResolveGatewayDeposit, Filed
  <2>2. /\ \A x \in Filed : rows'[x].amount = rows[x].amount
        /\ rows'[r].status = status
    BY <1>0, <2>1 DEF IInv, Types
  <2>3. Types'
    <3>1. rows'[r] \in [amount : Asked, status : Statuses, attached : BOOLEAN, aged : BOOLEAN]
      BY <1>0, <2>1 DEF IInv, Types
    <3>2. credits' \in [Refs -> Nat]
      BY <1>3 DEF IInv, Types
    <3> QED
      BY <2>1, <3>1, <3>2 DEF IInv, Types
  <2>4. Staged'
    BY <2>1 DEF IInv, Staged
  <2>5. Accounted'
    <3> SUFFICES ASSUME NEW x \in Refs
                 PROVE  /\ x \notin Filed => credits'[x] = 0
                        /\ x \in Filed => credits'[x] <= One(rows'[x].status = "credited")
                                                           + One(x \in overwritten)
                        /\ x \in Filed /\ rows'[x].status = "credited" => credits'[x] > 0
      BY <2>1 DEF Accounted, One
    <3>1. CASE x # r
      <4>1. credits'[x] = credits[x]
        BY <1>3, <3>1 DEF IInv, Types
      <4> QED
        BY <2>1, <3>1, <4>1 DEF IInv, Accounted, One
    <3>2. CASE x = r
      <4>1. credits[r] \in Nat /\ credits'[r] = credits[r] + n
        BY <1>3 DEF IInv, Types
      <4>2. credits[r] <= One(r \in overwritten)
        BY <1>0, <1>3, <4>1 DEF IInv, Accounted, One
      <4> QED
        BY <1>0, <1>3, <2>2, <3>2, <4>1, <4>2 DEF One
    <3> QED
      BY <3>1, <3>2
  <2>6. Earned'
    <3> SUFFICES ASSUME NEW x \in Refs, credits'[x] > 0
                 PROVE  "succeeded" \in router[x].was /\ ~AmountDiffers(x, Report(x))'
      BY DEF Earned
    <3>1. credits[x] > 0 \/ (x = r /\ n = 1)
      BY <1>3 DEF IInv, Types
    <3>2. x \in Filed
      BY <1>0, <3>1 DEF IInv, Accounted
    <3>3. AmountDiffers(x, Report(x))' <=> AmountDiffers(x, Report(x))
      BY <2>2, <3>2, SameReport
    <3> QED
      BY <1>3, <3>1, <3>3 DEF IInv, Earned
  <2> QED
    BY <1>1, <2>3, <2>4, <2>5, <2>6 DEF IInv
<1>4. CASE Credits(r, event, Report(r))
  <2>1. event = "succeeded" /\ GatewayStatusForEvent(event) = "credited"
    BY <1>0, <1>4 DEF Credits, GatewayStatusForEvent, Final
  <2>2. ResolveGatewayDeposit(r, "credited") /\ credits' = [credits EXCEPT ![r] = @ + 1]
    BY <1>4, <2>1 DEF ApplyEvent
  <2> QED
    BY <1>3, <1>4, <2>1, <2>2 DEF Credits, Statuses
<1>5. CASE ~Credits(r, event, Report(r)) /\ Closes(r, event)
  <2>1. GatewayStatusForEvent(event) \in Statuses \ {"pending", "credited"}
    BY <1>0, <1>5 DEF Closes, GatewayStatusForEvent, Final, Statuses
  <2>2. /\ ResolveGatewayDeposit(r, GatewayStatusForEvent(event))
        /\ credits' = [credits EXCEPT ![r] = @ + 0]
    <3>1. credits' = [credits EXCEPT ![r] = credits[r]] /\ credits[r] + 0 = credits[r]
      BY <1>5 DEF ApplyEvent, IInv, Types
    <3> QED
      BY <1>5, <3>1 DEF ApplyEvent
  <2>3. rows[r].status # "credited"
    BY <1>5 DEF Closes
  <2> QED
    BY <1>3, <2>1, <2>2, <2>3
<1> QED
  BY <1>2, <1>4, <1>5 DEF ApplyEvent

(***************************************************************************)
(* Every step keeps the invariant.                                          *)
(***************************************************************************)
LEMMA BecomesHolds ==
  ASSUME IInv, NEW r \in Refs, NEW status \in Final, router[r].now # "none",
         Becomes(r, status)
  PROVE  IInv'
<1>1. /\ router' \in [Refs -> [now : Final \cup {"none", "open"}, was : SUBSET Final, says : Says]]
      /\ router'[r].now = status /\ router'[r].was = router[r].was \cup {status}
      /\ router'[r].says = router[r].says
      /\ \A x \in Refs \ {r} : router'[x] = router[x]
  <2>1. PICK P : P = [now : Final \cup {"none", "open"}, was : SUBSET Final, says : Says]
    OBVIOUS
  <2>2. router \in [Refs -> P] /\ router[r] \in P
    BY <2>1 DEF IInv, Types
  <2>3. PICK p : p = [router[r] EXCEPT !.now = status, !.was = @ \cup {status}]
    OBVIOUS
  <2>4. /\ p \in P /\ p.now = status /\ p.was = router[r].was \cup {status}
        /\ p.says = router[r].says
    BY <2>1, <2>2, <2>3
  <2>5. router' = [router EXCEPT ![r] = p]
    BY <2>2, <2>3 DEF Becomes
  <2>6. router' \in [Refs -> P] /\ router'[r] = p /\ \A x \in Refs \ {r} : router'[x] = router[x]
    BY <2>2, <2>4, <2>5
  <2> QED
    BY <2>1, <2>4, <2>6
<1>2. UNCHANGED <<rows, created, start, credits, overwritten, enabled, reconciler>>
  BY DEF Becomes
<1>3. Types'
  BY <1>1, <1>2 DEF IInv, Types, Filed
<1>4. Staged'
  BY <1>1, <1>2 DEF IInv, Staged, Filed
<1>5. Heard'
  <2>1. \A x \in Refs : router'[x].now \in Final => router'[x].now \in router'[x].was
    BY <1>1 DEF IInv, Heard
  <2>2. reconciler.heard # "nothing" =>
          NextRow \in Refs /\ reconciler.heard \in router'[NextRow].was
    BY <1>1 DEF IInv, Heard
  <2> QED
    BY <1>2, <2>1, <2>2 DEF IInv, Heard, NextRow
<1>6. Accounted'
  BY <1>2 DEF IInv, Accounted, One, Filed
<1>7. Earned'
  <2> SUFFICES ASSUME NEW x \in Refs, credits[x] > 0
               PROVE  "succeeded" \in router'[x].was /\ ~AmountDiffers(x, Report(x))'
    BY <1>2 DEF Earned
  <2>1. AmountDiffers(x, Report(x))' <=> AmountDiffers(x, Report(x))
    BY <1>1, <1>2, SameReport
  <2> QED
    BY <1>1, <2>1 DEF IInv, Earned
<1> QED
  BY <1>3, <1>4, <1>5, <1>6, <1>7 DEF IInv

\* The reconciler goes on to another row, or hears of none.
LEMMA MovedHolds ==
  ASSUME IInv, UNCHANGED <<rows, start, router, credits, overwritten>>,
         reconciler' = [todo |-> reconciler'.todo, heard |-> "nothing"]
  PROVE  IInv'
<1>1. Types' /\ Staged' /\ Accounted'
  BY DEF IInv, Types, Staged, Accounted, Filed, One
<1>2. Heard' /\ Earned'
  BY DEF IInv, Heard, Earned, AmountDiffers, Report, WholeETB
<1> QED
  BY <1>1, <1>2 DEF IInv

LEMMA StepHolds ==
  ASSUME IInv, [Next]_vars
  PROVE  IInv'
<1>1. ASSUME NEW r \in Refs, NEW amount \in Asked, Start(r, amount) PROVE IInv'
  BY <1>1, StartHolds
<1>2. ASSUME NEW r \in Refs, NEW made \in BOOLEAN, NEW answered \in BOOLEAN,
             CreatePayment(r, made, answered)
      PROVE  IInv'
  BY <1>2, CreatePaymentHolds
<1>3. ASSUME NEW r \in Refs, Attach(r) PROVE IInv'
  BY <1>3, AttachHolds DEF Attach
<1>4. ASSUME NEW r \in Refs, CreateFailed(r) PROVE IInv'
  BY <1>4, CreateFailedHolds
<1>5. ASSUME NEW r \in Refs, Pay(r) \/ Lapse(r) PROVE IInv'
  BY <1>5, BecomesHolds DEF Pay, Lapse, Final
<1>6. ASSUME NEW d \in Deliveries, RouterCallback(d) PROVE IInv'
  <2>1. d.ref \in Refs /\ d.event \in router[d.ref].was
    BY <1>6 DEF RouterCallback, Posted, VerifyRouterSignature, Deliveries
  <2> QED
    BY <1>6, <2>1, ApplyEventHolds DEF RouterCallback, IInv, Types
<1>7. ASSUME RunReconcile \/ ReconcileError PROVE IInv'
  BY <1>7, MovedHolds DEF RunReconcile, ReconcileError, Moved
<1>8. ASSUME NEW r \in Refs, FetchPayment(r) PROVE IInv'
  <2>1. CASE RouterEventForStatus(router[r].now)
    <3>1. reconciler' = [todo |-> reconciler.todo, heard |-> router[r].now]
      BY <1>8, <2>1 DEF FetchPayment, IInv, Types
    <3>2. /\ NextRow' = r /\ router[r].now \in Final
          /\ router[r].now \in router[r].was
      BY <1>8, <2>1, <3>1 DEF FetchPayment, NextRow, RouterEventForStatus, IInv, Heard
    <3>3. UNCHANGED <<rows, start, router, credits, overwritten>>
      BY <1>8 DEF FetchPayment
    <3>4. Types' /\ Staged' /\ Accounted'
      BY <3>1, <3>3 DEF IInv, Types, Staged, Accounted, Filed, One
    <3>5. Heard'
      BY <3>1, <3>2, <3>3 DEF IInv, Heard
    <3>6. Earned'
      BY <3>3 DEF IInv, Earned, AmountDiffers, Report, WholeETB
    <3> QED
      BY <3>4, <3>5, <3>6 DEF IInv
  <2>2. CASE ~RouterEventForStatus(router[r].now)
    BY <1>8, <2>2, MovedHolds DEF FetchPayment, Moved
  <2> QED
    BY <2>1, <2>2
<1>9. ASSUME NEW r \in Refs, ReconcileApply(r) PROVE IInv'
  <2>1. reconciler.heard \in router[r].was
    BY <1>9 DEF ReconcileApply, IInv, Heard
  <2> QED
    BY <1>9, <2>1, ApplyEventHolds DEF ReconcileApply, Moved
<1>10. ASSUME NEW r \in Filed, Age(r) PROVE IInv'
  <2>1. /\ Filed' = Filed
        /\ rows'[r] = [rows[r] EXCEPT !.aged = TRUE]
        /\ \A x \in Filed \ {r} : rows'[x] = rows[x]
        /\ UNCHANGED <<start, router, credits, overwritten, reconciler>>
    BY <1>10 DEF Age, Filed
  <2>2. /\ \A x \in Filed : rows'[x].amount = rows[x].amount /\ rows'[x].status = rows[x].status
        /\ rows'[r] \in [amount : Asked, status : Statuses, attached : BOOLEAN, aged : BOOLEAN]
    <3>1. PICK p \in [amount : Asked, status : Statuses, attached : BOOLEAN, aged : BOOLEAN] :
            p = rows[r]
      BY DEF IInv, Types
    <3>2. rows'[r] = [p EXCEPT !.aged = TRUE]
      BY <2>1, <3>1
    <3>3. /\ rows'[r].amount = rows[r].amount /\ rows'[r].status = rows[r].status
          /\ rows'[r] \in [amount : Asked, status : Statuses, attached : BOOLEAN, aged : BOOLEAN]
      BY <3>1, <3>2
    <3> QED
      BY <2>1, <3>3
  <2>3. Types' /\ Staged'
    BY <2>1, <2>2 DEF IInv, Types, Staged
  <2>4. Heard' /\ Accounted'
    BY <2>1, <2>2 DEF IInv, Heard, NextRow, Accounted, One
  <2>5. Earned'
    <3> SUFFICES ASSUME NEW x \in Refs, credits[x] > 0
                 PROVE  "succeeded" \in router[x].was /\ ~AmountDiffers(x, Report(x))'
      BY <2>1 DEF Earned
    <3>1. x \in Filed
      BY DEF IInv, Accounted
    <3> QED
      BY <2>1, <2>2, <3>1, SameReport DEF IInv, Earned
  <2> QED
    BY <2>3, <2>4, <2>5 DEF IInv
<1>11. CASE Restart
  <2>1. /\ start' \in [Refs -> Stages]
        /\ \A x \in Refs : start'[x] = start[x] \/ (start'[x] = "over" /\ start[x] # "none")
        /\ reconciler' = [todo |-> <<>>, heard |-> "nothing"]
        /\ UNCHANGED <<rows, router, credits, overwritten>>
    BY <1>11 DEF Restart, Resting, IInv, Types, Stages
  <2>2. Types' /\ Staged'
    BY <2>1 DEF IInv, Types, Staged, Filed
  <2>3. Heard' /\ Accounted' /\ Earned'
    BY <2>1 DEF IInv, Heard, Accounted, Earned, Filed, One, AmountDiffers, Report, WholeETB
  <2> QED
    BY <2>2, <2>3 DEF IInv
<1>12. ASSUME UNCHANGED <<rows, start, router, credits, overwritten, reconciler>> PROVE IInv'
  <2>1. Types' /\ Staged' /\ Heard' /\ Accounted'
    BY <1>12 DEF IInv, Types, Staged, Heard, Accounted, Filed, NextRow, One
  <2>2. Earned'
    BY <1>12 DEF IInv, Earned, AmountDiffers, Report, WholeETB
  <2> QED
    BY <2>1, <2>2 DEF IInv
<1> QED
  BY <1>1, <1>2, <1>3, <1>4, <1>5, <1>6, <1>7, <1>8, <1>9, <1>10, <1>11, <1>12
  DEF Next, vars, Toggle

(***************************************************************************)
(* A checkout is credited once, for a payment that succeeded, of the amount *)
(* asked, whatever the order and the number of webhooks, reconciliations,   *)
(* answers and restarts (ApplyEvent); see CreditedOnceAsPaid for the one    *)
(* order that is exempt.                                                    *)
(***************************************************************************)
THEOREM OneCreditPerCheckout == Spec => []CreditedOnceAsPaid
<1>1. IInv /\ [Next]_vars => IInv'
  BY StepHolds
<1>2. IInv => CreditedOnceAsPaid
  <2> SUFFICES ASSUME IInv, NEW r \in Refs
               PROVE  /\ credits[r] > 0 => /\ "succeeded" \in router[r].was
                                           /\ ~AmountDiffers(r, Report(r))
                      /\ credits[r] <= IF r \in overwritten THEN 2 ELSE 1
                      /\ r \in Filed /\ rows[r].status = "credited" => credits[r] > 0
    BY DEF CreditedOnceAsPaid
  <2>1. credits[r] \in Nat /\ credits[r] <= IF r \in overwritten THEN 2 ELSE 1
    BY DEF IInv, Types, Accounted, One
  <2> QED
    BY <2>1 DEF IInv, Earned, Accounted
<1> QED
  BY InitHolds, <1>1, <1>2, PTL DEF Spec
-----------------------------------------------------------------------------
LEMMA RoomNumbers ==
  /\ Stake \in Nat /\ Stake > 0
  /\ BuyIn \in Nat /\ InitialWallet \in Nat
  /\ None \notin Tables /\ None \notin Saves /\ None \notin Requests
BY LobbyAssumption

(***************************************************************************)
(* The tables a room can have, and what is on one.                          *)
(***************************************************************************)
GoodTables == {t \in Tables : ~t.started => t.pot = 0 /\ t.left = 0}

ChipsOf(t) == [u \in Seated(t) |-> t.seats[u].chips]
BetsOf(t) == [u \in Seated(t) |-> t.seats[u].bet]
Chips(t) == SumFunctionOnSet(ChipsOf(t), Seated(t))
Staked(t) == SumFunctionOnSet(BetsOf(t), Seated(t))

LEMMA TableFacts ==
  ASSUME IsFiniteSet(Users), NEW t \in GoodTables
  PROVE  /\ t.started \in BOOLEAN /\ t.pot \in Nat /\ t.left \in Nat
         /\ ~t.started => t.pot = 0 /\ t.left = 0
         /\ t = [started |-> t.started, pot |-> t.pot, left |-> t.left, seats |-> t.seats]
         /\ t.seats = [u \in Seated(t) |-> t.seats[u]]
         /\ Seated(t) \subseteq Users /\ IsFiniteSet(Seated(t))
         /\ \A u \in Seated(t) :
              /\ t.seats[u] \in [chips : Nat, bet : 0..Stake]
              /\ t.seats[u].chips \in Nat /\ t.seats[u].bet \in Nat /\ t.seats[u].bet <= Stake
<1>1. t \in Tables /\ (~t.started => t.pot = 0 /\ t.left = 0)
  BY DEF GoodTables
<1>2. /\ t.started \in BOOLEAN /\ t.pot \in Nat /\ t.left \in Nat /\ t.seats \in Places
      /\ t = [started |-> t.started, pot |-> t.pot, left |-> t.left, seats |-> t.seats]
  BY <1>1 DEF Tables
<1>3. PICK S \in SUBSET Users : t.seats \in [S -> [chips : Nat, bet : 0..Stake]]
  BY <1>2 DEF Places
<1>4. Seated(t) = S
  BY <1>3 DEF Seated
<1>5. IsFiniteSet(S)
  BY <1>3, FS_Subset
<1>6. Stake \in Nat
  BY RoomNumbers
<1> QED BY <1>1, <1>2, <1>3, <1>4, <1>5, <1>6

LEMMA TableMade ==
  ASSUME NEW S \in SUBSET Users, NEW f, f = [u \in S |-> f[u]],
         \A u \in S : f[u] \in [chips : Nat, bet : 0..Stake],
         NEW started \in BOOLEAN, NEW pot \in Nat, NEW left \in Nat,
         ~started => pot = 0 /\ left = 0
  PROVE  [started |-> started, pot |-> pot, left |-> left, seats |-> f] \in GoodTables
<1>1. f \in [S -> [chips : Nat, bet : 0..Stake]]
  OBVIOUS
<1>2. f \in Places
  BY <1>1 DEF Places
<1> QED BY <1>2 DEF GoodTables, Tables

LEMMA Counted ==
  ASSUME IsFiniteSet(Users), NEW t \in GoodTables
  PROVE  /\ Chips(t) \in Nat /\ Staked(t) \in Nat
         /\ Stakes(t) = Staked(t)
         /\ OnTheFelt(t) = Chips(t) + IF t.started THEN t.pot ELSE 0
<1> DEFINE S == Seated(t)
<1>1. IsFiniteSet(S) /\ \A u \in S : t.seats[u].chips \in Nat /\ t.seats[u].bet \in Nat
  BY TableFacts
<1>2. Chips(t) \in Nat
  <2>1. PICK f : f = ChipsOf(t)
    OBVIOUS
  <2>2. \A u \in S : f[u] \in Nat
    BY <1>1, <2>1 DEF ChipsOf
  <2>3. SumFunctionOnSet(f, S) \in Nat
    BY <1>1, <2>2, SumNat
  <2> QED BY <2>1, <2>3 DEF Chips
<1>3. Staked(t) \in Nat
  <2>1. PICK f : f = BetsOf(t)
    OBVIOUS
  <2>2. \A u \in S : f[u] \in Nat
    BY <1>1, <2>1 DEF BetsOf
  <2>3. SumFunctionOnSet(f, S) \in Nat
    BY <1>1, <2>2, SumNat
  <2> QED BY <2>1, <2>3 DEF Staked
<1>4. Stakes(t) = Staked(t)
  BY DEF Stakes, SumOver, Staked, BetsOf
<1>5. OnTheFelt(t) = Chips(t) + IF t.started THEN t.pot ELSE 0
  BY DEF OnTheFelt, SumOver, Chips, ChipsOf
<1> QED BY <1>2, <1>3, <1>4, <1>5

\* What the game's row and the players' rows make together.
LEMMA GameOfFacts ==
  ASSUME IsFiniteSet(Users), NEW old \in GoodTables, NEW new \in GoodTables,
         NEW t, t = GameOf(old, new)
  PROVE  /\ t \in GoodTables
         /\ Seated(t) = Seated(old)
         /\ t.started = new.started /\ t.pot = new.pot
         /\ t.left = IF old.started /\ new.started THEN old.left ELSE 0
         /\ Chips(t) = Chips(old) /\ Staked(t) = Staked(old)
<1>1. t = [started |-> new.started, pot |-> new.pot,
           left |-> IF old.started /\ new.started THEN old.left ELSE 0, seats |-> old.seats]
  <2>1. PICK left : left = IF old.started /\ new.started THEN old.left ELSE 0
    OBVIOUS
  <2>2. PICK f : f = old.seats
    OBVIOUS
  <2>3. PICK a, b, c, d : new = [started |-> a, pot |-> b, left |-> c, seats |-> d]
    <3>1. new = [started |-> new.started, pot |-> new.pot, left |-> new.left, seats |-> new.seats]
      BY TableFacts
    <3> QED BY <3>1
  <2>4. t = [new EXCEPT !.seats = f, !.left = left]
    BY <2>1, <2>2 DEF GameOf
  <2>5. t = [started |-> a, pot |-> b, left |-> left, seats |-> f]
    BY ONLY <2>3, <2>4
  <2> QED BY <2>1, <2>2, <2>3, <2>5
<1>2. PICK S : S = Seated(old)
  OBVIOUS
<1>3. PICK f : f = old.seats
  OBVIOUS
<1>4. S \in SUBSET Users /\ f = [u \in S |-> f[u]] /\ \A u \in S : f[u] \in [chips : Nat, bet : 0..Stake]
  BY <1>2, <1>3, TableFacts
<1>5. PICK left : left = IF old.started /\ new.started THEN old.left ELSE 0
  OBVIOUS
<1>6. PICK started \in BOOLEAN : started = new.started
  BY TableFacts
<1>7. PICK pot \in Nat : pot = new.pot
  BY TableFacts
<1>8. left \in Nat /\ (~started => pot = 0 /\ left = 0)
  BY <1>5, <1>6, <1>7, TableFacts
<1>9. t \in GoodTables
  <2>1. [started |-> started, pot |-> pot, left |-> left, seats |-> f] \in GoodTables
    BY <1>4, <1>8, TableMade
  <2> QED BY <2>1, <1>1, <1>3, <1>5, <1>6, <1>7
<1>10. t.seats = old.seats
  BY <1>1
<1>11. Seated(t) = Seated(old)
  BY <1>10 DEF Seated
<1>12. Chips(t) = Chips(old) /\ Staked(t) = Staked(old)
  BY <1>10, <1>11 DEF Chips, Staked, ChipsOf, BetsOf
<1> QED BY <1>1, <1>9, <1>11, <1>12

(***************************************************************************)
(* What a table may come to hold.  A hand that is on may pay out its pot,   *)
(* or the stakes that are in it; and the bets left over from a hand that is *)
(* over count until the next one has its own.                               *)
(***************************************************************************)
Larger(a, b) == IF a >= b THEN a ELSE b
Smaller(a, b) == IF a <= b THEN a ELSE b

AtMost(t) ==
  Chips(t) + IF t.started THEN Larger(t.pot, Staked(t) + t.left)
                          ELSE Larger(0, Staked(t) - (Stake + Stake))
AtLeast(t) ==
  Chips(t) + IF t.started THEN Smaller(t.pot, Staked(t) + t.left) ELSE 0

\* A move makes new of t, and out goes to the wallets or is left behind: the
\* room stays within its bounds if it is saved, and, give or take what was
\* moved, if it is not, or only in part.
Within(t, new, out, moved) ==
  /\ new \in GoodTables
  /\ out \in Int /\ moved \in Nat
  /\ out + AtMost(new) <= AtMost(t) /\ AtLeast(t) <= out + AtLeast(new)
  /\ -moved <= out /\ out <= moved
  /\ out + AtMost(GameOf(t, new)) <= AtMost(t) + moved
  /\ AtLeast(t) <= out + AtLeast(GameOf(t, new)) + moved

LEMMA Bounds ==
  ASSUME IsFiniteSet(Users), NEW t \in GoodTables
  PROVE  /\ AtMost(t) \in Int /\ AtLeast(t) \in Int
         /\ AtLeast(t) <= OnTheFelt(t) /\ OnTheFelt(t) <= AtMost(t)
<1>1. PICK c \in Nat, b \in Nat : c = Chips(t) /\ b = Staked(t)
  BY Counted
<1>2. t.started \in BOOLEAN /\ t.pot \in Nat /\ t.left \in Nat
  BY TableFacts
<1>3. OnTheFelt(t) = c + IF t.started THEN t.pot ELSE 0
  BY <1>1, Counted
<1>4. Stake \in Nat
  BY RoomNumbers
<1> QED BY <1>1, <1>2, <1>3, <1>4 DEF AtMost, AtLeast, Larger, Smaller

\* The bounds of a move in numbers.
LEMMA InNumbers ==
  ASSUME IsFiniteSet(Users),
         NEW t \in GoodTables, NEW new \in GoodTables,
         NEW c, NEW b, c = Chips(t), b = Staked(t),
         NEW cc, NEW bb, cc = Chips(new), bb = Staked(new)
  PROVE  /\ AtMost(t) = c + IF t.started THEN Larger(t.pot, b + t.left)
                                         ELSE Larger(0, b - (Stake + Stake))
         /\ AtLeast(t) = c + IF t.started THEN Smaller(t.pot, b + t.left) ELSE 0
         /\ AtMost(new) = cc + IF new.started THEN Larger(new.pot, bb + new.left)
                                              ELSE Larger(0, bb - (Stake + Stake))
         /\ AtLeast(new) = cc + IF new.started THEN Smaller(new.pot, bb + new.left) ELSE 0
         /\ AtMost(GameOf(t, new)) =
              c + IF new.started THEN Larger(new.pot, b + IF t.started THEN t.left ELSE 0)
                                 ELSE Larger(0, b - (Stake + Stake))
         /\ AtLeast(GameOf(t, new)) =
              c + IF new.started THEN Smaller(new.pot, b + IF t.started THEN t.left ELSE 0) ELSE 0
<1>1. PICK row : row = GameOf(t, new)
  OBVIOUS
<1>2. /\ row.started = new.started /\ row.pot = new.pot
      /\ row.left = IF t.started /\ new.started THEN t.left ELSE 0
      /\ Chips(row) = c /\ Staked(row) = b
  BY <1>1, GameOfFacts
<1>3. CASE new.started
  <2>1. row.started /\ row.left = IF t.started THEN t.left ELSE 0
    BY <1>2, <1>3
  <2> QED BY <1>1, <1>2, <1>3, <2>1 DEF AtMost, AtLeast
<1>4. CASE ~new.started
  BY <1>1, <1>2, <1>4 DEF AtMost, AtLeast
<1> QED BY <1>3, <1>4

(***************************************************************************)
(* Leaving a table.                                                         *)
(***************************************************************************)
LEMMA SeatLeft ==
  ASSUME IsFiniteSet(Users), NEW t \in GoodTables, NEW u \in Seated(t),
         NEW new \in GoodTables, new.seats = Without(t, u)
  PROVE  /\ Seated(new) = Seated(t) \ {u}
         /\ Chips(t) = t.seats[u].chips + Chips(new)
         /\ Staked(t) = t.seats[u].bet + Staked(new)
<1>1. PICK S : S = Seated(t)
  OBVIOUS
<1>2. /\ IsFiniteSet(S) /\ IsFiniteSet(S \ {u})
      /\ \A v \in S : t.seats[v].chips \in Nat /\ t.seats[v].bet \in Nat
  BY <1>1, TableFacts, FS_Subset
<1>3. new.seats = [v \in S \ {u} |-> t.seats[v]]
  BY <1>1 DEF Without
<1>4. Seated(new) = S \ {u}
  BY <1>3 DEF Seated
<1>5. Chips(t) = t.seats[u].chips + Chips(new)
  <2>1. PICK f : f = ChipsOf(t)
    OBVIOUS
  <2>2. PICK g : g = ChipsOf(new)
    OBVIOUS
  <2>3. /\ \A v \in S : f[v] \in Int
        /\ f[u] = t.seats[u].chips
        /\ \A v \in S \ {u} : f[v] = g[v]
    BY <1>1, <1>2, <1>3, <1>4, <2>1, <2>2 DEF ChipsOf
  <2>4. SumFunctionOnSet(f, S) = f[u] + SumFunctionOnSet(f, S \ {u})
    BY <1>1, <1>2, <2>3, SumSplit
  <2>5. SumFunctionOnSet(f, S \ {u}) = SumFunctionOnSet(g, S \ {u})
    BY <1>2, <2>3, SumSame
  <2> QED BY <1>1, <1>4, <2>1, <2>2, <2>3, <2>4, <2>5 DEF Chips
<1>6. Staked(t) = t.seats[u].bet + Staked(new)
  <2>1. PICK f : f = BetsOf(t)
    OBVIOUS
  <2>2. PICK g : g = BetsOf(new)
    OBVIOUS
  <2>3. /\ \A v \in S : f[v] \in Int
        /\ f[u] = t.seats[u].bet
        /\ \A v \in S \ {u} : f[v] = g[v]
    BY <1>1, <1>2, <1>3, <1>4, <2>1, <2>2 DEF BetsOf
  <2>4. SumFunctionOnSet(f, S) = f[u] + SumFunctionOnSet(f, S \ {u})
    BY <1>1, <1>2, <2>3, SumSplit
  <2>5. SumFunctionOnSet(f, S \ {u}) = SumFunctionOnSet(g, S \ {u})
    BY <1>2, <2>3, SumSame
  <2> QED BY <1>1, <1>4, <2>1, <2>2, <2>3, <2>4, <2>5 DEF Staked
<1> QED BY <1>1, <1>4, <1>5, <1>6

\* Whoever is alone at a table has one stake there, no more.
LEMMA AloneAtTheTable ==
  ASSUME IsFiniteSet(Users), NEW t \in GoodTables,
         Cardinality(Seated(t)) <= 1
  PROVE  Staked(t) <= Stake
<1>1. PICK S, f : S = Seated(t) /\ f = BetsOf(t)
  OBVIOUS
<1>2. IsFiniteSet(S) /\ Cardinality(S) <= 1 /\ \A v \in S : f[v] \in Int /\ f[v] <= Stake
  <2>1. IsFiniteSet(S) /\ \A v \in S : t.seats[v].bet \in Nat /\ t.seats[v].bet <= Stake
    BY <1>1, TableFacts
  <2>2. f = [v \in S |-> t.seats[v].bet]
    BY <1>1 DEF BetsOf
  <2> QED BY <1>1, <2>1, <2>2
<1>3. Stake \in Nat
  BY RoomNumbers
<1>4. SumFunctionOnSet(f, S) <= Stake
  <2>1. CASE S = {}
    BY <1>3, <2>1, SumOfNothing
  <2>2. CASE S # {}
    <3>1. PICK v \in S : TRUE
      BY <2>2
    <3>2. IsFiniteSet(S \ {v}) /\ Cardinality(S \ {v}) = Cardinality(S) - 1
      BY <1>2, FS_RemoveElement
    <3>3. Cardinality(S) \in Nat /\ Cardinality(S \ {v}) \in Nat
      BY <1>2, <3>2, FS_CardinalityType
    <3>4. Cardinality(S \ {v}) = 0
      BY <1>2, <3>2, <3>3
    <3>5. S \ {v} = {}
      BY <3>2, <3>4, FS_EmptySet
    <3>6. SumFunctionOnSet(f, S) = f[v] + SumFunctionOnSet(f, S \ {v})
      BY <1>2, SumSplit
    <3>7. SumFunctionOnSet(f, S \ {v}) = 0
      BY <3>5, SumOfNothing
    <3> QED BY <1>2, <1>3, <3>6, <3>7
  <2> QED BY <2>1, <2>2
<1> QED BY <1>1, <1>4 DEF Staked

LEMMA LeaveKeepsWithin ==
  ASSUME IsFiniteSet(Users), NEW t \in GoodTables, NEW u \in Seated(t),
         NEW new, new = TableWithout(t, u),
         NEW out, out = t.seats[u].chips + IF new.started THEN 0 ELSE t.pot
  PROVE  /\ Within(t, new, out, out)
         /\ Seated(new) = Seated(t) \ {u}
<1>1. PICK S : S = Seated(t)
  OBVIOUS
<1>2. PICK f : f = t.seats
  OBVIOUS
<1>3. PICK g : g = Without(t, u)
  OBVIOUS
<1>4. /\ S \ {u} \in SUBSET Users
      /\ g = [v \in S \ {u} |-> g[v]]
      /\ \A v \in S \ {u} : g[v] \in [chips : Nat, bet : 0..Stake]
  BY <1>1, <1>3, TableFacts DEF Without
<1>5. PICK x \in Nat, y \in Nat : x = f[u].chips /\ y = f[u].bet
  BY <1>2, TableFacts
<1>6. PICK started \in BOOLEAN, pot \in Nat, left \in Nat :
        /\ t.started = started /\ t.pot = pot /\ t.left = left
        /\ ~started => pot = 0 /\ left = 0
        /\ t = [started |-> started, pot |-> pot, left |-> left, seats |-> f]
  <2>1. /\ t.started \in BOOLEAN /\ t.pot \in Nat /\ t.left \in Nat
        /\ ~t.started => t.pot = 0 /\ t.left = 0
        /\ t = [started |-> t.started, pot |-> t.pot, left |-> t.left, seats |-> f]
    BY <1>2, TableFacts
  <2> QED BY <2>1, Zenon
<1>7. new = IF Cardinality(S) > 2
            THEN [started |-> started, pot |-> pot, left |-> IF started THEN left + y ELSE 0,
                  seats |-> g]
            ELSE [started |-> FALSE, pot |-> 0, left |-> 0, seats |-> g]
  <2>1. new = IF Cardinality(S) > 2
              THEN [t EXCEPT !.seats = g, !.left = IF started THEN left + y ELSE 0]
              ELSE [t EXCEPT !.seats = g, !.started = FALSE, !.pot = 0, !.left = 0]
    BY <1>1, <1>2, <1>3, <1>5, <1>6 DEF TableWithout
  <2> QED BY <2>1, <1>6
<1>8. new \in GoodTables
  <2>1. PICK behind \in Nat : behind = IF started THEN left + y ELSE 0
    OBVIOUS
  <2>2. [started |-> started, pot |-> pot, left |-> behind, seats |-> g] \in GoodTables
    BY <1>4, <1>6, <2>1, TableMade
  <2>3. [started |-> FALSE, pot |-> 0, left |-> 0, seats |-> g] \in GoodTables
    BY <1>4, TableMade
  <2> QED BY <1>7, <2>1, <2>2, <2>3
<1>9. new.seats = g
  BY <1>7
<1>10. /\ Seated(new) = S \ {u}
       /\ Chips(t) = x + Chips(new)
       /\ Staked(t) = y + Staked(new)
  BY <1>1, <1>2, <1>3, <1>5, <1>8, <1>9, SeatLeft
<1>11. PICK c \in Nat, b \in Nat, cc \in Nat, bb \in Nat :
         c = Chips(t) /\ b = Staked(t) /\ cc = Chips(new) /\ bb = Staked(new)
  BY <1>8, Counted
<1>12. c = x + cc /\ b = y + bb
  BY <1>10, <1>11
<1>13. Stake \in Nat
  BY RoomNumbers
<1>14. CASE Cardinality(S) > 2
  <2>1. /\ new.started = started /\ new.pot = pot
        /\ new.left = IF started THEN left + y ELSE 0
    BY <1>7, <1>14
  <2>2. out = x
    BY <1>2, <1>5, <1>6, <2>1
  <2>3. Within(t, new, out, out)
    <3>1. PICK behind \in Nat : behind = IF started THEN left + y ELSE 0
      OBVIOUS
    <3>2. /\ AtMost(t) = c + IF started THEN Larger(pot, b + left) ELSE Larger(0, b - (Stake + Stake))
          /\ AtLeast(t) = c + IF started THEN Smaller(pot, b + left) ELSE 0
          /\ AtMost(new) = cc + IF started THEN Larger(pot, bb + behind)
                                           ELSE Larger(0, bb - (Stake + Stake))
          /\ AtLeast(new) = cc + IF started THEN Smaller(pot, bb + behind) ELSE 0
          /\ AtMost(GameOf(t, new)) = AtMost(t)
          /\ AtLeast(GameOf(t, new)) = AtLeast(t)
      BY <1>6, <1>8, <1>11, <2>1, <3>1, InNumbers
    <3> QED BY <1>8, <1>12, <1>13, <2>2, <3>1, <3>2 DEF Within, Larger, Smaller
  <2> QED BY <1>1, <1>10, <2>3
<1>15. CASE ~(Cardinality(S) > 2)
  <2>1. ~new.started /\ new.pot = 0 /\ new.left = 0
    BY <1>7, <1>15
  <2>2. out = x + pot
    BY <1>2, <1>5, <1>6, <2>1
  <2>3. bb <= Stake
    <3>1. IsFiniteSet(S) /\ Cardinality(S) \in Nat
      BY <1>1, TableFacts, FS_CardinalityType
    <3>2. Cardinality(S \ {u}) = Cardinality(S) - 1
      BY <1>1, <3>1, FS_RemoveElement
    <3>3. Cardinality(Seated(new)) <= 1
      BY <1>10, <1>15, <3>1, <3>2
    <3> QED BY <1>8, <1>11, <3>3, AloneAtTheTable
  <2>4. Within(t, new, out, out)
    <3>1. /\ AtMost(t) = c + IF started THEN Larger(pot, b + left) ELSE Larger(0, b - (Stake + Stake))
          /\ AtLeast(t) = c + IF started THEN Smaller(pot, b + left) ELSE 0
          /\ AtMost(new) = cc + Larger(0, bb - (Stake + Stake))
          /\ AtLeast(new) = cc + 0
          /\ AtMost(GameOf(t, new)) = c + Larger(0, b - (Stake + Stake))
          /\ AtLeast(GameOf(t, new)) = c + 0
      BY <1>6, <1>8, <1>11, <2>1, InNumbers
    <3> QED BY <1>6, <1>8, <1>12, <1>13, <2>2, <2>3, <3>1 DEF Within, Larger, Smaller
  <2> QED BY <1>1, <1>10, <2>4
<1> QED BY <1>14, <1>15

(***************************************************************************)
(* A hand.                                                                  *)
(***************************************************************************)
LEMMA StartKeepsWithin ==
  ASSUME IsFiniteSet(Users), NEW t \in GoodTables, ~t.started,
         Cardinality(DealtIn(t)) >= 2,
         NEW new, new = HandDealt(t)
  PROVE  /\ Within(t, new, 0, new.pot)
         /\ Seated(new) = Seated(t)
<1>1. PICK S, D : S = Seated(t) /\ D = DealtIn(t)
  OBVIOUS
<1>2. PICK f : f = t.seats
  OBVIOUS
<1>3. /\ S \subseteq Users /\ IsFiniteSet(S)
      /\ \A u \in S : /\ f[u] \in [chips : Nat, bet : 0..Stake]
                      /\ f[u].chips \in Nat
  BY <1>1, <1>2, TableFacts
<1>4. D \subseteq S /\ \A u \in D : f[u].chips >= Stake
  BY <1>1, <1>2 DEF DealtIn
<1>5. IsFiniteSet(D) /\ Stake \in Nat /\ Stake > 0
  BY <1>3, <1>4, FS_Subset, RoomNumbers
<1>6. PICK n \in Nat : n = Cardinality(D)
  BY <1>5, FS_CardinalityType
<1>7. n >= 2
  BY <1>1, <1>6
<1>8. PICK all \in Nat : all = Stake * n /\ all >= Stake + Stake
  <2>1. PICK m \in Nat : n = 2 + m
    <3>1. n - 2 \in Nat /\ n = 2 + (n - 2)
      BY <1>6, <1>7
    <3> QED BY <3>1
  <2>2. Stake * m \in Nat /\ Stake * n = Stake + Stake + Stake * m
    BY <1>5, <2>1
  <2> QED BY <1>5, <2>2
<1>9. PICK bet : bet = [u \in S |-> IF u \in D THEN Stake ELSE 0]
  OBVIOUS
<1>10. PICK g : g = [u \in S |-> [chips |-> f[u].chips - bet[u], bet |-> bet[u]]]
  OBVIOUS
<1>11. \A u \in S : /\ g[u].chips = f[u].chips - bet[u] /\ g[u].bet = bet[u]
                    /\ g[u].chips \in Nat /\ g[u].bet \in Nat
                    /\ g[u] \in [chips : Nat, bet : 0..Stake]
  <2> SUFFICES ASSUME NEW u \in S
               PROVE  /\ g[u].chips = f[u].chips - bet[u] /\ g[u].bet = bet[u]
                      /\ g[u].chips \in Nat /\ g[u].bet \in Nat
                      /\ g[u] \in [chips : Nat, bet : 0..Stake]
    OBVIOUS
  <2>1. PICK x \in Nat, y \in 0..Stake : f[u] = [chips |-> x, bet |-> y]
    BY <1>3
  <2>2. g[u] = [chips |-> x - bet[u], bet |-> bet[u]]
    BY <1>10, <2>1
  <2>3. bet[u] \in 0..Stake /\ x - bet[u] \in Nat
    <3>1. CASE u \in D
      BY <1>4, <1>5, <1>9, <2>1, <3>1
    <3>2. CASE u \notin D
      BY <1>5, <1>9, <3>2
    <3> QED BY <3>1, <3>2
  <2>4. f[u].chips = x
    BY <2>1
  <2> QED BY <1>5, <2>2, <2>3, <2>4
<1>12. new = [started |-> TRUE, pot |-> all, left |-> 0, seats |-> g]
  <2>1. new = [started |-> TRUE, pot |-> Stake * n, left |-> 0,
               seats |-> [u \in S |-> [chips |-> f[u].chips - (IF u \in D THEN Stake ELSE 0),
                                       bet |-> IF u \in D THEN Stake ELSE 0]]]
    BY <1>1, <1>2, <1>6 DEF HandDealt
  <2>2. g = [u \in S |-> [chips |-> f[u].chips - (IF u \in D THEN Stake ELSE 0),
                          bet |-> IF u \in D THEN Stake ELSE 0]]
    BY <1>9, <1>10
  <2> QED BY <1>8, <2>1, <2>2
<1>13. new \in GoodTables
  <2>1. S \in SUBSET Users /\ g = [u \in S |-> g[u]]
    BY <1>3, <1>10
  <2>2. [started |-> TRUE, pot |-> all, left |-> 0, seats |-> g] \in GoodTables
    BY <1>8, <1>11, <2>1, TableMade
  <2> QED BY <1>12, <2>2
<1>14. new.seats = g /\ new.started /\ new.pot = all /\ new.left = 0
  BY <1>12
<1>15. Seated(new) = S
  BY <1>10, <1>14 DEF Seated
<1>16. Staked(new) = all
  <2>1. PICK h : h = BetsOf(new)
    OBVIOUS
  <2>2. \A u \in S : h[u] = bet[u]
    BY <1>11, <1>14, <1>15, <2>1 DEF BetsOf
  <2>3. PICK k : k = [u \in D |-> Stake]
    OBVIOUS
  <2>4. /\ \A u \in S : h[u] \in Int
        /\ \A u \in D : h[u] = k[u]
        /\ \A u \in S \ D : h[u] = 0
    BY <1>4, <1>5, <1>9, <2>2, <2>3
  <2>5. SumFunctionOnSet(h, S) = SumFunctionOnSet(k, D)
    BY <1>3, <1>4, <2>4, SumWhere
  <2>6. SumFunctionOnSet(k, D) = Stake * n
    <3>1. Stake \in Int /\ \A u \in D : k[u] = Stake
      BY <1>5, <2>3
    <3>2. SumFunctionOnSet(k, D) = Product(Stake, Cardinality(D))
      BY <1>5, <3>1, SumConstant
    <3> QED BY <1>6, <3>2 DEF Product
  <2> QED BY <1>8, <1>15, <2>1, <2>5, <2>6 DEF Staked
<1>17. Chips(t) = Chips(new) + Staked(new)
  <2>1. PICK h, p, q : h = ChipsOf(t) /\ p = ChipsOf(new) /\ q = BetsOf(new)
    OBVIOUS
  <2>2. \A u \in S : h[u] = f[u].chips /\ p[u] = g[u].chips /\ q[u] = g[u].bet
    BY <1>1, <1>2, <1>14, <1>15, <2>1 DEF ChipsOf, BetsOf
  <2>3. \A u \in S : p[u] \in Int /\ q[u] \in Int /\ h[u] = p[u] + q[u]
    BY <1>3, <1>11, <2>2
  <2>4. SumFunctionOnSet(h, S) = SumFunctionOnSet(p, S) + SumFunctionOnSet(q, S)
    BY <1>3, <2>3, SumPlus
  <2> QED BY <1>1, <1>15, <2>1, <2>4 DEF Chips, Staked
<1>18. PICK c \in Nat, b \in Nat, cc \in Nat, bb \in Nat :
         c = Chips(t) /\ b = Staked(t) /\ cc = Chips(new) /\ bb = Staked(new)
  BY <1>13, Counted
<1>19. c = cc + all /\ bb = all
  BY <1>16, <1>17, <1>18
<1>20. /\ AtMost(t) = c + Larger(0, b - (Stake + Stake))
       /\ AtLeast(t) = c + 0
       /\ AtMost(new) = cc + Larger(all, bb + 0)
       /\ AtLeast(new) = cc + Smaller(all, bb + 0)
       /\ AtMost(GameOf(t, new)) = c + Larger(all, b + 0)
       /\ AtLeast(GameOf(t, new)) = c + Smaller(all, b + 0)
  BY <1>13, <1>14, <1>18, InNumbers
<1>21. all \in Nat /\ all >= Stake + Stake
  BY <1>8
<1>22. Within(t, new, 0, all)
  BY <1>5, <1>13, <1>18, <1>19, <1>20, <1>21 DEF Within, Larger, Smaller
<1> QED BY <1>1, <1>14, <1>15, <1>22

LEMMA EndKeepsWithin ==
  ASSUME IsFiniteSet(Users), NEW t \in GoodTables, t.started,
         NEW u \in Seated(t), NEW folded \in BOOLEAN,
         NEW won, won = IF folded THEN t.pot ELSE Stakes(t),
         NEW lost, lost = IF folded THEN 0 ELSE t.left,
         NEW new, new = HandOver(t, u, won),
         NEW moved, moved = IF won + lost > t.pot THEN won + lost ELSE t.pot
  PROVE  /\ Within(t, new, lost, moved)
         /\ Seated(new) = Seated(t)
<1>1. PICK S : S = Seated(t)
  OBVIOUS
<1>2. PICK f : f = t.seats
  OBVIOUS
<1>3. /\ S \subseteq Users /\ IsFiniteSet(S)
      /\ \A v \in S : /\ f[v] \in [chips : Nat, bet : 0..Stake]
                      /\ f[v].chips \in Nat
  BY <1>1, <1>2, TableFacts
<1>4. PICK pot \in Nat, left \in Nat : pot = t.pot /\ left = t.left
  BY TableFacts
<1>5. PICK c \in Nat, b \in Nat : c = Chips(t) /\ b = Staked(t)
  BY Counted
<1>6. won = IF folded THEN pot ELSE b
  BY <1>4, <1>5, Counted
<1>7. won \in Nat /\ lost \in Nat /\ Stake \in Nat
  BY <1>4, <1>5, <1>6, RoomNumbers
<1>8. PICK g : g = [v \in S |-> [chips |-> f[v].chips + IF v = u THEN won ELSE 0, bet |-> 0]]
  OBVIOUS
<1>9. \A v \in S : /\ g[v].chips = f[v].chips + IF v = u THEN won ELSE 0
                   /\ g[v].bet = 0 /\ g[v].chips \in Nat
                   /\ g[v] \in [chips : Nat, bet : 0..Stake]
  <2> SUFFICES ASSUME NEW v \in S
               PROVE  /\ g[v].chips = f[v].chips + IF v = u THEN won ELSE 0
                      /\ g[v].bet = 0 /\ g[v].chips \in Nat
                      /\ g[v] \in [chips : Nat, bet : 0..Stake]
    OBVIOUS
  <2>1. PICK x \in Nat, y \in 0..Stake : f[v] = [chips |-> x, bet |-> y]
    BY <1>3
  <2>2. PICK more \in Nat : more = IF v = u THEN won ELSE 0
    BY <1>7
  <2>3. g[v] = [chips |-> x + more, bet |-> 0]
    BY <1>8, <2>1, <2>2
  <2> QED BY <1>7, <2>1, <2>2, <2>3
<1>10. new = [started |-> FALSE, pot |-> 0, left |-> 0, seats |-> g]
  BY <1>1, <1>2, <1>8 DEF HandOver
<1>11. new \in GoodTables
  <2>1. S \in SUBSET Users /\ g = [v \in S |-> g[v]]
    BY <1>3, <1>8
  <2>2. [started |-> FALSE, pot |-> 0, left |-> 0, seats |-> g] \in GoodTables
    BY <1>9, <2>1, TableMade
  <2> QED BY <1>10, <2>2
<1>12. new.seats = g /\ ~new.started /\ new.pot = 0 /\ new.left = 0
  BY <1>10
<1>13. Seated(new) = S
  BY <1>8, <1>12 DEF Seated
<1>14. Staked(new) = 0
  <2>1. PICK h : h = BetsOf(new)
    OBVIOUS
  <2>2. \A v \in S : h[v] = 0
    BY <1>9, <1>12, <1>13, <2>1 DEF BetsOf
  <2>3. SumFunctionOnSet(h, S) = 0
    BY <1>3, <2>2, SumZero
  <2> QED BY <1>13, <2>1, <2>3 DEF Staked
<1>15. Chips(new) = c + won
  <2>1. PICK h, p : h = ChipsOf(t) /\ p = ChipsOf(new)
    OBVIOUS
  <2>2. \A v \in S : h[v] = f[v].chips /\ p[v] = g[v].chips
    BY <1>1, <1>2, <1>12, <1>13, <2>1 DEF ChipsOf
  <2>3. /\ \A v \in S : h[v] \in Int /\ p[v] \in Int
        /\ \A v \in S \ {u} : h[v] = p[v]
        /\ u \in S /\ p[u] = h[u] + won
    BY <1>1, <1>3, <1>7, <1>9, <2>2
  <2>4. SumFunctionOnSet(p, S) = SumFunctionOnSet(h, S) - h[u] + p[u]
    BY <1>3, <2>3, SumChange
  <2>5. SumFunctionOnSet(h, S) = c /\ SumFunctionOnSet(p, S) = Chips(new)
    BY <1>1, <1>5, <1>13, <2>1 DEF Chips
  <2> QED BY <1>5, <1>7, <2>3, <2>4, <2>5
<1>16. /\ AtMost(t) = c + Larger(pot, b + left)
       /\ AtLeast(t) = c + Smaller(pot, b + left)
       /\ AtMost(new) = c + won + Larger(0, 0 - (Stake + Stake))
       /\ AtLeast(new) = c + won + 0
       /\ AtMost(GameOf(t, new)) = c + Larger(0, b - (Stake + Stake))
       /\ AtLeast(GameOf(t, new)) = c + 0
  BY <1>4, <1>5, <1>11, <1>12, <1>14, <1>15, InNumbers
<1>17. moved = IF won + lost > pot THEN won + lost ELSE pot
  BY <1>4
<1>18. CASE folded
  <2>1. won = pot /\ lost = 0
    BY <1>6, <1>18
  <2> QED BY <1>1, <1>4, <1>5, <1>7, <1>11, <1>13, <1>16, <1>17, <2>1 DEF Within, Larger, Smaller
<1>19. CASE ~folded
  <2>1. won = b /\ lost = left
    BY <1>4, <1>6, <1>19
  <2> QED BY <1>1, <1>4, <1>5, <1>7, <1>11, <1>13, <1>16, <1>17, <2>1 DEF Within, Larger, Smaller
<1> QED BY <1>18, <1>19

(***************************************************************************)
(* Joining a table.                                                         *)
(***************************************************************************)
LEMMA JoinKeepsWithin ==
  ASSUME IsFiniteSet(Users), NEW t \in GoodTables, ~t.started,
         NEW u \in Users, u \notin Seated(t),
         NEW new, new = TableWith(t, u)
  PROVE  /\ Within(t, new, -BuyIn, BuyIn)
         /\ Seated(new) = Seated(t) \cup {u}
<1>1. PICK S : S = Seated(t)
  OBVIOUS
<1>2. PICK f : f = t.seats
  OBVIOUS
<1>3. PICK g : g = [v \in S \cup {u} |-> IF v = u THEN NewSeat ELSE f[v]]
  OBVIOUS
<1>4. /\ S \subseteq Users /\ u \notin S
      /\ \A v \in S : f[v] \in [chips : Nat, bet : 0..Stake]
  BY <1>1, <1>2, TableFacts
<1>5. BuyIn \in Nat /\ Stake \in Nat
  BY RoomNumbers
<1>6. NewSeat = [chips |-> BuyIn, bet |-> 0]
  BY DEF NewSeat
<1>7. /\ S \cup {u} \in SUBSET Users
      /\ g = [v \in S \cup {u} |-> g[v]]
      /\ \A v \in S \cup {u} : g[v] \in [chips : Nat, bet : 0..Stake]
  BY <1>3, <1>4, <1>5, <1>6
<1>8. t = [started |-> FALSE, pot |-> 0, left |-> 0, seats |-> f]
  <2>1. /\ t.started \in BOOLEAN /\ t.pot = 0 /\ t.left = 0
        /\ t = [started |-> t.started, pot |-> t.pot, left |-> t.left, seats |-> f]
    BY <1>2, TableFacts
  <2>2. t.started = FALSE
    BY <2>1
  <2> QED BY <2>1, <2>2
<1>9. new = [started |-> FALSE, pot |-> 0, left |-> 0, seats |-> g]
  <2>1. new = [t EXCEPT !.seats = g]
    BY <1>1, <1>2, <1>3 DEF TableWith
  <2> QED BY <1>8, <2>1
<1>10. new \in GoodTables
  <2>1. [started |-> FALSE, pot |-> 0, left |-> 0, seats |-> g] \in GoodTables
    BY <1>7, TableMade
  <2> QED BY <1>9, <2>1
<1>11. new.seats = g /\ ~new.started /\ new.pot = 0 /\ new.left = 0
  BY <1>9
<1>12. Seated(new) = S \cup {u}
  BY <1>3, <1>11 DEF Seated
<1>13. Chips(new) = BuyIn + Chips(t) /\ Staked(new) = Staked(t)
  <2>1. t.seats = Without(new, u)
    <3>1. (S \cup {u}) \ {u} = S
      BY <1>4
    <3>2. f = [v \in S |-> f[v]]
      BY <1>1, <1>2, TableFacts
    <3>3. [v \in S |-> g[v]] = [v \in S |-> f[v]]
      BY <1>3, <1>4
    <3> QED BY <1>2, <1>11, <1>12, <3>1, <3>2, <3>3 DEF Without
  <2>2. u \in Seated(new) /\ new.seats[u].chips = BuyIn /\ new.seats[u].bet = 0
    BY <1>3, <1>6, <1>11, <1>12
  <2>3. /\ Chips(new) = new.seats[u].chips + Chips(t)
        /\ Staked(new) = new.seats[u].bet + Staked(t)
    BY <1>10, <2>1, <2>2, SeatLeft
  <2> QED BY <2>2, <2>3, Counted
<1>14. PICK c \in Nat, b \in Nat, cc \in Nat, bb \in Nat :
         c = Chips(t) /\ b = Staked(t) /\ cc = Chips(new) /\ bb = Staked(new)
  BY <1>10, Counted
<1>15. cc = BuyIn + c /\ bb = b
  BY <1>13, <1>14
<1>16. /\ AtMost(t) = c + Larger(0, b - (Stake + Stake))
       /\ AtLeast(t) = c + 0
       /\ AtMost(new) = cc + Larger(0, bb - (Stake + Stake))
       /\ AtLeast(new) = cc + 0
       /\ AtMost(GameOf(t, new)) = c + Larger(0, b - (Stake + Stake))
       /\ AtLeast(GameOf(t, new)) = c + 0
  BY <1>10, <1>11, <1>14, InNumbers
<1>17. Within(t, new, -BuyIn, BuyIn)
  BY <1>5, <1>10, <1>14, <1>15, <1>16 DEF Within, Larger, Smaller
<1> QED BY <1>1, <1>12, <1>17

(***************************************************************************)
(* The inductive invariant.                                                 *)
(***************************************************************************)
RoomsTyped ==
  /\ wallet \in [Users -> Nat]
  /\ live \in [Codes -> GoodTables \cup {None}]
  /\ saved \in [Codes -> GoodTables]
  /\ saving \in [Codes -> Saves \cup {None}]
  /\ forfeited \in Nat /\ exposed \in Nat

RequestsTyped ==
  task \in [Requests -> {Idle} \cup [at : {"joining"}, user : Users,
                                             code : Codes, others : SUBSET Codes]]

\* What the rows of a room have to do with what is in memory.
RoomsSaved ==
  \A c \in Codes :
    /\ live[c] = None => Seated(saved[c]) \subseteq forgotten
    /\ saving[c] # None => live[c] # None
    /\ saving[c] = None => live[c] \in {None, saved[c]}
    /\ saving[c] # None /\ saving[c].row = "players" =>
         saved[c].started = live[c].started /\ saved[c].pot = live[c].pot

\* A user who has had one request at a time, and was not at a table when the
\* server went down, is at one table; and what he is joining has on its list
\* every other table he is at.
OneSeatEach ==
  \A u \in Users \ (overlapped \cup forgotten) :
    /\ \A c, d \in SeatsOf(u) : c = d
    /\ \A p, q \in Requests :
         /\ task[p] # Idle /\ task[p].user = u
         /\ task[q] # Idle /\ task[q].user = u
         => p = q
    /\ \A p \in Requests :
         task[p] # Idle /\ task[p].user = u
         => SeatsOf(u) \subseteq task[p].others \cup {task[p].code}

\* What is not on a table, against what there was.
Initially == Cardinality(Users) * InitialWallet
Kept == SumFunctionOnSet(wallet, Users) + forfeited - Initially

\* high and low are what room c may come to hold, whatever becomes of the save
\* that is under way: a crash adds what it had moved to what is exposed.
NoMore(c, high) ==
  /\ AtMost(GetOrCreateTable(c)) <= high
  /\ saving[c] # None => AtMost(saved[c]) <= high + saving[c].moved
  /\ saving[c] # None /\ saving[c].row = "game" =>
       AtMost(GameOf(saved[c], live[c])) <= high + saving[c].moved

NoLess(c, low) ==
  /\ low <= AtLeast(GetOrCreateTable(c))
  /\ saving[c] # None => low <= AtLeast(saved[c]) + saving[c].moved
  /\ saving[c] # None /\ saving[c].row = "game" =>
       low <= AtLeast(GameOf(saved[c], live[c])) + saving[c].moved

MoneyWithin ==
  /\ \E high \in [Codes -> Int] :
       /\ \A c \in Codes : NoMore(c, high[c])
       /\ Kept + SumFunctionOnSet(high, Codes) <= exposed
  /\ \E low \in [Codes -> Int] :
       /\ \A c \in Codes : NoLess(c, low[c])
       /\ -exposed <= Kept + SumFunctionOnSet(low, Codes)

RoomsInv == RoomsTyped /\ RequestsTyped /\ RoomsSaved /\ OneSeatEach /\ MoneyWithin

FinitelyMany == IsFiniteSet(Users) /\ IsFiniteSet(Codes)

\* The table of a room.
LEMMA RoomIs ==
  ASSUME FinitelyMany, RoomsTyped, RoomsSaved, NEW c \in Codes
  PROVE  /\ GetOrCreateTable(c) \in GoodTables
         /\ GetOrCreateTable(c) = IF live[c] = None THEN saved[c] ELSE live[c]
         /\ live[c] # None => live[c] \in GoodTables
         /\ saved[c] \in GoodTables
         /\ None \notin GoodTables
         /\ saving[c] = None => GetOrCreateTable(c) = saved[c]
         /\ saving[c] # None => GetOrCreateTable(c) = live[c]
         /\ saving[c] # None => saving[c] \in Saves /\ saving[c].moved \in Nat
<1>1. None \notin GoodTables
  BY RoomNumbers DEF GoodTables, FinitelyMany
<1>2. live[c] \in GoodTables \cup {None} /\ saved[c] \in GoodTables /\ saving[c] \in Saves \cup {None}
  BY DEF RoomsTyped
<1>3. GetOrCreateTable(c) = IF live[c] = None THEN saved[c] ELSE live[c]
  BY DEF GetOrCreateTable
<1>4. /\ saving[c] # None => live[c] # None
      /\ saving[c] = None => live[c] \in {None, saved[c]}
  BY DEF RoomsSaved
<1>5. saving[c] # None => saving[c] \in Saves /\ saving[c].moved \in Nat
  BY <1>2 DEF Saves
<1> QED BY <1>1, <1>2, <1>3, <1>4, <1>5

LEMMA KeptTyped ==
  ASSUME FinitelyMany, wallet \in [Users -> Nat], forfeited \in Nat
  PROVE  Kept \in Int /\ Initially \in Int
<1>1. PICK w : w = wallet
  OBVIOUS
<1>2. IsFiniteSet(Users) /\ \A u \in Users : w[u] \in Int
  BY <1>1 DEF FinitelyMany
<1>3. SumFunctionOnSet(w, Users) \in Int
  BY <1>2, SumType
<1>4. Cardinality(Users) \in Nat /\ InitialWallet \in Nat
  BY RoomNumbers, FS_CardinalityType DEF FinitelyMany
<1>5. Initially \in Int
  BY <1>4 DEF Initially
<1> QED BY <1>1, <1>3, <1>5 DEF Kept

\* What goes to a wallet, or is left behind.
LEMMA KeptChanges ==
  ASSUME FinitelyMany, wallet \in [Users -> Nat], forfeited \in Nat,
         NEW u \in Users, NEW x \in Int, wallet[u] + x \in Nat, NEW y \in Nat,
         wallet' = [wallet EXCEPT ![u] = @ + x], forfeited' = forfeited + y
  PROVE  /\ wallet' \in [Users -> Nat] /\ forfeited' \in Nat
         /\ Kept' = Kept + (x + y)
<1>1. PICK w, v : w = wallet /\ v = wallet'
  OBVIOUS
<1>2. /\ IsFiniteSet(Users)
      /\ \A i \in Users : w[i] \in Int /\ v[i] \in Int
      /\ \A i \in Users \ {u} : w[i] = v[i]
      /\ v[u] = w[u] + x
  BY <1>1 DEF FinitelyMany
<1>3. SumFunctionOnSet(v, Users) = SumFunctionOnSet(w, Users) - w[u] + v[u]
  BY <1>2, SumChange
<1>4. SumFunctionOnSet(w, Users) \in Int /\ w[u] \in Int
  BY <1>2, SumType
<1>5. SumFunctionOnSet(v, Users) = SumFunctionOnSet(w, Users) + x
  BY <1>2, <1>3, <1>4
<1>6. Initially \in Int
  BY KeptTyped
<1>7. wallet' \in [Users -> Nat] /\ forfeited' \in Nat
  OBVIOUS
<1> QED BY <1>1, <1>4, <1>5, <1>6, <1>7 DEF Kept

\* What is taken off one value is taken off the sum.
LEMMA SumTakes ==
  ASSUME NEW S, IsFiniteSet(S), NEW f, NEW g, NEW i \in S, NEW x \in Int,
         \A d \in S : f[d] \in Int /\ g[d] \in Int,
         \A d \in S \ {i} : f[d] = g[d],
         g[i] = f[i] - x
  PROVE  SumFunctionOnSet(g, S) = SumFunctionOnSet(f, S) - x
<1>1. SumFunctionOnSet(g, S) = SumFunctionOnSet(f, S) - f[i] + g[i]
  BY SumChange
<1>2. SumFunctionOnSet(f, S) \in Int
  BY SumType
<1> QED BY <1>1, <1>2

(***************************************************************************)
(* Moves.                                                                   *)
(***************************************************************************)
LEMMA MoveHolds ==
  ASSUME FinitelyMany, RoomsTyped, RoomsSaved, MoneyWithin, NEW c \in Codes, Free(c),
         NEW new, NEW out, NEW moved, NEW by \in Requests \cup {None},
         Within(GetOrCreateTable(c), new, out, moved),
         Move(c, new, moved, by),
         wallet' \in [Users -> Nat], forfeited' \in Nat, Kept' = Kept + out,
         UNCHANGED <<saved, forgotten, exposed>>
  PROVE  RoomsTyped' /\ RoomsSaved' /\ MoneyWithin'
<1>1. PICK t : t = GetOrCreateTable(c)
  OBVIOUS
<1>2. t \in GoodTables /\ new \in GoodTables /\ saved[c] = t /\ None \notin GoodTables /\ out \in Int /\ moved \in Nat
  BY <1>1, RoomIs DEF Within, Free
<1>3. PICK save : save = [row |-> "game", moved |-> moved, by |-> by]
  OBVIOUS
<1>4. save \in Saves /\ save # None /\ save.row = "game" /\ save.moved = moved
  BY <1>2, <1>3, RoomNumbers DEF Saves, FinitelyMany
<1>5. live' = [live EXCEPT ![c] = new] /\ saving' = [saving EXCEPT ![c] = save]
  BY <1>3 DEF Move
<1>6. RoomsTyped'
  BY <1>2, <1>4, <1>5 DEF RoomsTyped
<1>7. /\ live'[c] = new /\ saving'[c] = save /\ live'[c] # None /\ saving'[c] # None
      /\ \A d \in Codes \ {c} : live'[d] = live[d] /\ saving'[d] = saving[d]
      /\ saved' = saved
  BY <1>2, <1>4, <1>5 DEF RoomsTyped
<1>8. RoomsSaved'
  BY <1>4, <1>7 DEF RoomsSaved, Seated
<1>9. GetOrCreateTable(c)' = new
  BY <1>7 DEF GetOrCreateTable
<1>10. \A d \in Codes \ {c} :
         /\ GetOrCreateTable(d)' = GetOrCreateTable(d)
         /\ live'[d] = live[d] /\ saving'[d] = saving[d] /\ saved'[d] = saved[d]
  BY <1>7 DEF GetOrCreateTable
<1>11. /\ out + AtMost(new) <= AtMost(t) /\ AtLeast(t) <= out + AtLeast(new)
       /\ -moved <= out /\ out <= moved
       /\ out + AtMost(GameOf(t, new)) <= AtMost(t) + moved
       /\ AtLeast(t) <= out + AtLeast(GameOf(t, new)) + moved
  BY <1>1 DEF Within
<1>12. PICK mosts \in Int, leasts \in Int : mosts = AtMost(t) /\ leasts = AtLeast(t)
  BY <1>2, Bounds DEF FinitelyMany
<1>13. PICK mostsNew \in Int, leastsNew \in Int : mostsNew = AtMost(new) /\ leastsNew = AtLeast(new)
  BY <1>2, Bounds DEF FinitelyMany
<1>14. PICK mostsRow \in Int, leastsRow \in Int :
         /\ mostsRow = AtMost(GameOf(t, new))
         /\ leastsRow = AtLeast(GameOf(t, new))
  <2>1. GameOf(t, new) \in GoodTables
    BY <1>2, GameOfFacts DEF FinitelyMany
  <2> QED BY <2>1, Bounds DEF FinitelyMany
<1>15. Kept \in Int /\ Kept' \in Int /\ exposed \in Int /\ exposed' = exposed /\ IsFiniteSet(Codes)
  BY <1>2, KeptTyped DEF RoomsTyped, FinitelyMany
<1>16. \E high \in [Codes -> Int] :
         /\ \A d \in Codes : NoMore(d, high[d])'
         /\ Kept' + SumFunctionOnSet(high, Codes) <= exposed'
  <2>1. PICK h \in [Codes -> Int] : /\ \A d \in Codes : NoMore(d, h[d])
                                    /\ Kept + SumFunctionOnSet(h, Codes) <= exposed
    BY DEF MoneyWithin
  <2>2. PICK g : g = [h EXCEPT ![c] = h[c] - out]
    OBVIOUS
  <2>3. /\ g \in [Codes -> Int]
        /\ g[c] = h[c] - out
        /\ \A d \in Codes \ {c} : g[d] = h[d]
    BY <1>2, <2>2
  <2>4. SumFunctionOnSet(g, Codes) = SumFunctionOnSet(h, Codes) - out
    <3>1. PICK f, k : f = h /\ k = g
      OBVIOUS
    <3>2. /\ \A d \in Codes : f[d] \in Int /\ k[d] \in Int
          /\ \A d \in Codes \ {c} : f[d] = k[d]
          /\ k[c] = f[c] - out
      BY <2>3, <3>1
    <3>3. IsFiniteSet(Codes) /\ c \in Codes /\ out \in Int
      BY <1>2, <1>15
    <3>4. SumFunctionOnSet(k, Codes) = SumFunctionOnSet(f, Codes) - out
      BY ONLY <3>2, <3>3, SumTakes
    <3> QED BY <3>1, <3>4
  <2>5. SumFunctionOnSet(h, Codes) \in Int
    BY <1>15, SumType
  <2>6. Kept' + SumFunctionOnSet(g, Codes) <= exposed'
    BY <1>2, <1>15, <2>1, <2>4, <2>5
  <2>7. NoMore(c, g[c])'
    <3>1. mosts <= h[c]
      BY <1>1, <1>12, <2>1 DEF NoMore
    <3>2. AtMost(new) <= g[c] /\ AtMost(t) <= g[c] + moved /\ AtMost(GameOf(t, new)) <= g[c] + moved
      BY <1>2, <1>11, <1>12, <1>13, <1>14, <2>3, <3>1
    <3> QED BY <1>2, <1>4, <1>7, <1>9, <3>2
               DEF NoMore, AtMost, Chips, Staked, ChipsOf, BetsOf, Seated, GameOf
  <2>8. ASSUME NEW d \in Codes \ {c} PROVE NoMore(d, g[d])'
    BY <1>10, <2>1, <2>3, <2>8
       DEF NoMore, AtMost, Chips, Staked, ChipsOf, BetsOf, Seated, GameOf
  <2> QED BY <2>3, <2>6, <2>7, <2>8
<1>17. \E low \in [Codes -> Int] :
         /\ \A d \in Codes : NoLess(d, low[d])'
         /\ (-exposed)' <= Kept' + SumFunctionOnSet(low, Codes)
  <2>1. PICK h \in [Codes -> Int] : /\ \A d \in Codes : NoLess(d, h[d])
                                    /\ -exposed <= Kept + SumFunctionOnSet(h, Codes)
    BY DEF MoneyWithin
  <2>2. PICK g : g = [h EXCEPT ![c] = h[c] - out]
    OBVIOUS
  <2>3. /\ g \in [Codes -> Int]
        /\ g[c] = h[c] - out
        /\ \A d \in Codes \ {c} : g[d] = h[d]
    BY <1>2, <2>2
  <2>4. SumFunctionOnSet(g, Codes) = SumFunctionOnSet(h, Codes) - out
    <3>1. PICK f, k : f = h /\ k = g
      OBVIOUS
    <3>2. /\ \A d \in Codes : f[d] \in Int /\ k[d] \in Int
          /\ \A d \in Codes \ {c} : f[d] = k[d]
          /\ k[c] = f[c] - out
      BY <2>3, <3>1
    <3>3. IsFiniteSet(Codes) /\ c \in Codes /\ out \in Int
      BY <1>2, <1>15
    <3>4. SumFunctionOnSet(k, Codes) = SumFunctionOnSet(f, Codes) - out
      BY ONLY <3>2, <3>3, SumTakes
    <3> QED BY <3>1, <3>4
  <2>5. SumFunctionOnSet(h, Codes) \in Int
    BY <1>15, SumType
  <2>6. (-exposed)' <= Kept' + SumFunctionOnSet(g, Codes)
    BY <1>2, <1>15, <2>1, <2>4, <2>5
  <2>7. NoLess(c, g[c])'
    <3>1. h[c] <= leasts
      BY <1>1, <1>12, <2>1 DEF NoLess
    <3>2. g[c] <= AtLeast(new) /\ g[c] <= AtLeast(t) + moved /\ g[c] <= AtLeast(GameOf(t, new)) + moved
      BY <1>2, <1>11, <1>12, <1>13, <1>14, <2>3, <3>1
    <3> QED BY <1>2, <1>4, <1>7, <1>9, <3>2
               DEF NoLess, AtLeast, Chips, Staked, ChipsOf, BetsOf, Seated, GameOf
  <2>8. ASSUME NEW d \in Codes \ {c} PROVE NoLess(d, g[d])'
    BY <1>10, <2>1, <2>3, <2>8
       DEF NoLess, AtLeast, Chips, Staked, ChipsOf, BetsOf, Seated, GameOf
  <2> QED BY <2>3, <2>6, <2>7, <2>8
<1> QED BY <1>6, <1>8, <1>16, <1>17 DEF MoneyWithin

\* Only a move changes what a room may come to hold.
LEMMA MoneyStays ==
  ASSUME MoneyWithin, wallet' = wallet, UNCHANGED <<forfeited, exposed>>,
         \A c \in Codes, n \in Int : /\ NoMore(c, n) => NoMore(c, n)'
                                     /\ NoLess(c, n) => NoLess(c, n)'
  PROVE  MoneyWithin'
<1>1. Kept' = Kept
  BY DEF Kept, Initially
<1>2. \E high \in [Codes -> Int] :
         /\ \A c \in Codes : NoMore(c, high[c])'
         /\ Kept' + SumFunctionOnSet(high, Codes) <= exposed'
  <2>1. PICK h \in [Codes -> Int] : /\ \A c \in Codes : NoMore(c, h[c])
                                    /\ Kept + SumFunctionOnSet(h, Codes) <= exposed
    BY DEF MoneyWithin
  <2>2. \A c \in Codes : h[c] \in Int
    OBVIOUS
  <2>3. \A c \in Codes : NoMore(c, h[c])'
    BY <2>1, <2>2
  <2> QED BY <1>1, <2>1, <2>3
<1>3. \E low \in [Codes -> Int] :
         /\ \A c \in Codes : NoLess(c, low[c])'
         /\ (-exposed)' <= Kept' + SumFunctionOnSet(low, Codes)
  <2>1. PICK h \in [Codes -> Int] : /\ \A c \in Codes : NoLess(c, h[c])
                                    /\ -exposed <= Kept + SumFunctionOnSet(h, Codes)
    BY DEF MoneyWithin
  <2>2. \A c \in Codes : h[c] \in Int
    OBVIOUS
  <2>3. \A c \in Codes : NoLess(c, h[c])'
    BY <2>1, <2>2
  <2> QED BY <1>1, <2>1, <2>3
<1> QED BY <1>2, <1>3 DEF MoneyWithin

(***************************************************************************)
(* Saving.                                                                  *)
(***************************************************************************)
LEMMA UpdateHolds ==
  ASSUME FinitelyMany, RoomsTyped, RoomsSaved, MoneyWithin, NEW c \in Codes, UpdateGame(c)
  PROVE  /\ RoomsTyped' /\ RoomsSaved' /\ MoneyWithin'
         /\ \A d \in Codes : GetOrCreateTable(d)' = GetOrCreateTable(d)
<1>1. PICK save : save = saving[c]
  OBVIOUS
<1>2. PICK t, old : t = live[c] /\ old = saved[c]
  OBVIOUS
<1>3. /\ save # None /\ save \in Saves /\ save.row = "game" /\ t \in GoodTables /\ old \in GoodTables
      /\ t # None
  BY <1>1, <1>2, RoomIs DEF UpdateGame, RoomsSaved
<1>4. PICK row : row = GameOf(old, t)
  OBVIOUS
<1>5. /\ row \in GoodTables /\ row.started = t.started /\ row.pot = t.pot
      /\ Seated(row) = Seated(old)
  BY <1>2, <1>3, <1>4, GameOfFacts DEF FinitelyMany
<1>6. PICK next : next = [save EXCEPT !.row = "players"]
  OBVIOUS
<1>7. next \in Saves /\ next # None /\ next.row = "players" /\ next.moved = save.moved
  <2>1. next \in Saves /\ next.row = "players" /\ next.moved = save.moved
    BY <1>3, <1>6 DEF Saves
  <2> QED BY <2>1, RoomNumbers DEF FinitelyMany
<1>8. /\ saved' = [saved EXCEPT ![c] = row]
      /\ saving' = [saving EXCEPT ![c] = next]
      /\ live' = live /\ wallet' = wallet
      /\ UNCHANGED <<forfeited, exposed, forgotten>>
  <2>1. saving' = [saving EXCEPT ![c].row = "players"]
    BY DEF UpdateGame
  <2> QED BY <1>1, <1>2, <1>4, <1>6, <2>1 DEF UpdateGame, crashVars, RoomsTyped
<1>9. RoomsTyped'
  BY <1>5, <1>7, <1>8 DEF RoomsTyped
<1>10. /\ saved'[c] = row /\ saving'[c] = next
       /\ \A d \in Codes \ {c} : saved'[d] = saved[d] /\ saving'[d] = saving[d]
  BY <1>8 DEF RoomsTyped
<1>11. RoomsSaved'
  BY <1>2, <1>3, <1>5, <1>7, <1>8, <1>10 DEF RoomsSaved, Seated
<1>12. /\ GetOrCreateTable(c) = t /\ GetOrCreateTable(c)' = t
       /\ \A d \in Codes \ {c} : GetOrCreateTable(d)' = GetOrCreateTable(d)
  BY <1>2, <1>3, <1>8, <1>10 DEF GetOrCreateTable
<1>13. ASSUME NEW d \in Codes, NEW n \in Int
       PROVE  /\ NoMore(d, n) => NoMore(d, n)'
              /\ NoLess(d, n) => NoLess(d, n)'
  <2>1. CASE d = c
    <3>1. NoMore(d, n) => AtMost(t) <= n /\ AtMost(row) <= n + save.moved
      BY <1>1, <1>2, <1>3, <1>4, <1>12, <2>1 DEF NoMore
    <3>2. NoMore(d, n)' <=> AtMost(t) <= n /\ AtMost(row) <= n + save.moved
      BY <1>7, <1>10, <1>12, <2>1 DEF NoMore, AtMost, Chips, Staked, ChipsOf, BetsOf, Seated
    <3>3. NoLess(d, n) => n <= AtLeast(t) /\ n <= AtLeast(row) + save.moved
      BY <1>1, <1>2, <1>3, <1>4, <1>12, <2>1 DEF NoLess
    <3>4. NoLess(d, n)' <=> n <= AtLeast(t) /\ n <= AtLeast(row) + save.moved
      BY <1>7, <1>10, <1>12, <2>1 DEF NoLess, AtLeast, Chips, Staked, ChipsOf, BetsOf, Seated
    <3> QED BY <3>1, <3>2, <3>3, <3>4
  <2>2. CASE d # c
    BY <1>8, <1>10, <1>12, <2>2
       DEF NoMore, NoLess, AtMost, AtLeast, Chips, Staked, ChipsOf, BetsOf, Seated, GameOf
  <2> QED BY <2>1, <2>2
<1> QED BY <1>8, <1>9, <1>11, <1>12, <1>13, MoneyStays

LEMMA UpsertHolds ==
  ASSUME FinitelyMany, RoomsTyped, RoomsSaved, MoneyWithin, NEW c \in Codes, UpsertPlayers(c)
  PROVE  /\ RoomsTyped' /\ RoomsSaved' /\ MoneyWithin'
         /\ \A d \in Codes : GetOrCreateTable(d)' = GetOrCreateTable(d)
<1>1. PICK t, old : t = live[c] /\ old = saved[c]
  OBVIOUS
<1>2. /\ saving[c] # None /\ saving[c].row = "players"
      /\ t \in GoodTables /\ old \in GoodTables /\ t # None
      /\ old.started = t.started /\ old.pot = t.pot
  BY <1>1, RoomIs DEF UpsertPlayers, RoomsSaved
<1>3. [old EXCEPT !.seats = t.seats, !.left = t.left] = t
  <2>1. /\ old = [started |-> old.started, pot |-> old.pot, left |-> old.left, seats |-> old.seats]
        /\ t = [started |-> t.started, pot |-> t.pot, left |-> t.left, seats |-> t.seats]
    BY <1>2, TableFacts DEF FinitelyMany
  <2>2. PICK a, b, i, j, k, l : /\ old = [started |-> a, pot |-> b, left |-> i, seats |-> j]
                                /\ t = [started |-> a, pot |-> b, left |-> k, seats |-> l]
    BY <1>2, <2>1
  <2>3. t.seats = l /\ t.left = k
    BY <2>2
  <2>4. [old EXCEPT !.seats = l, !.left = k] = t
    <3>1. PICK s : s = [old EXCEPT !.seats = l, !.left = k]
      OBVIOUS
    <3>2. s = [started |-> a, pot |-> b, left |-> k, seats |-> l]
      BY <2>2, <3>1
    <3> QED BY <2>2, <3>1, <3>2
  <2> QED BY <2>3, <2>4
<1>4. /\ saved' = [saved EXCEPT ![c] = t]
      /\ saving' = [saving EXCEPT ![c] = None]
      /\ live' = live /\ wallet' = wallet
      /\ UNCHANGED <<forfeited, exposed, forgotten>>
  <2>1. saved' = [saved EXCEPT ![c].seats = live[c].seats, ![c].left = live[c].left]
    BY DEF UpsertPlayers
  <2>2. saved' = [saved EXCEPT ![c] = [old EXCEPT !.seats = t.seats, !.left = t.left]]
    BY <1>1, <2>1 DEF RoomsTyped
  <2> QED BY <1>3, <2>2 DEF UpsertPlayers, crashVars
<1>5. RoomsTyped'
  BY <1>2, <1>4 DEF RoomsTyped
<1>6. /\ saved'[c] = t /\ saving'[c] = None
      /\ \A d \in Codes \ {c} : saved'[d] = saved[d] /\ saving'[d] = saving[d]
  BY <1>4 DEF RoomsTyped
<1>7. RoomsSaved'
  BY <1>1, <1>2, <1>4, <1>6 DEF RoomsSaved, Seated
<1>8. /\ GetOrCreateTable(c) = t /\ GetOrCreateTable(c)' = t
      /\ \A d \in Codes \ {c} : GetOrCreateTable(d)' = GetOrCreateTable(d)
  BY <1>1, <1>2, <1>4, <1>6 DEF GetOrCreateTable
<1>9. ASSUME NEW d \in Codes, NEW n \in Int
      PROVE  /\ NoMore(d, n) => NoMore(d, n)'
             /\ NoLess(d, n) => NoLess(d, n)'
  <2>1. CASE d = c
    <3>1. NoMore(d, n)' <=> AtMost(t) <= n
      BY <1>6, <1>8, <2>1 DEF NoMore, AtMost, Chips, Staked, ChipsOf, BetsOf, Seated
    <3>2. NoLess(d, n)' <=> n <= AtLeast(t)
      BY <1>6, <1>8, <2>1 DEF NoLess, AtLeast, Chips, Staked, ChipsOf, BetsOf, Seated
    <3> QED BY <1>8, <2>1, <3>1, <3>2 DEF NoMore, NoLess
  <2>2. CASE d # c
    BY <1>4, <1>6, <1>8, <2>2
       DEF NoMore, NoLess, AtMost, AtLeast, Chips, Staked, ChipsOf, BetsOf, Seated, GameOf
  <2> QED BY <2>1, <2>2
<1> QED BY <1>4, <1>5, <1>7, <1>8, <1>9, MoneyStays

(***************************************************************************)
(* A crash, and the beginning.                                              *)
(***************************************************************************)
LEMMA CrashHolds ==
  ASSUME FinitelyMany, RoomsTyped, RoomsSaved, MoneyWithin, Crash
  PROVE  RoomsTyped' /\ RequestsTyped' /\ RoomsSaved' /\ OneSeatEach' /\ MoneyWithin'
<1>1. PICK lost : lost = [c \in Codes |-> IF saving[c] # None THEN saving[c].moved ELSE 0]
  OBVIOUS
<1>2. \A c \in Codes : /\ lost[c] \in Nat
                       /\ saving[c] # None => lost[c] = saving[c].moved
                       /\ saving[c] = None => lost[c] = 0
  BY <1>1, RoomIs
<1>3. IsFiniteSet(Codes)
  BY DEF FinitelyMany
<1>4. SumFunctionOnSet(lost, Codes) \in Nat
  BY <1>2, <1>3, SumNat
<1>5. exposed' = exposed + SumFunctionOnSet(lost, Codes)
  <2>1. PICK T : T = {c \in Codes : saving[c] # None}
    OBVIOUS
  <2>2. PICK f : f = [c \in T |-> saving[c].moved]
    OBVIOUS
  <2>3. exposed' = exposed + SumFunctionOnSet(f, T)
    BY <2>1, <2>2 DEF Crash, SumOver
  <2>4. /\ T \in SUBSET Codes
        /\ \A c \in Codes : lost[c] \in Int
        /\ \A c \in T : lost[c] = f[c]
        /\ \A c \in Codes \ T : lost[c] = 0
    BY <1>2, <2>1, <2>2
  <2>5. SumFunctionOnSet(lost, Codes) = SumFunctionOnSet(f, T)
    BY <1>3, <2>4, SumWhere
  <2> QED BY <2>3, <2>5
<1>6. /\ live' = [c \in Codes |-> None] /\ saving' = [c \in Codes |-> None]
      /\ task' = [p \in Requests |-> Idle]
      /\ forgotten' = forgotten \cup UNION {Seated(saved[c]) : c \in Codes}
      /\ saved' = saved /\ wallet' = wallet /\ forfeited' = forfeited
  BY DEF Crash
<1>7. exposed \in Nat /\ exposed' \in Nat
  BY <1>4, <1>5 DEF RoomsTyped
<1>8. RoomsTyped' /\ RequestsTyped'
  BY <1>6, <1>7 DEF RoomsTyped, RequestsTyped
<1>9. \A c \in Codes : /\ live'[c] = None /\ saving'[c] = None /\ saved'[c] = saved[c]
                       /\ Seated(saved[c]) \subseteq forgotten'
                       /\ GetOrCreateTable(c)' = saved[c]
  BY <1>6 DEF GetOrCreateTable
<1>10. RoomsSaved'
  BY <1>9 DEF RoomsSaved, Seated
<1>11. OneSeatEach'
  <2>1. \A u \in Users \ forgotten' : SeatsOf(u)' = {}
    BY <1>9 DEF SeatsOf, Seated
  <2> QED BY <1>6, <2>1 DEF OneSeatEach
<1>12. Kept' = Kept /\ Kept \in Int
  BY <1>6, KeptTyped DEF Kept, Initially, RoomsTyped
<1>13. \E high \in [Codes -> Int] :
         /\ \A c \in Codes : NoMore(c, high[c])'
         /\ Kept' + SumFunctionOnSet(high, Codes) <= exposed'
  <2>1. PICK h \in [Codes -> Int] : /\ \A c \in Codes : NoMore(c, h[c])
                                    /\ Kept + SumFunctionOnSet(h, Codes) <= exposed
    BY DEF MoneyWithin
  <2>2. PICK g : g = [c \in Codes |-> h[c] + lost[c]]
    OBVIOUS
  <2>3. g \in [Codes -> Int] /\ \A c \in Codes : g[c] = h[c] + lost[c]
    BY <1>2, <2>2
  <2>4. SumFunctionOnSet(g, Codes) = SumFunctionOnSet(h, Codes) + SumFunctionOnSet(lost, Codes)
    <3>1. PICK f : f = h
      OBVIOUS
    <3>2. \A c \in Codes : f[c] \in Int /\ lost[c] \in Int /\ g[c] = f[c] + lost[c]
      BY <1>2, <2>3, <3>1
    <3>3. SumFunctionOnSet(g, Codes) = SumFunctionOnSet(f, Codes) + SumFunctionOnSet(lost, Codes)
      BY ONLY <1>3, <3>2, SumPlus
    <3> QED BY <3>1, <3>3
  <2>5. SumFunctionOnSet(h, Codes) \in Int
    BY <1>3, SumType
  <2>6. Kept' + SumFunctionOnSet(g, Codes) <= exposed'
    BY <1>4, <1>5, <1>7, <1>12, <2>1, <2>4, <2>5
  <2>7. ASSUME NEW c \in Codes PROVE NoMore(c, g[c])'
    <3>1. PICK t : t = saved[c]
      OBVIOUS
    <3>2. t \in GoodTables /\ h[c] \in Int
      BY <3>1, RoomIs
    <3>3. PICK n \in Int : n = AtMost(t)
      BY <3>2, Bounds DEF FinitelyMany
    <3>4. n <= h[c] + lost[c]
      <4>1. CASE saving[c] # None
        BY <1>2, <2>1, <3>1, <3>3, <4>1 DEF NoMore
      <4>2. CASE saving[c] = None
        <5>1. GetOrCreateTable(c) = t
          BY <3>1, <4>2, RoomIs
        <5> QED BY <1>2, <2>1, <3>2, <3>3, <4>2, <5>1 DEF NoMore
      <4> QED BY <4>1, <4>2
    <3> QED BY <1>9, <2>3, <3>1, <3>3, <3>4
               DEF NoMore, AtMost, Chips, Staked, ChipsOf, BetsOf, Seated
  <2> QED BY <2>3, <2>6, <2>7
<1>14. \E low \in [Codes -> Int] :
         /\ \A c \in Codes : NoLess(c, low[c])'
         /\ (-exposed)' <= Kept' + SumFunctionOnSet(low, Codes)
  <2>1. PICK h \in [Codes -> Int] : /\ \A c \in Codes : NoLess(c, h[c])
                                    /\ -exposed <= Kept + SumFunctionOnSet(h, Codes)
    BY DEF MoneyWithin
  <2>2. PICK g : g = [c \in Codes |-> h[c] - lost[c]]
    OBVIOUS
  <2>3. g \in [Codes -> Int] /\ \A c \in Codes : g[c] = h[c] - lost[c]
    BY <1>2, <2>2
  <2>4. SumFunctionOnSet(h, Codes) = SumFunctionOnSet(g, Codes) + SumFunctionOnSet(lost, Codes)
    <3>1. PICK f, k : f = h /\ k = g
      OBVIOUS
    <3>2. \A c \in Codes : k[c] \in Int /\ lost[c] \in Int /\ f[c] = k[c] + lost[c]
      BY <1>2, <2>3, <3>1
    <3>3. SumFunctionOnSet(f, Codes) = SumFunctionOnSet(k, Codes) + SumFunctionOnSet(lost, Codes)
      BY ONLY <1>3, <3>2, SumPlus
    <3> QED BY <3>1, <3>3
  <2>5. SumFunctionOnSet(g, Codes) \in Int
    BY <1>3, <2>3, SumType
  <2>6. (-exposed)' <= Kept' + SumFunctionOnSet(g, Codes)
    BY <1>4, <1>5, <1>7, <1>12, <2>1, <2>4, <2>5
  <2>7. ASSUME NEW c \in Codes PROVE NoLess(c, g[c])'
    <3>1. PICK t : t = saved[c]
      OBVIOUS
    <3>2. t \in GoodTables /\ h[c] \in Int
      BY <3>1, RoomIs
    <3>3. PICK n \in Int : n = AtLeast(t)
      BY <3>2, Bounds DEF FinitelyMany
    <3>4. h[c] - lost[c] <= n
      <4>1. CASE saving[c] # None
        BY <1>2, <2>1, <3>1, <3>2, <3>3, <4>1 DEF NoLess
      <4>2. CASE saving[c] = None
        <5>1. GetOrCreateTable(c) = t
          BY <3>1, <4>2, RoomIs
        <5> QED BY <1>2, <2>1, <3>2, <3>3, <4>2, <5>1 DEF NoLess
      <4> QED BY <4>1, <4>2
    <3> QED BY <1>9, <2>3, <3>1, <3>3, <3>4
               DEF NoLess, AtLeast, Chips, Staked, ChipsOf, BetsOf, Seated
  <2> QED BY <2>3, <2>6, <2>7
<1> QED BY <1>8, <1>10, <1>11, <1>13, <1>14 DEF MoneyWithin

LEMMA RoomsBegin ==
  ASSUME FinitelyMany, LobbyInit
  PROVE  RoomsInv
<1>1. PICK t : t = NewTable
  OBVIOUS
<1>2. PICK f : f = [u \in {} |-> 0]
  OBVIOUS
<1>3. t = [started |-> FALSE, pot |-> 0, left |-> 0, seats |-> f]
  BY <1>1, <1>2 DEF NewTable
<1>4. t \in GoodTables
  <2>1. [started |-> FALSE, pot |-> 0, left |-> 0, seats |-> f] \in GoodTables
    <3>1. PICK S \in SUBSET Users : S = {}
      OBVIOUS
    <3>2. f = [u \in S |-> f[u]] /\ \A u \in S : f[u] \in [chips : Nat, bet : 0..Stake]
      BY <1>2, <3>1
    <3>3. FALSE \in BOOLEAN /\ 0 \in Nat
      OBVIOUS
    <3> QED BY ONLY <3>2, <3>3, TableMade
  <2> QED BY <1>3, <2>1
<1>5. Seated(t) = {} /\ ~t.started
  BY <1>2, <1>3 DEF Seated
<1>6. AtMost(t) = 0 /\ AtLeast(t) = 0
  <2>1. Chips(t) = 0 /\ Staked(t) = 0
    BY <1>5, SumOfNothing DEF Chips, Staked
  <2>2. Stake \in Nat
    BY RoomNumbers DEF FinitelyMany
  <2> QED BY <1>5, <2>1, <2>2 DEF AtMost, AtLeast, Larger
<1>7. /\ wallet = [u \in Users |-> InitialWallet]
      /\ live = [c \in Codes |-> None] /\ saved = [c \in Codes |-> t]
      /\ saving = [c \in Codes |-> None]
      /\ task = [p \in Requests |-> Idle]
      /\ forfeited = 0 /\ exposed = 0
  BY <1>1 DEF LobbyInit
<1>8. RoomsTyped /\ RequestsTyped
  BY <1>4, <1>7, RoomNumbers DEF RoomsTyped, RequestsTyped, FinitelyMany
<1>9. RoomsSaved
  BY <1>5, <1>7 DEF RoomsSaved
<1>10. \A c \in Codes : GetOrCreateTable(c) = t
  BY <1>7 DEF GetOrCreateTable
<1>11. OneSeatEach
  <2>1. \A u \in Users : SeatsOf(u) = {}
    BY <1>5, <1>10 DEF SeatsOf
  <2> QED BY <1>7, <2>1 DEF OneSeatEach
<1>12. MoneyWithin
  <2>1. Kept = 0
    <3>1. IsFiniteSet(Users) /\ InitialWallet \in Nat /\ Cardinality(Users) \in Nat
      BY RoomNumbers, FS_CardinalityType DEF FinitelyMany
    <3>2. PICK w : w = wallet
      OBVIOUS
    <3>3. InitialWallet \in Int /\ \A u \in Users : w[u] = InitialWallet
      BY <1>7, <3>1, <3>2
    <3>4. SumFunctionOnSet(w, Users) = Product(InitialWallet, Cardinality(Users))
      BY <3>1, <3>3, SumConstant
    <3>5. PICK a \in Int, n \in Int : a = InitialWallet /\ n = Cardinality(Users)
      BY <3>1
    <3>6. SumFunctionOnSet(w, Users) = n * a /\ n * a \in Int
      BY <3>4, <3>5 DEF Product
    <3> QED BY <1>7, <3>2, <3>5, <3>6 DEF Kept, Initially
  <2>2. PICK z : z = [c \in Codes |-> 0]
    OBVIOUS
  <2>3. z \in [Codes -> Int] /\ \A c \in Codes : z[c] = 0
    BY <2>2
  <2>4. SumFunctionOnSet(z, Codes) = 0
    BY <2>3, SumZero DEF FinitelyMany
  <2>5. \A c \in Codes : NoMore(c, z[c]) /\ NoLess(c, z[c])
    BY <1>6, <1>7, <1>10, <2>3 DEF NoMore, NoLess
  <2>6. Kept + SumFunctionOnSet(z, Codes) <= exposed /\ -exposed <= Kept + SumFunctionOnSet(z, Codes)
    BY <1>7, <2>1, <2>4
  <2> QED BY <2>3, <2>5, <2>6 DEF MoneyWithin
<1> QED BY <1>8, <1>9, <1>11, <1>12 DEF RoomsInv

(***************************************************************************)
(* Seats.                                                                   *)
(***************************************************************************)
LEMMA SeatsAfterMove ==
  ASSUME FinitelyMany, RoomsTyped, NEW c \in Codes, NEW new \in GoodTables,
         live' = [live EXCEPT ![c] = new], saved' = saved, NEW u
  PROVE  SeatsOf(u)' = (SeatsOf(u) \ {c}) \cup
                                IF u \in Seated(new) THEN {c} ELSE {}
<1>1. new # None
  BY RoomNumbers DEF FinitelyMany, GoodTables
<1>2. live'[c] = new /\ \A d \in Codes \ {c} : live'[d] = live[d]
  BY DEF RoomsTyped
<1>3. GetOrCreateTable(c)' = new
  BY <1>1, <1>2 DEF GetOrCreateTable
<1>4. \A d \in Codes \ {c} : GetOrCreateTable(d)' = GetOrCreateTable(d)
  BY <1>2 DEF GetOrCreateTable
<1> QED BY <1>3, <1>4 DEF SeatsOf, Seated

LEMMA SeatsStay ==
  ASSUME OneSeatEach, UNCHANGED <<task, overlapped, forgotten>>,
         \A u \in Users : SeatsOf(u)' \subseteq SeatsOf(u)
  PROVE  OneSeatEach'
BY DEF OneSeatEach

(***************************************************************************)
(* Every step.                                                              *)
(***************************************************************************)
\* What leaving a table does, to the wallets, the room and the seats.
LEMMA LeaveTableHolds ==
  ASSUME FinitelyMany, RoomsInv, NEW c \in Codes, NEW u, NEW p \in Requests \cup {None},
         LeaveTable(c, u, p)
  PROVE  /\ RoomsTyped' /\ RoomsSaved' /\ MoneyWithin'
         /\ \A v : SeatsOf(v)' = IF v = u THEN SeatsOf(v) \ {c} ELSE SeatsOf(v)
         /\ forgotten' = forgotten
<1>1. PICK t : t = GetOrCreateTable(c)
  OBVIOUS
<1>2. PICK new : new = TableWithout(t, u)
  OBVIOUS
<1>3. PICK out : out = t.seats[u].chips + IF new.started THEN 0 ELSE t.pot
  OBVIOUS
<1>4. /\ Free(c) /\ u \in Seated(t)
      /\ wallet' = [wallet EXCEPT ![u] = @ + t.seats[u].chips]
      /\ forfeited' = forfeited + IF new.started THEN 0 ELSE t.pot
      /\ Move(c, new, out, p)
      /\ UNCHANGED <<saved, forgotten, exposed>>
  BY <1>1, <1>2, <1>3 DEF LeaveTable, crashVars
<1>5. t \in GoodTables /\ RoomsTyped /\ RoomsSaved /\ MoneyWithin
  BY <1>1, RoomIs DEF RoomsInv
<1>6. Within(t, new, out, out) /\ Seated(new) = Seated(t) \ {u}
  BY <1>2, <1>3, <1>4, <1>5, LeaveKeepsWithin DEF FinitelyMany
<1>7. PICK x \in Nat, y \in Nat : x = t.seats[u].chips /\ y = IF new.started THEN 0 ELSE t.pot
  BY <1>4, <1>5, TableFacts DEF FinitelyMany
<1>8. u \in Users /\ wallet \in [Users -> Nat] /\ forfeited \in Nat
  BY <1>4, <1>5, TableFacts DEF FinitelyMany, RoomsTyped
<1>9. wallet' = [wallet EXCEPT ![u] = @ + x] /\ forfeited' = forfeited + y
  BY <1>4, <1>7
<1>10. wallet' \in [Users -> Nat] /\ forfeited' \in Nat /\ Kept' = Kept + (x + y)
  <2>1. wallet[u] + x \in Nat /\ x \in Int
    BY <1>7, <1>8
  <2> QED BY <1>7, <1>8, <1>9, <2>1, KeptChanges
<1>11. Kept' = Kept + out
  BY <1>3, <1>7, <1>10
<1>12. RoomsTyped' /\ RoomsSaved' /\ MoneyWithin'
  BY <1>1, <1>4, <1>5, <1>6, <1>10, <1>11, MoveHolds
<1>13. \A v : SeatsOf(v)' = IF v = u THEN SeatsOf(v) \ {c} ELSE SeatsOf(v)
  <2> SUFFICES ASSUME NEW v
               PROVE  SeatsOf(v)' = IF v = u THEN SeatsOf(v) \ {c} ELSE SeatsOf(v)
    OBVIOUS
  <2>1. new \in GoodTables
    BY <1>6 DEF Within
  <2>2. live' = [live EXCEPT ![c] = new] /\ saved' = saved
    BY <1>4 DEF Move
  <2>3. SeatsOf(v)' = (SeatsOf(v) \ {c}) \cup IF v \in Seated(new) THEN {c} ELSE {}
    BY <1>5, <2>1, <2>2, SeatsAfterMove
  <2>4. c \in SeatsOf(v) <=> v \in Seated(t)
    BY <1>1 DEF SeatsOf
  <2> QED BY <1>6, <2>3, <2>4
<1> QED BY <1>4, <1>12, <1>13

\* A move that keeps the seats, and the wallets.
LEMMA HandMoveHolds ==
  ASSUME FinitelyMany, RoomsInv, NEW c \in Codes, Free(c),
         NEW new, NEW out \in Nat, NEW moved,
         Within(GetOrCreateTable(c), new, out, moved),
         Seated(new) = Seated(GetOrCreateTable(c)),
         Move(c, new, moved, None),
         wallet' = wallet, forfeited' = forfeited + out,
         UNCHANGED <<task, overlapped, saved, forgotten, exposed>>
  PROVE  RoomsInv'
<1>1. RoomsTyped /\ RequestsTyped /\ RoomsSaved /\ OneSeatEach /\ MoneyWithin
  BY DEF RoomsInv
<1>2. wallet' \in [Users -> Nat] /\ forfeited' \in Nat
  BY <1>1 DEF RoomsTyped
<1>3. Kept' = Kept + out
  <2>1. Kept \in Int /\ Initially \in Int /\ forfeited \in Nat
    BY <1>1, KeptTyped DEF RoomsTyped
  <2>2. PICK s \in Int : s = SumFunctionOnSet(wallet, Users)
    <3>1. PICK w : w = wallet
      OBVIOUS
    <3>2. IsFiniteSet(Users) /\ \A u \in Users : w[u] \in Int
      BY <1>1, <3>1 DEF RoomsTyped, FinitelyMany
    <3>3. SumFunctionOnSet(w, Users) \in Int
      BY <3>2, SumType
    <3> QED BY <3>1, <3>3
  <2> QED BY <2>1, <2>2 DEF Kept, Initially
<1>4. RoomsTyped' /\ RoomsSaved' /\ MoneyWithin'
  BY <1>1, <1>2, <1>3, MoveHolds
<1>5. \A u \in Users : SeatsOf(u)' \subseteq SeatsOf(u)
  <2> SUFFICES ASSUME NEW u \in Users PROVE SeatsOf(u)' \subseteq SeatsOf(u)
    OBVIOUS
  <2>1. new \in GoodTables /\ live' = [live EXCEPT ![c] = new] /\ saved' = saved
    BY DEF Within, Move
  <2>2. SeatsOf(u)' = (SeatsOf(u) \ {c}) \cup IF u \in Seated(new) THEN {c} ELSE {}
    BY <1>1, <2>1, SeatsAfterMove
  <2>3. c \in SeatsOf(u) <=> u \in Seated(GetOrCreateTable(c))
    BY DEF SeatsOf
  <2> QED BY <2>2, <2>3
<1>6. OneSeatEach'
  BY <1>1, <1>5, SeatsStay
<1>7. RequestsTyped'
  BY <1>1 DEF RequestsTyped
<1> QED BY <1>4, <1>6, <1>7 DEF RoomsInv

LEMMA LeaveHolds ==
  ASSUME FinitelyMany, RoomsInv, NEW c \in Codes, NEW u \in Users, Leave(c, u)
  PROVE  RoomsInv'
<1>1. LeaveTable(c, u, None) /\ UNCHANGED <<task, overlapped>>
  BY DEF Leave, taskVars
<1>2. /\ RoomsTyped' /\ RoomsSaved' /\ MoneyWithin' /\ forgotten' = forgotten
      /\ \A v \in Users : SeatsOf(v)' \subseteq SeatsOf(v)
  BY <1>1, LeaveTableHolds
<1>3. OneSeatEach'
  BY <1>1, <1>2, SeatsStay DEF RoomsInv
<1> QED BY <1>1, <1>2, <1>3 DEF RoomsInv, RequestsTyped

LEMMA StartHandHolds ==
  ASSUME FinitelyMany, RoomsInv, NEW c \in Codes, StartHand(c)
  PROVE  RoomsInv'
<1>1. PICK t : t = GetOrCreateTable(c)
  OBVIOUS
<1>2. PICK new : new = HandDealt(t)
  OBVIOUS
<1>3. t \in GoodTables
  BY <1>1, RoomIs DEF RoomsInv
<1>4. /\ Free(c) /\ ~t.started /\ Cardinality(DealtIn(t)) >= 2
      /\ Move(c, new, new.pot, None)
      /\ wallet' = wallet /\ forfeited' = forfeited
      /\ UNCHANGED <<task, overlapped, saved, forgotten, exposed>>
  BY <1>1, <1>2 DEF StartHand, taskVars, crashVars
<1>5. Within(t, new, 0, new.pot) /\ Seated(new) = Seated(t)
  BY <1>2, <1>3, <1>4, StartKeepsWithin DEF FinitelyMany
<1>6. forfeited' = forfeited + 0 /\ 0 \in Nat
  BY <1>4 DEF RoomsInv, RoomsTyped
<1> QED BY <1>1, <1>4, <1>5, <1>6, HandMoveHolds

LEMMA EndHandHolds ==
  ASSUME FinitelyMany, RoomsInv, NEW c \in Codes, NEW u \in Users, NEW folded \in BOOLEAN,
         EndHand(c, u, folded)
  PROVE  RoomsInv'
<1>1. PICK t : t = GetOrCreateTable(c)
  OBVIOUS
<1>2. PICK won, lost : /\ won = IF folded THEN t.pot ELSE Stakes(t)
                       /\ lost = IF folded THEN 0 ELSE t.left
  OBVIOUS
<1>3. PICK new, moved : /\ new = HandOver(t, u, won)
                        /\ moved = IF won + lost > t.pot THEN won + lost ELSE t.pot
  OBVIOUS
<1>4. t \in GoodTables
  BY <1>1, RoomIs DEF RoomsInv
<1>5. /\ Free(c) /\ t.started /\ u \in Seated(t)
      /\ Move(c, new, moved, None)
      /\ wallet' = wallet /\ forfeited' = forfeited + lost
      /\ UNCHANGED <<task, overlapped, saved, forgotten, exposed>>
  BY <1>1, <1>2, <1>3 DEF EndHand, taskVars, crashVars
<1>6. Within(t, new, lost, moved) /\ Seated(new) = Seated(t)
  BY <1>2, <1>3, <1>4, <1>5, EndKeepsWithin DEF FinitelyMany
<1>7. lost \in Nat
  BY <1>2, <1>4, TableFacts DEF FinitelyMany
<1> QED BY <1>1, <1>5, <1>6, <1>7, HandMoveHolds

\* A request to join begins.
LEMMA JoinHolds ==
  ASSUME FinitelyMany, RoomsInv, NEW p \in Requests, NEW c \in Codes, NEW u \in Users, Join(p, c, u)
  PROVE  RoomsInv'
<1>1. PICK step : step = [at |-> "joining", user |-> u, code |-> c, others |-> OtherTables(u, c)]
  OBVIOUS
<1>2. /\ task' = [task EXCEPT ![p] = step]
      /\ overlapped' = IF \E q \in Requests : task[q] # Idle /\ task[q].user = u
                       THEN overlapped \cup {u} ELSE overlapped
      /\ UNCHANGED <<wallet, live, saved, saving, forgotten, exposed, forfeited>>
  BY <1>1 DEF Join, Begin, Goto, crashVars
<1>3. RoomsTyped /\ RequestsTyped /\ RoomsSaved /\ OneSeatEach /\ MoneyWithin
  BY DEF RoomsInv
<1>4. RoomsTyped' /\ RoomsSaved'
  BY <1>2, <1>3 DEF RoomsTyped, RoomsSaved, Seated
<1>5. MoneyWithin'
  <2>1. \A d \in Codes, n \in Int : /\ NoMore(d, n) => NoMore(d, n)'
                                    /\ NoLess(d, n) => NoLess(d, n)'
    BY <1>2 DEF NoMore, NoLess, AtMost, AtLeast, Chips, Staked, ChipsOf, BetsOf, Seated,
                GameOf, GetOrCreateTable
  <2> QED BY <1>2, <1>3, <2>1, MoneyStays
<1>6. /\ step.user = u /\ step.code = c /\ step.others = OtherTables(u, c) /\ step # Idle
      /\ step.others \subseteq Codes
  BY <1>1 DEF Idle, OtherTables, SeatedCodes
<1>7. RequestsTyped'
  BY <1>1, <1>2, <1>3, <1>6 DEF RequestsTyped
<1>8. task'[p] = step /\ \A q \in Requests \ {p} : task'[q] = task[q]
  BY <1>2, <1>3 DEF RequestsTyped
<1>9. \A v : SeatsOf(v)' = SeatsOf(v)
  BY <1>2 DEF SeatsOf, Seated, GetOrCreateTable
<1>10. OneSeatEach'
  <2> SUFFICES ASSUME NEW v \in Users, v \notin overlapped', v \notin forgotten'
               PROVE  /\ \A d, e \in SeatsOf(v) : d = e
                      /\ \A q, r \in Requests :
                           /\ task'[q] # Idle /\ task'[q].user = v
                           /\ task'[r] # Idle /\ task'[r].user = v
                           => q = r
                      /\ \A q \in Requests :
                           task'[q] # Idle /\ task'[q].user = v
                           => SeatsOf(v) \subseteq task'[q].others \cup {task'[q].code}
    BY <1>9 DEF OneSeatEach, Idle
  <2>1. v \notin overlapped /\ v \notin forgotten
    BY <1>2
  <2>2. CASE v # u
    BY <1>3, <1>6, <1>8, <2>1, <2>2 DEF OneSeatEach
  <2>3. CASE v = u
    <3>1. \A q \in Requests : ~(task[q] # Idle /\ task[q].user = u)
      BY <1>2, <2>3
    <3>2. SeatsOf(u) \subseteq OtherTables(u, c) \cup {c}
      <4> SUFFICES ASSUME NEW d \in SeatsOf(u), d # c PROVE d \in OtherTables(u, c)
        OBVIOUS
      <4>1. d \in Codes /\ u \in Seated(GetOrCreateTable(d))
        BY DEF SeatsOf
      <4>2. live[d] # None
        BY <1>3, <2>1, <2>3, <4>1 DEF RoomsSaved, GetOrCreateTable
      <4> QED BY <4>1, <4>2 DEF GetOrCreateTable, OtherTables, SeatedCodes
    <3> QED BY <1>3, <1>6, <1>8, <2>1, <2>3, <3>1, <3>2 DEF OneSeatEach
  <2> QED BY <2>2, <2>3
<1> QED BY <1>4, <1>5, <1>7, <1>10 DEF RoomsInv

LEMMA SaveHolds ==
  ASSUME FinitelyMany, RoomsInv, NEW c \in Codes, UpdateGame(c) \/ UpsertPlayers(c)
  PROVE  RoomsInv'
<1>1. /\ RoomsTyped' /\ RoomsSaved' /\ MoneyWithin'
      /\ \A d \in Codes : GetOrCreateTable(d)' = GetOrCreateTable(d)
  BY UpdateHolds, UpsertHolds DEF RoomsInv
<1>2. UNCHANGED <<task, overlapped, forgotten>>
  BY DEF UpdateGame, UpsertPlayers, taskVars, crashVars
<1>3. \A u \in Users : SeatsOf(u)' \subseteq SeatsOf(u)
  BY <1>1 DEF SeatsOf, Seated
<1>4. OneSeatEach'
  BY <1>2, <1>3, SeatsStay DEF RoomsInv
<1> QED BY <1>1, <1>2, <1>4 DEF RoomsInv, RequestsTyped

\* A table is left on the way to another.
LEMMA LeaveOtherHolds ==
  ASSUME FinitelyMany, RoomsInv, NEW p \in Requests, NEW d \in Codes, LeaveOther(p, d)
  PROVE  RoomsInv'
<1>1. PICK step : step = task[p]
  OBVIOUS
<1>2. PICK u : u = step.user
  OBVIOUS
<1>3. step.at = "joining"
  BY <1>1 DEF LeaveOther
<1>4. RequestsTyped /\ OneSeatEach
  BY DEF RoomsInv
<1>5. step \in [at : {"joining"}, user : Users, code : Codes, others : SUBSET Codes]
  BY <1>1, <1>3, <1>4 DEF RequestsTyped, Idle
<1>6. PICK next : next = [step EXCEPT !.others = @ \ {d}]
  OBVIOUS
<1>7. /\ next \in [at : {"joining"}, user : Users, code : Codes, others : SUBSET Codes]
      /\ next.user = u /\ next.code = step.code /\ next.others = step.others \ {d}
      /\ u \in Users /\ step # Idle
  BY <1>2, <1>5, <1>6 DEF Idle
<1>8. task' = [task EXCEPT ![p] = next] /\ overlapped' = overlapped
  BY <1>1, <1>6 DEF LeaveOther, Goto
<1>9. RequestsTyped'
  BY <1>4, <1>7, <1>8 DEF RequestsTyped
<1>10. task'[p] = next /\ \A q \in Requests \ {p} : task'[q] = task[q]
  BY <1>4, <1>8 DEF RequestsTyped
<1>11. /\ RoomsTyped' /\ RoomsSaved' /\ MoneyWithin' /\ forgotten' = forgotten
       /\ \A v : SeatsOf(v)' = IF v = u THEN SeatsOf(v) \ {d} ELSE SeatsOf(v)
  <2>1. CASE u \in Seated(GetOrCreateTable(d))
    <3>1. LeaveTable(d, u, p)
      BY <1>1, <1>2, <2>1 DEF LeaveOther
    <3> QED BY <3>1, LeaveTableHolds
  <2>2. CASE u \notin Seated(GetOrCreateTable(d))
    <3>1. UNCHANGED <<wallet, live, saved, saving, forgotten, exposed, forfeited>>
      BY <1>1, <1>2, <2>2 DEF LeaveOther, crashVars
    <3>2. RoomsTyped /\ RoomsSaved /\ MoneyWithin
      BY DEF RoomsInv
    <3>3. RoomsTyped' /\ RoomsSaved'
      BY <3>1, <3>2 DEF RoomsTyped, RoomsSaved, Seated
    <3>4. \A c \in Codes, n \in Int : /\ NoMore(c, n) => NoMore(c, n)'
                                      /\ NoLess(c, n) => NoLess(c, n)'
      BY <3>1 DEF NoMore, NoLess, AtMost, AtLeast, Chips, Staked, ChipsOf, BetsOf, Seated,
                  GameOf, GetOrCreateTable
    <3>5. MoneyWithin'
      BY <3>1, <3>2, <3>4, MoneyStays
    <3>6. \A v : SeatsOf(v)' = SeatsOf(v)
      BY <3>1 DEF SeatsOf, Seated, GetOrCreateTable
    <3>7. d \notin SeatsOf(u)
      BY <2>2 DEF SeatsOf
    <3> QED BY <3>1, <3>3, <3>5, <3>6, <3>7
  <2> QED BY <2>1, <2>2
<1>12. OneSeatEach'
  <2> SUFFICES ASSUME NEW v \in Users, v \notin overlapped', v \notin forgotten'
               PROVE  /\ \A c, e \in SeatsOf(v)' : c = e
                      /\ \A q, r \in Requests :
                           /\ task'[q] # Idle /\ task'[q].user = v
                           /\ task'[r] # Idle /\ task'[r].user = v
                           => q = r
                      /\ \A q \in Requests :
                           task'[q] # Idle /\ task'[q].user = v
                           => SeatsOf(v)' \subseteq task'[q].others \cup {task'[q].code}
    BY DEF OneSeatEach, Idle
  <2>1. v \notin overlapped /\ v \notin forgotten
    BY <1>8, <1>11
  <2>2. /\ \A c, e \in SeatsOf(v) : c = e
        /\ \A q, r \in Requests :
             /\ task[q] # Idle /\ task[q].user = v
             /\ task[r] # Idle /\ task[r].user = v
             => q = r
        /\ \A q \in Requests :
             task[q] # Idle /\ task[q].user = v
             => SeatsOf(v) \subseteq task[q].others \cup {task[q].code}
    BY <1>4, <2>1 DEF OneSeatEach
  <2>3. SeatsOf(v)' = IF v = u THEN SeatsOf(v) \ {d} ELSE SeatsOf(v)
    BY <1>11
  <2> QED BY <1>1, <1>2, <1>7, <1>10, <2>2, <2>3
<1> QED BY <1>9, <1>11, <1>12 DEF RoomsInv

\* A request to join ends, at the table or not.
LEMMA JoinTableHolds ==
  ASSUME FinitelyMany, RoomsInv, NEW p \in Requests, JoinTable(p)
  PROVE  RoomsInv'
<1>1. PICK step : step = task[p]
  OBVIOUS
<1>2. PICK u, c : u = step.user /\ c = step.code
  OBVIOUS
<1>3. step.at = "joining" /\ step.others = {}
  BY <1>1 DEF JoinTable
<1>4. RoomsTyped /\ RequestsTyped /\ RoomsSaved /\ OneSeatEach /\ MoneyWithin
  BY DEF RoomsInv
<1>5. step \in [at : {"joining"}, user : Users, code : Codes, others : SUBSET Codes]
  BY <1>1, <1>3, <1>4 DEF RequestsTyped, Idle
<1>6. u \in Users /\ c \in Codes /\ step # Idle
  BY <1>2, <1>5 DEF Idle
<1>7. PICK t : t = GetOrCreateTable(c)
  OBVIOUS
<1>8. t \in GoodTables
  BY <1>4, <1>6, <1>7, RoomIs
<1>9. /\ task' = [task EXCEPT ![p] = Idle] /\ overlapped' = overlapped
      /\ UNCHANGED <<saved, forgotten, exposed, forfeited>>
      /\ Free(c)
  BY <1>1, <1>2 DEF JoinTable, Done, Goto, crashVars
<1>10. RequestsTyped'
  BY <1>4, <1>9 DEF RequestsTyped
<1>11. task'[p] = Idle /\ \A q \in Requests \ {p} : task'[q] = task[q]
  BY <1>4, <1>9 DEF RequestsTyped
<1>12. /\ RoomsTyped' /\ RoomsSaved' /\ MoneyWithin'
       /\ \A v : v # u => SeatsOf(v)' = SeatsOf(v)
       /\ SeatsOf(u)' \subseteq SeatsOf(u) \cup {c}
  <2>1. CASE /\ u \notin Seated(t) /\ ~t.started
             /\ Cardinality(Seated(t)) < MaxPlayers /\ wallet[u] >= BuyIn
    <3>1. PICK new : new = TableWith(t, u)
      OBVIOUS
    <3>2. /\ wallet' = [wallet EXCEPT ![u] = @ - BuyIn]
          /\ Move(c, new, BuyIn, p)
      BY <1>1, <1>2, <1>7, <2>1, <3>1 DEF JoinTable
    <3>3. Within(t, new, -BuyIn, BuyIn) /\ Seated(new) = Seated(t) \cup {u}
      BY <1>6, <1>8, <2>1, <3>1, JoinKeepsWithin DEF FinitelyMany
    <3>4. BuyIn \in Nat
      BY RoomNumbers DEF FinitelyMany
    <3>5. wallet \in [Users -> Nat] /\ forfeited \in Nat
      BY <1>4 DEF RoomsTyped
    <3>6. wallet' \in [Users -> Nat] /\ forfeited' \in Nat /\ Kept' = Kept + -BuyIn
      <4>1. PICK x \in Int : x = -BuyIn
        BY <3>4
      <4>2. wallet[u] + x \in Nat
        BY <1>6, <2>1, <3>4, <3>5, <4>1
      <4>3. wallet' = [wallet EXCEPT ![u] = wallet[u] + x]
        <5>1. wallet[u] - BuyIn = wallet[u] + x
          BY <1>6, <3>4, <3>5, <4>1
        <5> QED BY <3>2, <5>1
      <4>4. wallet' = [wallet EXCEPT ![u] = @ + x]
        BY <4>3
      <4>5. forfeited' = forfeited + 0 /\ 0 \in Nat
        BY <1>9, <3>5
      <4>6. wallet' \in [Users -> Nat] /\ forfeited' \in Nat /\ Kept' = Kept + (x + 0)
        BY <1>6, <3>5, <4>2, <4>4, <4>5, KeptChanges
      <4> QED BY <4>1, <4>6
    <3>7. RoomsTyped' /\ RoomsSaved' /\ MoneyWithin'
      BY <1>4, <1>6, <1>7, <1>9, <3>2, <3>3, <3>6, MoveHolds
    <3>8. new \in GoodTables /\ live' = [live EXCEPT ![c] = new] /\ saved' = saved
      BY <1>9, <3>2, <3>3 DEF Within, Move
    <3>9. \A v : SeatsOf(v)' = (SeatsOf(v) \ {c}) \cup
                                        IF v \in Seated(new) THEN {c} ELSE {}
      BY <1>4, <1>6, <3>8, SeatsAfterMove
    <3>10. \A v : c \in SeatsOf(v) <=> v \in Seated(t)
      BY <1>6, <1>7 DEF SeatsOf
    <3>11. \A v : v # u => SeatsOf(v)' = SeatsOf(v)
      BY <3>3, <3>9, <3>10
    <3>12. SeatsOf(u)' \subseteq SeatsOf(u) \cup {c}
      BY <3>9
    <3> QED BY <3>7, <3>11, <3>12
  <2>2. CASE ~(/\ u \notin Seated(t) /\ ~t.started
               /\ Cardinality(Seated(t)) < MaxPlayers /\ wallet[u] >= BuyIn)
    <3>1. live' = [live EXCEPT ![c] = t] /\ UNCHANGED <<wallet, saving>>
      BY <1>1, <1>2, <1>7, <2>2 DEF JoinTable
    <3>2. RoomsTyped'
      BY <1>4, <1>8, <1>9, <3>1 DEF RoomsTyped
    <3>3. live'[c] = t /\ \A d \in Codes \ {c} : live'[d] = live[d]
      BY <1>4, <1>6, <3>1 DEF RoomsTyped
    <3>4. t # None /\ saving[c] = None /\ saved[c] = t
      BY <1>4, <1>6, <1>7, <1>8, <1>9, RoomIs DEF Free
    <3>5. RoomsSaved'
      BY <1>4, <1>9, <3>1, <3>3, <3>4 DEF RoomsSaved, Seated
    <3>6. \A d \in Codes : GetOrCreateTable(d)' = GetOrCreateTable(d)
      BY <1>7, <1>9, <3>3, <3>4 DEF GetOrCreateTable
    <3>7. ASSUME NEW d \in Codes, NEW n \in Int
          PROVE  /\ NoMore(d, n) => NoMore(d, n)'
                 /\ NoLess(d, n) => NoLess(d, n)'
      <4>1. saving[d] # None => live'[d] = live[d]
        BY <3>3, <3>4
      <4>2. GetOrCreateTable(d)' = GetOrCreateTable(d)
        BY <3>6
      <4> QED BY <1>9, <3>1, <4>1, <4>2
          DEF NoMore, NoLess, AtMost, AtLeast, Chips, Staked, ChipsOf, BetsOf, Seated, GameOf
    <3>8. MoneyWithin'
      BY <1>4, <1>9, <3>1, <3>7, MoneyStays
    <3>9. \A v : SeatsOf(v)' = SeatsOf(v)
      BY <3>6 DEF SeatsOf, Seated
    <3> QED BY <3>2, <3>5, <3>8, <3>9
  <2> QED BY <2>1, <2>2
<1>13. OneSeatEach'
  <2> SUFFICES ASSUME NEW v \in Users, v \notin overlapped', v \notin forgotten'
               PROVE  /\ \A d, e \in SeatsOf(v)' : d = e
                      /\ \A q, r \in Requests :
                           /\ task'[q] # Idle /\ task'[q].user = v
                           /\ task'[r] # Idle /\ task'[r].user = v
                           => q = r
                      /\ \A q \in Requests :
                           task'[q] # Idle /\ task'[q].user = v
                           => SeatsOf(v)' \subseteq task'[q].others \cup {task'[q].code}
    BY DEF OneSeatEach, Idle
  <2>1. /\ \A d, e \in SeatsOf(v) : d = e
        /\ \A q, r \in Requests :
             /\ task[q] # Idle /\ task[q].user = v
             /\ task[r] # Idle /\ task[r].user = v
             => q = r
        /\ \A q \in Requests :
             task[q] # Idle /\ task[q].user = v
             => SeatsOf(v) \subseteq task[q].others \cup {task[q].code}
    BY <1>4, <1>9 DEF OneSeatEach
  <2>2. CASE v # u
    BY <1>11, <1>12, <2>1, <2>2
  <2>3. CASE v = u
    <3>1. SeatsOf(u)' \subseteq {c}
      BY <1>1, <1>2, <1>3, <1>6, <1>12, <2>1, <2>3
    <3>2. \A q \in Requests : ~(task'[q] # Idle /\ task'[q].user = u)
      BY <1>1, <1>2, <1>6, <1>11, <2>1, <2>3
    <3> QED BY <2>3, <3>1, <3>2
  <2> QED BY <2>2, <2>3
<1> QED BY <1>10, <1>12, <1>13 DEF RoomsInv

LEMMA RoomsStep ==
  ASSUME FinitelyMany, RoomsInv, [LobbyNext]_(lobbyVars)
  PROVE  RoomsInv'
<1>1. CASE UNCHANGED lobbyVars
  <2>1. /\ UNCHANGED <<wallet, live, saved, saving, forgotten, exposed, forfeited, task, overlapped>>
        /\ RoomsTyped /\ RoomsSaved /\ MoneyWithin /\ OneSeatEach
    BY <1>1 DEF lobbyVars, taskVars, crashVars, RoomsInv
  <2>2. RoomsTyped' /\ RoomsSaved' /\ RequestsTyped'
    BY <2>1 DEF RoomsTyped, RoomsSaved, Seated, RoomsInv, RequestsTyped
  <2>3. \A c \in Codes, n \in Int : /\ NoMore(c, n) => NoMore(c, n)'
                                    /\ NoLess(c, n) => NoLess(c, n)'
    BY <2>1 DEF NoMore, NoLess, AtMost, AtLeast, Chips, Staked, ChipsOf, BetsOf, Seated,
                GameOf, GetOrCreateTable
  <2>4. MoneyWithin'
    BY <2>1, <2>3, MoneyStays
  <2>5. \A u \in Users : SeatsOf(u)' \subseteq SeatsOf(u)
    BY <2>1 DEF SeatsOf, Seated, GetOrCreateTable
  <2>6. OneSeatEach'
    BY <2>1, <2>5, SeatsStay
  <2> QED BY <2>2, <2>4, <2>6 DEF RoomsInv
<1>2. CASE \E c \in Codes : UpdateGame(c) \/ UpsertPlayers(c)
  BY <1>2, SaveHolds
<1>3. CASE \E c \in Codes, u \in Users : Leave(c, u)
  BY <1>3, LeaveHolds
<1>4. CASE \E c \in Codes : StartHand(c)
  BY <1>4, StartHandHolds
<1>5. CASE \E c \in Codes, u \in Users, folded \in BOOLEAN : EndHand(c, u, folded)
  BY <1>5, EndHandHolds
<1>6. CASE \E p \in Requests, c \in Codes, u \in Users : Join(p, c, u)
  BY <1>6, JoinHolds
<1>7. CASE \E p \in Requests, d \in Codes : LeaveOther(p, d)
  BY <1>7, LeaveOtherHolds
<1>8. CASE \E p \in Requests : JoinTable(p)
  BY <1>8, JoinTableHolds
<1>9. CASE Crash
  BY <1>9, CrashHolds DEF RoomsInv
<1> QED BY <1>1, <1>2, <1>3, <1>4, <1>5, <1>6, <1>7, <1>8, <1>9 DEF LobbyNext

(***************************************************************************)
(* Joining a table leaves every other: a user has a seat at two only if two *)
(* of his requests ran at once, or if he was at a table when the server     *)
(* went down (autoLeaveOtherTables, JoinTable).                             *)
(***************************************************************************)
THEOREM OneTableAtATime ==
  ASSUME IsFiniteSet(Users), IsFiniteSet(Codes)
  PROVE  LobbySpec => []AtOneTable
<1>1. FinitelyMany
  BY DEF FinitelyMany
<1>2. LobbyInit => RoomsInv
  BY <1>1, RoomsBegin
<1>3. RoomsInv /\ [LobbyNext]_(lobbyVars) => RoomsInv'
  BY <1>1, RoomsStep
<1>4. RoomsInv => AtOneTable
  <2> SUFFICES ASSUME RoomsInv, NEW u \in Users, Cardinality(SeatsOf(u)) > 1,
                      u \notin overlapped \cup forgotten
               PROVE  FALSE
    BY DEF AtOneTable
  <2>1. \A c, d \in SeatsOf(u) : c = d
    BY DEF RoomsInv, OneSeatEach
  <2>2. PICK S : S = SeatsOf(u)
    OBVIOUS
  <2>3. Cardinality(S) > 1
    BY <2>2
  <2>4. CASE S = {}
    BY <2>3, <2>4, FS_EmptySet
  <2>5. CASE S # {}
    <3>1. PICK c : S = {c}
      <4>1. PICK d \in S : TRUE
        BY <2>5
      <4>2. S = {d}
        BY <2>1, <2>2, <4>1
      <4> QED BY <4>2
    <3>2. Cardinality(S) = 1
      BY <3>1, FS_Singleton
    <3> QED BY <2>3, <3>2
  <2> QED BY <2>4, <2>5
<1> QED BY <1>2, <1>3, <1>4, PTL DEF LobbySpec

(***************************************************************************)
(* Wallets, tables and what was left behind add up to what there was, give  *)
(* or take what the moves that a crash interrupted had moved (JoinTable,    *)
(* LeaveTable, SaveGame).                                                   *)
(***************************************************************************)
THEOREM ACrashCostsItsMoves ==
  ASSUME IsFiniteSet(Users), IsFiniteSet(Codes)
  PROVE  LobbySpec => []CrashCostsItsMoves
<1>1. FinitelyMany
  BY DEF FinitelyMany
<1>2. LobbyInit => RoomsInv
  BY <1>1, RoomsBegin
<1>3. RoomsInv /\ [LobbyNext]_(lobbyVars) => RoomsInv'
  BY <1>1, RoomsStep
<1>4. RoomsInv => CrashCostsItsMoves
  <2> SUFFICES ASSUME RoomsInv PROVE CrashCostsItsMoves
    OBVIOUS
  <2>1. RoomsTyped /\ RoomsSaved /\ MoneyWithin
    BY DEF RoomsInv
  <2>2. PICK felt : felt = [c \in Codes |-> OnTheFelt(GetOrCreateTable(c))]
    OBVIOUS
  <2>3. PICK w : w = wallet
    OBVIOUS
  <2>4. Money = SumFunctionOnSet(w, Users) + forfeited + SumFunctionOnSet(felt, Codes)
    <3>1. w = [u \in Users |-> wallet[u]]
      BY <2>1, <2>3 DEF RoomsTyped
    <3> QED BY <2>2, <3>1 DEF Money, SumOver
  <2>5. \A c \in Codes : /\ felt[c] \in Int
                         /\ AtLeast(GetOrCreateTable(c)) \in Int
                         /\ AtMost(GetOrCreateTable(c)) \in Int
                         /\ AtLeast(GetOrCreateTable(c)) <= felt[c]
                         /\ felt[c] <= AtMost(GetOrCreateTable(c))
    <3> SUFFICES ASSUME NEW c \in Codes
                 PROVE  /\ felt[c] \in Int
                        /\ AtLeast(GetOrCreateTable(c)) \in Int
                        /\ AtMost(GetOrCreateTable(c)) \in Int
                        /\ AtLeast(GetOrCreateTable(c)) <= felt[c]
                        /\ felt[c] <= AtMost(GetOrCreateTable(c))
      OBVIOUS
    <3>1. PICK t : t = GetOrCreateTable(c)
      OBVIOUS
    <3>2. t \in GoodTables
      BY <1>1, <2>1, <3>1, RoomIs
    <3>3. felt[c] = OnTheFelt(t)
      BY <2>2, <3>1
    <3>4. OnTheFelt(t) \in Int
      <4>1. t.pot \in Nat
        BY <3>2, TableFacts
      <4> QED BY <3>2, <4>1, Counted
    <3> QED BY <3>1, <3>2, <3>3, <3>4, Bounds
  <2>6. SumFunctionOnSet(felt, Codes) \in Int
    BY <2>5, SumType
  <2>7. SumFunctionOnSet(w, Users) \in Int /\ forfeited \in Int /\ Initially \in Int /\ exposed \in Int
    <3>1. \A u \in Users : w[u] \in Int
      BY <2>1, <2>3 DEF RoomsTyped
    <3>2. SumFunctionOnSet(w, Users) \in Int
      BY <3>1, SumType
    <3> QED BY <1>1, <2>1, <3>2, KeptTyped DEF RoomsTyped
  <2>8. Kept = SumFunctionOnSet(w, Users) + forfeited - Initially
    BY <2>3 DEF Kept
  <2>9. Money - Initially <= exposed
    <3>1. PICK h \in [Codes -> Int] : /\ \A c \in Codes : NoMore(c, h[c])
                                      /\ Kept + SumFunctionOnSet(h, Codes) <= exposed
      BY <2>1 DEF MoneyWithin
    <3>2. PICK f : f = h
      OBVIOUS
    <3>3. \A c \in Codes : felt[c] \in Int /\ f[c] \in Int /\ felt[c] <= f[c]
      BY <2>5, <3>1, <3>2 DEF NoMore
    <3>4. IsFiniteSet(Codes)
      OBVIOUS
    <3>5. SumFunctionOnSet(felt, Codes) <= SumFunctionOnSet(f, Codes)
      BY ONLY <3>3, <3>4, SumAtMost
    <3>6. SumFunctionOnSet(f, Codes) \in Int
      BY <3>3, SumType
    <3> QED BY <2>4, <2>6, <2>7, <2>8, <3>1, <3>2, <3>5, <3>6
  <2>10. -exposed <= Money - Initially
    <3>1. PICK h \in [Codes -> Int] : /\ \A c \in Codes : NoLess(c, h[c])
                                      /\ -exposed <= Kept + SumFunctionOnSet(h, Codes)
      BY <2>1 DEF MoneyWithin
    <3>2. PICK f : f = h
      OBVIOUS
    <3>3. \A c \in Codes : f[c] \in Int /\ felt[c] \in Int /\ f[c] <= felt[c]
      BY <2>5, <3>1, <3>2 DEF NoLess
    <3>4. IsFiniteSet(Codes)
      OBVIOUS
    <3>5. SumFunctionOnSet(f, Codes) <= SumFunctionOnSet(felt, Codes)
      BY ONLY <3>3, <3>4, SumAtMost
    <3>6. SumFunctionOnSet(f, Codes) \in Int
      BY <3>3, SumType
    <3> QED BY <2>4, <2>6, <2>7, <2>8, <3>1, <3>2, <3>5, <3>6
  <2>11. Money - Cardinality(Users) * InitialWallet = Money - Initially
    BY DEF Initially
  <2> QED BY <2>9, <2>10, <2>11 DEF CrashCostsItsMoves
<1> QED BY <1>2, <1>3, <1>4, PTL DEF LobbySpec
=============================================================================
