------------------------------ MODULE Receipts ------------------------------
(***************************************************************************)
(* Asking the bank's receipt verifier (receipt_verifier.go).  A call is     *)
(* what comes back of it,                                                   *)
(*   status     "ok", "refusal" (404, 422, 400), "other", or "silent"       *)
(*   html       a CDN's page stands where JSON should                       *)
(*   reference  the receipt carries a transaction reference                 *)
(* and the time it takes.  A 200 whose body cannot be read says as little   *)
(* as a 5xx and counts as "other"; only a receipt may come late, since an   *)
(* attempt that ran out of time hears nothing, whatever was on its way.     *)
(* Verify is a fold over the calls it may make; the time it has spent and   *)
(* what it last heard are its state.                                        *)
(***************************************************************************)
EXTENDS Integers, Sequences, SequencesExt

CONSTANTS
  Attempts,        \* RECEIPT_VERIFIER_ATTEMPTS
  AttemptTimeout,  \* RECEIPT_VERIFIER_TIMEOUT
  Backoff          \* RECEIPT_VERIFIER_BACKOFF

ASSUME ReceiptsAssumption ==
  /\ Attempts \in Nat \ {0}
  /\ AttemptTimeout \in Nat \ {0}
  /\ Backoff \in Nat

Calls ==
  [status : {"ok"}, html : {FALSE}, reference : BOOLEAN, time : 1..AttemptTimeout + 1]
    \cup [status : {"refusal", "other"}, html : BOOLEAN, reference : {FALSE}, time : {1}]
    \cup [status : {"silent"}, html : {FALSE}, reference : {FALSE}, time : {AttemptTimeout + 1}]

LooksLikeCDNChallenge(call) == call.status # "ok" /\ call.html

\* What an answer says: a receipt without a reference is refused.
Attempt(call) ==
  IF LooksLikeCDNChallenge(call) THEN "blocked"
  ELSE IF call.status = "refusal" \/ (call.status = "ok" /\ ~call.reference) THEN "rejected"
  ELSE IF call.status = "ok" THEN "receipt"
  ELSE "unjudged"

\* backoffBefore: the pause before the given attempt, counted from 1.
BackoffBefore(attempt) == Backoff * (attempt - 1)

\* Mutant: the pauses are not counted.
BudgetOfTheAttempts == Attempts * AttemptTimeout

\* The time a full Verify may take; verifyContext makes it the deadline.
Budget ==
  LET add(total, attempt) == total + AttemptTimeout + BackoffBefore(attempt)
  IN  FoldLeft(add, 0, [k \in 1..Attempts |-> k])

\* attemptWithTimeout: its own deadline, or what the caller has left.
AttemptWithTimeout(call, left) ==
  LET limit == IF left < AttemptTimeout THEN left ELSE AttemptTimeout
  IN  IF call.time > limit THEN [heard |-> "unjudged", time |-> limit]
                           ELSE [heard |-> Attempt(call), time |-> call.time]

(***************************************************************************)
(* Verify goes on while nothing decisive was heard and there is time left.  *)
(***************************************************************************)
Verify(calls, deadline) ==
  LET next(state, attempt) ==
        LET begun  == state.spent + BackoffBefore(attempt)
            answer == AttemptWithTimeout(calls[attempt], deadline - begun)
        IN  IF state.heard # "unjudged" \/ begun >= deadline THEN state
            ELSE [heard |-> answer.heard, spent |-> begun + answer.time]
  IN  FoldLeft(next, [heard |-> "unjudged", spent |-> 0], [k \in 1..Attempts |-> k]).heard
=============================================================================
