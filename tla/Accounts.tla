------------------------------ MODULE Accounts ------------------------------
(***************************************************************************)
(* Accounts: one-time codes (auth_otp.go), and the sign-ups, password       *)
(* resets, logins and password changes that rest on them (auth_service.go,  *)
(* profile_service.go).                                                     *)
(*                                                                          *)
(* Both purposes of a code run through the same steps: look, take a send    *)
(* from the phone's allowance (read, then write), replace or refresh the    *)
(* row, send.  Every request is a task; between its steps the others run,   *)
(* and the process may stop.  A statement or a transaction is one step.     *)
(* Time is what it does: a code expires, a cooldown or a window is over.    *)
(* A code is known by its number, and a sign-up's password, a reset token   *)
(* and the password it sets by the code they came with.  A phone stands for *)
(* itself and the username asked for with it; both are UNIQUE.  A start of  *)
(* the server may rewrite the password of one account, the administrator's; *)
(* that is an account the first start made, before Init.                    *)
(***************************************************************************)
EXTENDS Naturals, FiniteSets

CONSTANTS
  Phones,
  Requests,       \* requests to the server, at a time
  OtpMaxAttempts,
  OtpMaxSendsPerWindow,
  MaxMinted,      \* bound: codes and passwords ever minted
  Tokens,         \* bound: session tokens that stand or are in a request's hand
  None

\* A user: the code he signed up with, his password then and his password now.
UserRecords == [code : Nat, signed : Nat, password : Nat]

\* A row of otp_send_throttle, with how many messages this hour's really were.
ThrottleRecords ==
  [count : Nat, cooling : BOOLEAN, window : {"open", "over", "stale"}, sent : Nat]

ASSUME AccountsAssumption ==
  /\ IsFiniteSet(Requests)
  /\ {OtpMaxAttempts, OtpMaxSendsPerWindow, MaxMinted} \subseteq Nat \ {0}
  /\ None \notin Nat
  /\ None \notin UserRecords \cup ThrottleRecords

Purposes == {"register", "reset"}
Blank == 0        \* the code of a row that was verified

\* An account there has long been: nobody signs up for it.
Known == [code |-> Blank, signed |-> Blank, password |-> Blank]

VARIABLES
  codes,      \* pending_registrations and password_reset_codes, by phone
  throttle,   \* otp_send_throttle, by purpose and phone
  account,    \* users, by phone
  sessions,   \* user_sessions; with each, as history, the password it proved, or
              \*   None: it was spared when that was the account's no more
  minted,     \* how many codes and passwords there have been
  signup,     \* history: the password chosen with each registration code
  tried,      \* history: wrong guesses compared with each code
  task

rowVars == <<codes, throttle>>
userVars == <<account, sessions>>
codeVars == <<minted, signup, tried>>
vars == <<rowVars, userVars, codeVars, task>>

Idle == [at |-> "idle"]
Goto(p, step) == task' = [task EXCEPT ![p] = step]
Done(p) == Goto(p, Idle)
Fresh == minted + 1
CanMint == minted < MaxMinted

Init ==
  /\ codes = [u \in Purposes |-> [h \in Phones |-> None]]
  /\ throttle = [u \in Purposes |-> [h \in Phones |-> None]]
  /\ account \in [Phones -> {None, Known}]
  /\ sessions = {}
  /\ minted = 0
  /\ signup = [c \in 0..MaxMinted |-> Blank]
  /\ tried = [c \in 1..MaxMinted |-> 0]
  /\ task = [p \in Requests |-> Idle]

(***************************************************************************)
(* The rows of codes.                                                       *)
(***************************************************************************)
NewRow ==
  [id |-> Fresh, code |-> Fresh, arrived |-> FALSE, attempts |-> 0, expired |-> FALSE,
   password |-> Fresh, token |-> None, tokenExpired |-> TRUE]

GetCodeByPhone(u, h) == codes[u][h]
Set(u, h, row) == codes' = [codes EXCEPT ![u][h] = row]
CreateCode(u, h) == Set(u, h, NewRow)
Stands(u, h, id) == codes[u][h] # None /\ codes[u][h].id = id
DeleteByPhone(u, h) == Set(u, h, None)
DeleteById(u, h, id) == IF Stands(u, h, id) THEN Set(u, h, None) ELSE UNCHANGED codes

\* Mutant: a wrong guess at a reset is not counted.
IncrementSomeAttempts(u, h, id) ==
  IF Stands(u, h, id) /\ u = "register"
  THEN Set(u, h, [codes[u][h] EXCEPT !.attempts = @ + 1])
  ELSE UNCHANGED codes

IncrementAttempts(u, h, id) ==
  IF Stands(u, h, id)
  THEN Set(u, h, [codes[u][h] EXCEPT !.attempts = @ + 1])
  ELSE UNCHANGED codes

RefreshCode(u, h, id) ==
  IF Stands(u, h, id)
  THEN Set(u, h, [codes[u][h] EXCEPT !.code = Fresh, !.arrived = FALSE, !.attempts = 0,
                                     !.expired = FALSE, !.token = None,
                                     !.tokenExpired = TRUE])
  ELSE UNCHANGED codes

\* Verifying blanks the code, ends its clock and mints the token.
SetPasswordResetToken(h, id, token) ==
  IF Stands("reset", h, id)
  THEN Set("reset", h, [codes["reset"][h] EXCEPT !.code = Blank, !.expired = TRUE,
                                                 !.token = token, !.tokenExpired = FALSE])
  ELSE UNCHANGED codes

Dead(row) == row # None /\ row.expired /\ row.tokenExpired
Swept == [u \in Purposes |-> [h \in Phones |-> IF Dead(codes[u][h]) THEN None ELSE codes[u][h]]]
DeleteStaleThrottles ==
  throttle' = [u \in Purposes |-> [h \in Phones |->
    IF throttle[u][h] # None /\ throttle[u][h].window = "stale" THEN None ELSE throttle[u][h]]]
SweepExpiredOTPs == codes' = Swept /\ DeleteStaleThrottles

(***************************************************************************)
(* consumeSendAllowance: the row is read, and written later from what was   *)
(* read.                                                                    *)
(***************************************************************************)
\* Mutant: the hour's cap is not looked at.
AllowedWhenCool(t) == t = None \/ ~t.cooling

Allowed(t) ==
  t = None \/ (~t.cooling /\ (t.window # "open" \/ t.count < OtpMaxSendsPerWindow))

\* A request that is wanted goes on if the allowance it read lets it.
Grant(p, wanted, u, h, id) ==
  LET t == throttle'[u][h]
  IN  IF wanted /\ Allowed(t)
      THEN Goto(p, [at |-> "allowed", purpose |-> u, phone |-> h, id |-> id, seen |-> t])
      ELSE UNCHANGED task

\* "sent" is history: the messages of this hour, whatever count was written.
SentNow(t) == IF t # None /\ t.window = "open" THEN t.sent + 1 ELSE 1
WriteThrottle(u, h, count) ==
  throttle' = [throttle EXCEPT ![u][h] =
    [count |-> count, cooling |-> TRUE, window |-> "open", sent |-> SentNow(throttle[u][h])]]
CreateOTPThrottle(u, h) == WriteThrottle(u, h, 1)
UpdateOTPThrottle(u, h, t) == WriteThrottle(u, h, IF t.window = "open" THEN t.count + 1 ELSE 1)

WriteAllowance(p) ==
  LET u == task[p].purpose
      h == task[p].phone
      t == task[p].seen
  IN  /\ task[p].at = "allowed"
      /\ IF t = None /\ throttle[u][h] # None           \* UNIQUE (phone_number, purpose)
         THEN Done(p) /\ UNCHANGED throttle
         ELSE /\ IF t = None THEN CreateOTPThrottle(u, h) ELSE UpdateOTPThrottle(u, h, t)
              /\ Goto(p, [at |-> IF task[p].id = None THEN "replacing" ELSE "refreshing",
                          purpose |-> u, phone |-> h, id |-> task[p].id])
      /\ UNCHANGED <<codes, userVars, codeVars>>

(***************************************************************************)
(* Starting: StartRegistration and StartPasswordReset; and ResendOTP.  What *)
(* they read before anything is written is read together.                   *)
(***************************************************************************)
StartRegistration(p, h) ==
  /\ task[p] = Idle /\ CanMint
  /\ SweepExpiredOTPs
  /\ Grant(p, account[h] = None, "register", h, None)
  /\ UNCHANGED <<userVars, codeVars>>

StartPasswordReset(p, h) ==
  /\ task[p] = Idle /\ CanMint
  /\ SweepExpiredOTPs
  /\ Grant(p, account[h] # None, "reset", h, None)
  /\ UNCHANGED <<userVars, codeVars>>

ResendOTP(p, u, h) ==
  /\ task[p] = Idle /\ CanMint
  /\ SweepExpiredOTPs
  /\ IF Swept[u][h] = None THEN UNCHANGED task
                            ELSE Grant(p, TRUE, u, h, Swept[u][h].id)
  /\ UNCHANGED <<userVars, codeVars>>

(***************************************************************************)
(* The row, then the message.                                               *)
(***************************************************************************)
ToSend(p) == [at |-> "sending", purpose |-> task[p].purpose, phone |-> task[p].phone,
              id |-> task[p].id, code |-> Fresh]

Replace(p) ==
  /\ task[p].at = "replacing"
  /\ DeleteByPhone(task[p].purpose, task[p].phone)
  /\ Goto(p, [at |-> "creating", purpose |-> task[p].purpose, phone |-> task[p].phone,
              id |-> task[p].id])
  /\ UNCHANGED <<throttle, userVars, codeVars>>

Create(p) ==
  /\ task[p].at = "creating" /\ CanMint
  /\ IF codes[task[p].purpose][task[p].phone] # None       \* UNIQUE
     THEN Done(p) /\ UNCHANGED <<codes, minted, signup>>
     ELSE /\ CreateCode(task[p].purpose, task[p].phone)
          /\ minted' = Fresh
          /\ signup' = [signup EXCEPT ![Fresh] = Fresh]
          /\ Goto(p, ToSend(p))
  /\ UNCHANGED <<throttle, userVars, tried>>

Refresh(p) ==
  LET u == task[p].purpose
      h == task[p].phone
  IN  /\ task[p].at = "refreshing" /\ CanMint
      /\ RefreshCode(u, h, task[p].id)
      /\ minted' = Fresh
      /\ signup' = [signup EXCEPT ![Fresh] = IF Stands(u, h, task[p].id)
                                            THEN codes[u][h].password ELSE Blank]
      /\ Goto(p, ToSend(p))
      /\ UNCHANGED <<throttle, userVars, tried>>

\* sendCode: an error need not mean that nothing was sent.  A first send that
\* failed leaves no row behind, whosever it is by now.
SendCode(p, ok, arrives) ==
  LET u == task[p].purpose
      h == task[p].phone
  IN  /\ task[p].at = "sending"
      /\ IF ~ok /\ task[p].id = None
         THEN DeleteByPhone(u, h)
         ELSE IF arrives /\ codes[u][h] # None /\ codes[u][h].code = task[p].code
              THEN Set(u, h, [codes[u][h] EXCEPT !.arrived = TRUE])
              ELSE UNCHANGED codes
      /\ Done(p)
      /\ UNCHANGED <<throttle, userVars, codeVars>>

(***************************************************************************)
(* Verifying: the row is read, and decided upon from what was read.         *)
(***************************************************************************)
ReadCode(p, u, h, right) ==
  LET row == GetCodeByPhone(u, h)
  IN  /\ task[p] = Idle
      /\ row # None
      /\ row.token = None
      /\ right => row.arrived
      /\ Goto(p, [at |-> "checking", purpose |-> u, phone |-> h, right |-> right, row |-> row])
      /\ UNCHANGED <<rowVars, userVars, codeVars>>

SigningIn(h, password) == [at |-> "signing in", phone |-> h, password |-> password]

CodeExpired(p) ==
  /\ task[p].row.expired
  /\ DeleteById(task[p].purpose, task[p].phone, task[p].row.id)
  /\ Done(p)
  /\ UNCHANGED <<userVars, codeVars>>

CodeBurned(p) ==
  /\ ~task[p].row.expired
  /\ task[p].row.attempts >= OtpMaxAttempts
  /\ Done(p)
  /\ UNCHANGED <<codes, userVars, codeVars>>

\* CodesMatch: what was supplied is what was stored.
CodeWrong(p) ==
  /\ ~task[p].row.expired
  /\ task[p].row.attempts < OtpMaxAttempts
  /\ ~task[p].right
  /\ IncrementAttempts(task[p].purpose, task[p].phone, task[p].row.id)
  /\ tried' = [tried EXCEPT ![task[p].row.code] = @ + 1]
  /\ Done(p)
  /\ UNCHANGED <<userVars, minted, signup>>

CodeRight(p) ==
  /\ ~task[p].row.expired
  /\ task[p].row.attempts < OtpMaxAttempts
  /\ task[p].right

\* Mutant: the account is made of the row that stands by now.
CreateUserFromTheTable(h, row) ==
  account' = [account EXCEPT ![h] =
    LET chosen == IF codes["register"][h] = None THEN row.password
                                               ELSE codes["register"][h].password
    IN  [code |-> row.code, signed |-> chosen, password |-> chosen]]

CreateUser(h, row) ==
  account' = [account EXCEPT ![h] = [code |-> row.code, signed |-> row.password, password |-> row.password]]

VerifyRegistration(p) ==
  LET h == task[p].phone
      row == task[p].row
  IN  /\ task[p].purpose = "register"
      /\ CodeRight(p)
      /\ IF account[h] # None
         THEN /\ Done(p) /\ UNCHANGED account
              /\ DeleteById("register", h, row.id) \/ UNCHANGED codes   \* UNIQUE: rolled back
         ELSE /\ CreateUser(h, row) /\ DeleteById("register", h, row.id)
              /\ Goto(p, SigningIn(h, row.password))
      /\ UNCHANGED <<sessions, codeVars>>

VerifyResetOTP(p) ==
  /\ task[p].purpose = "reset"
  /\ CodeRight(p)
  /\ SetPasswordResetToken(task[p].phone, task[p].row.id, task[p].row.code)
  /\ Done(p)
  /\ UNCHANGED <<userVars, codeVars>>

CheckCode(p) ==
  /\ task[p].at = "checking"
  /\ CodeExpired(p) \/ CodeBurned(p) \/ CodeWrong(p) \/ VerifyRegistration(p) \/ VerifyResetOTP(p)
  /\ UNCHANGED throttle

(***************************************************************************)
(* Resetting, logging in, changing the password.                            *)
(***************************************************************************)
ReadToken(p, h) ==
  LET row == codes["reset"][h]
  IN  /\ task[p] = Idle
      /\ row # None /\ row.token # None
      /\ IF row.tokenExpired
         THEN DeleteByPhone("reset", h) /\ UNCHANGED task
         ELSE Goto(p, [at |-> "resetting", phone |-> h, row |-> row]) /\ UNCHANGED codes
      /\ UNCHANGED <<throttle, userVars, codeVars>>

UpdateUserPassword(h, password) == account' = [account EXCEPT ![h].password = password]
DeleteSessionTokensByUser(h) == sessions' = {s \in sessions : s.phone # h}

\* Mutant: the sessions outlive the password.
ResetKeepingSessions(h, password) == UpdateUserPassword(h, password) /\ UNCHANGED sessions

\* UpdateUserPassword and DeleteSessionTokensByUser, in one transaction.
ResetAccount(h, password) == UpdateUserPassword(h, password) /\ DeleteSessionTokensByUser(h)

ResetPassword(p) ==
  LET h == task[p].phone
  IN  /\ task[p].at = "resetting"
      /\ ResetAccount(h, task[p].row.token)
      /\ DeleteById("reset", h, task[p].row.id)
      /\ Goto(p, SigningIn(h, task[p].row.token))
      /\ UNCHANGED <<throttle, codeVars>>

Login(p, h) ==
  /\ task[p] = Idle
  /\ account[h] # None
  /\ Goto(p, SigningIn(h, account[h].password))
  /\ UNCHANGED <<rowVars, userVars, codeVars>>

InHand(token) == \E q \in Requests : task[q].at \in {"changing", "signing out"} /\ task[q].own = token
NewTokens == {k \in Tokens : ~InHand(k) /\ \A s \in sessions : s.token # k}

\* Spared when the password proved is the account's no more.
CreateSessionToken(h, password) ==
  \E k \in NewTokens :
    sessions' = sessions \cup
      {[token |-> k, phone |-> h,
        by |-> IF password = account[h].password THEN password ELSE None]}

IssueSession(p) ==
  LET h == task[p].phone
  IN  /\ task[p].at = "signing in"
      /\ \/ CreateSessionToken(h, task[p].password)
         \/ UNCHANGED sessions                        \* the write failed
      /\ Done(p)
      /\ UNCHANGED <<rowVars, account, codeVars>>

(***************************************************************************)
(* SetPassword: the current password is compared with the hash the session  *)
(* was authenticated with; the new one is written later, whatever the row   *)
(* holds by then; then the sign-out.                                        *)
(***************************************************************************)
CheckPassword(p, s) ==
  /\ task[p] = Idle
  /\ Goto(p, [at |-> "changing", phone |-> s.phone, own |-> s.token])
  /\ UNCHANGED <<rowVars, userVars, codeVars>>

\* The session that asked, if it still stands, knows the password it set.
ChangePassword(p) ==
  LET h == task[p].phone
      own == task[p].own
  IN  /\ task[p].at = "changing" /\ CanMint
      /\ UpdateUserPassword(h, Fresh)
      /\ minted' = Fresh
      /\ sessions' = {IF s.phone = h /\ s.token = own
                      THEN [s EXCEPT !.by = Fresh] ELSE s : s \in sessions}
      /\ Goto(p, [at |-> "signing out", phone |-> h, own |-> own])
      /\ UNCHANGED <<rowVars, signup, tried>>

\* What a request that is signing out will delete.
EndedBy(q, s) ==
  task[q].at = "signing out" /\ task[q].phone = s.phone /\ task[q].own # s.token

DeleteOtherSessionTokens(p) == sessions' = {s \in sessions : ~EndedBy(p, s)}

\* The session stays, by the password it proved.
Spare(s) == IF s.by = account'[s.phone].password THEN s ELSE [s EXCEPT !.by = None]

SignOutOthers(p) ==
  /\ task[p].at = "signing out"
  /\ UNCHANGED <<rowVars, account, codeVars>>
  /\ \/ DeleteOtherSessionTokens(p)
     \/ sessions' = {IF EndedBy(p, s) THEN Spare(s) ELSE s : s \in sessions}   \* it failed
  /\ Done(p)

Logout(s) ==
  /\ sessions' = sessions \ {s}
  /\ UNCHANGED <<rowVars, account, codeVars, task>>

(***************************************************************************)
(* Time, and the process.  A cooldown and a window outlast the moment       *)
(* between a request's read of the allowance and its write.                 *)
(***************************************************************************)
ExpireCode(u, h) ==
  /\ codes[u][h] # None
  /\ \/ ~codes[u][h].expired /\ Set(u, h, [codes[u][h] EXCEPT !.expired = TRUE])
     \/ ~codes[u][h].tokenExpired /\ Set(u, h, [codes[u][h] EXCEPT !.tokenExpired = TRUE])
  /\ UNCHANGED <<throttle, userVars, codeVars, task>>

PassTime(u, h) ==
  LET t == throttle[u][h]
  IN  /\ t # None
      /\ \A p \in Requests : ~(task[p].at = "allowed" /\ task[p].purpose = u /\ task[p].phone = h)
      /\ throttle' = [throttle EXCEPT ![u][h] =
                        IF t.cooling THEN [t EXCEPT !.cooling = FALSE]
                        ELSE [count |-> 0, sent |-> 0, cooling |-> FALSE,
                              window |-> IF t.window = "open" THEN "over" ELSE "stale"]]
      /\ UNCHANGED <<codes, userVars, codeVars, task>>

\* The sessions are left as they are.
EnsureAdminUser(h, password) == UpdateUserPassword(h, password)

\* Every request is gone, a sign-out that was still to come with it.  bootstrap
\* then writes the password configured for the administrator, the one there
\* always was or a new one, unless none is.
Restart ==
  LET Dropped(s) == \E q \in Requests : EndedBy(q, s)
      Seed(h) == \/ EnsureAdminUser(h, Blank) /\ UNCHANGED minted
                 \/ CanMint /\ EnsureAdminUser(h, Fresh) /\ minted' = Fresh
  IN  /\ task' = [p \in Requests |-> Idle]
      /\ \/ /\ UNCHANGED <<account, minted>>
            /\ sessions' = {IF Dropped(s) THEN Spare(s) ELSE s : s \in sessions}
         \/ \E h \in Phones :
              /\ account[h] # None /\ account[h].code = Blank
              /\ Seed(h)
              /\ sessions' = {IF Dropped(s) \/ s.phone = h THEN Spare(s) ELSE s : s \in sessions}
      /\ UNCHANGED <<rowVars, signup, tried>>

Next ==
  \/ \E p \in Requests, h \in Phones : StartRegistration(p, h) \/ StartPasswordReset(p, h)
  \/ \E p \in Requests, h \in Phones : ReadToken(p, h) \/ Login(p, h)
  \/ \E p \in Requests, u \in Purposes, h \in Phones : ResendOTP(p, u, h)
  \/ \E p \in Requests : WriteAllowance(p)
  \/ \E p \in Requests : Replace(p) \/ Create(p) \/ Refresh(p)
  \/ \E p \in Requests, ok \in BOOLEAN, arrives \in BOOLEAN : SendCode(p, ok, arrives)
  \/ \E p \in Requests, u \in Purposes, h \in Phones, right \in BOOLEAN : ReadCode(p, u, h, right)
  \/ \E p \in Requests : CheckCode(p)
  \/ \E p \in Requests : ResetPassword(p) \/ IssueSession(p)
  \/ \E p \in Requests, s \in sessions : CheckPassword(p, s)
  \/ \E p \in Requests : ChangePassword(p) \/ SignOutOthers(p)
  \/ \E s \in sessions : Logout(s)
  \/ \E u \in Purposes, h \in Phones : ExpireCode(u, h) \/ PassTime(u, h)
  \/ Restart

Spec == Init /\ [][Next]_vars
-----------------------------------------------------------------------------
(***************************************************************************)
(* "a fresh code earns a fresh five tries": no code is compared with more   *)
(* wrong guesses than it has tries, but for the requests that were already  *)
(* under way when the last one was counted; one kept waiting across a new   *)
(* code counts against the old (checkCode, IncrementAttempts).              *)
(***************************************************************************)
GuessesAreBounded ==
  \A c \in 1..minted : tried[c] <= OtpMaxAttempts + Cardinality(Requests) - 1

(***************************************************************************)
(* A phone gets a bounded number of messages an hour: requests that read    *)
(* its allowance together pass together, and count as one (the row's        *)
(* send_count is written from what was read), so the cap holds as often as  *)
(* there are requests at a time (consumeSendAllowance).  It is assumed that *)
(* no request takes as long as the cooldown, 60 seconds, between its read   *)
(* of the allowance and its write (PassTime).                               *)
(***************************************************************************)
SendsAreBounded ==
  \A u \in Purposes, h \in Phones :
    throttle[u][h] # None =>
      throttle[u][h].sent <= OtpMaxSendsPerWindow * Cardinality(Requests)

(***************************************************************************)
(* An account is made of what its owner signed up with: its first password  *)
(* was chosen in the sign-up its code was sent for, whichever sign-up has   *)
(* taken that one's place meanwhile (VerifyRegistration, StartRegistration).*)
(***************************************************************************)
AccountsAreTheirOwners ==
  \A h \in Phones : account[h] # None => account[h].signed = signup[account[h].code]

(***************************************************************************)
(* "Every other session is destroyed": a session that stands proved the     *)
(* account's present password, or a request is about to sign it out, or it  *)
(* was spared.  Three ways to be spared are known: its login had proved the *)
(* password before that changed and wrote the session after; the sign-out   *)
(* after a change of the password was cut off by a restart or an error; or  *)
(* it is the administrator's, whose password a start of the server rewrites *)
(* and whose sessions it leaves (ResetPassword, SetPassword, Login,         *)
(* EnsureAdminUser).                                                        *)
(***************************************************************************)
SessionsKnowThePassword ==
  \A s \in sessions :
    s.by \in {account[s.phone].password, None} \/ \E q \in Requests : EndedBy(q, s)
=============================================================================
