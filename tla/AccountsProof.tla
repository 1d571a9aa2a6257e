---------------------------- MODULE AccountsProof ----------------------------
(***************************************************************************)
(* Proofs about Accounts, for any number of phones and of requests at a     *)
(* time: an account is made of its owner's sign-up, a session knows the     *)
(* account's password, and no more messages are sent to a phone, and no     *)
(* more guesses made at a code, than its tries and the requests under way.  *)
(***************************************************************************)
EXTENDS Accounts, FiniteSetTheorems, TLAPS

(***************************************************************************)
(* The inductive invariant.  What a row, or a request that read one, says   *)
(* of a sign-up must go on being true while codes and rows are replaced     *)
(* under it; and whoever is about to get a session must have an account.    *)
(***************************************************************************)
Rows ==
  [id : Nat, code : Nat, arrived : BOOLEAN, attempts : Nat, expired : BOOLEAN,
   password : Nat, token : Nat \cup {None}, tokenExpired : BOOLEAN]

Sessions == [token : Tokens, phone : Phones, by : Nat \cup {None}]

Types ==
  /\ codes \in [Purposes -> [Phones -> Rows \cup {None}]]
  /\ account \in [Phones -> UserRecords \cup {None}]
  /\ sessions \in SUBSET Sessions
  /\ minted \in 0..MaxMinted
  /\ signup \in [0..MaxMinted -> Nat]
  /\ signup[Blank] = Blank
  /\ task = [p \in Requests |-> task[p]]

\* A row of a code: a sign-up's is the one the code was sent for, a reset's
\* belongs to an account.
RowOK(u, h, row) ==
  /\ row \in Rows
  /\ row.code <= minted
  /\ u = "register" => row.code # Blank /\ signup[row.code] = row.password
  /\ u = "reset" => account[h] # None

RowsOK ==
  \A u \in Purposes, h \in Phones : codes[u][h] = None \/ RowOK(u, h, codes[u][h])

Carrying == {"allowed", "replacing", "refreshing", "creating", "sending", "checking"}

TaskOK(t) ==
  /\ t.at \in Carrying => /\ t.purpose \in Purposes
                          /\ t.phone \in Phones
                          /\ t.purpose = "reset" => account[t.phone] # None
  /\ t.at = "checking" => RowOK(t.purpose, t.phone, t.row)
  /\ t.at = "resetting" => t.phone \in Phones /\ account[t.phone] # None /\ t.row.token \in Nat
  /\ t.at = "signing in" => t.phone \in Phones /\ account[t.phone] # None /\ t.password \in Nat
  /\ t.at \in {"changing", "signing out"} => t.phone \in Phones /\ account[t.phone] # None

TasksOK == \A p \in Requests : TaskOK(task[p])

Owned ==
  \A h \in Phones :
    account[h] # None => account[h].code <= minted /\ account[h].signed = signup[account[h].code]

SessionsOK ==
  \A s \in sessions :
    /\ account[s.phone] # None
    /\ s.by \in {account[s.phone].password, None} \/ \E q \in Requests : EndedBy(q, s)

IInv == Types /\ RowsOK /\ TasksOK /\ Owned /\ SessionsOK

LEMMA InitHolds == Init => IInv
<1> SUFFICES ASSUME Init PROVE IInv
  OBVIOUS
<1>1. MaxMinted \in Nat /\ Known \in UserRecords
  BY AccountsAssumption DEF Known, UserRecords, Blank
<1>2. Types
  BY <1>1 DEF Init, Types, Purposes, Blank
<1>3. RowsOK /\ TasksOK /\ SessionsOK
  BY DEF Init, RowsOK, TasksOK, TaskOK, SessionsOK, Carrying, Idle, Purposes
<1>4. Owned
  <2> SUFFICES ASSUME NEW h \in Phones, account[h] # None
               PROVE  account[h].code <= minted /\ account[h].signed = signup[account[h].code]
    BY DEF Owned
  <2>1. account[h] = Known
    BY DEF Init
  <2>2. signup[Blank] = Blank
    BY <1>1 DEF Init, Blank
  <2> QED
    BY <2>1, <2>2 DEF Init, Known, Blank
<1> QED
  BY <1>2, <1>3, <1>4 DEF IInv

(***************************************************************************)
(* What one request cannot undo for another: accounts stay, codes once      *)
(* minted keep their sign-up.                                               *)
(***************************************************************************)
Grows ==
  /\ \A h \in Phones : account[h] # None => account'[h] # None
  /\ minted' \in minted..MaxMinted
  /\ signup' \in [0..MaxMinted -> Nat]
  /\ \A c \in 0..minted : signup'[c] = signup[c]

LEMMA RowStays ==
  ASSUME Types, Grows, NEW u \in Purposes, NEW h \in Phones, NEW row, RowOK(u, h, row)
  PROVE  RowOK(u, h, row)'
<1>1. row.code \in 0..minted /\ minted \in Nat /\ minted' \in Nat /\ minted <= minted'
  BY AccountsAssumption DEF Types, RowOK, Rows, Grows
<1> QED
  BY <1>1 DEF RowOK, Grows

LEMMA TaskStays ==
  ASSUME Types, Grows, NEW t, TaskOK(t)
  PROVE  TaskOK(t)'
<1>1. t.at = "checking" => t.purpose \in Purposes /\ t.phone \in Phones
  BY DEF TaskOK, Carrying
<1>2. t.at = "checking" => RowOK(t.purpose, t.phone, t.row)'
  BY <1>1, RowStays DEF TaskOK
<1> QED
  BY <1>2 DEF TaskOK, Grows, Carrying

\* A request moves on to t, the others stay where they are.
LEMMA TaskMoves ==
  ASSUME IInv, Grows, NEW p \in Requests, NEW t, task' = [task EXCEPT ![p] = t], TaskOK(t)'
  PROVE  TasksOK' /\ task' = [q \in Requests |-> task'[q]]
<1>1. \A q \in Requests : task'[q] = IF q = p THEN t ELSE task[q]
  BY DEF IInv, Types
<1>2. \A q \in Requests \ {p} : TaskOK(task[q])'
  <2> TAKE q \in Requests \ {p}
  <2>1. PICK w : w = task[q]
    OBVIOUS
  <2>2. TaskOK(w)'
    BY <2>1, TaskStays DEF IInv, TasksOK
  <2>3. task'[q] = w
    BY <1>1, <2>1
  <2> QED
    BY <2>2, <2>3 DEF TaskOK, RowOK
<1> QED
  BY <1>1, <1>2 DEF IInv, Types, TasksOK

(***************************************************************************)
(* The rows.                                                                *)
(***************************************************************************)
\* Every cell keeps its row, loses it, or gets one that is in order.
RowsMove ==
  /\ codes' \in [Purposes -> [Phones -> Rows \cup {None}]]
  /\ \A u \in Purposes, h \in Phones :
       \/ codes'[u][h] \in {None, codes[u][h]}
       \/ \E row \in Rows : codes'[u][h] = row /\ RowOK(u, h, row)'

LEMMA RowsStay ==
  ASSUME IInv, Grows, RowsMove
  PROVE  RowsOK'
<1> SUFFICES ASSUME NEW u \in Purposes, NEW h \in Phones, codes'[u][h] # None
             PROVE  RowOK(u, h, codes[u][h])'
  BY DEF RowsOK
<1>1. PICK row : row = codes'[u][h]
  OBVIOUS
<1>2. RowOK(u, h, row)'
  <2>1. CASE row = codes[u][h]
    BY <1>1, <2>1, RowStays DEF IInv, RowsOK
  <2>2. CASE \E r \in Rows : codes'[u][h] = r /\ RowOK(u, h, r)'
    BY <1>1, <2>2
  <2> QED
    BY <1>1, <2>1, <2>2 DEF RowsMove
<1> QED
  BY <1>1, <1>2 DEF RowOK

LEMMA SetMoves ==
  ASSUME IInv, NEW u \in Purposes, NEW h \in Phones, NEW row \in Rows \cup {None},
         Set(u, h, row), row = None \/ RowOK(u, h, row)'
  PROVE  RowsMove
<1>1. codes \in [Purposes -> [Phones -> Rows \cup {None}]]
  BY DEF IInv, Types
<1>2. codes' \in [Purposes -> [Phones -> Rows \cup {None}]]
  BY <1>1 DEF Set
<1>3. \A v \in Purposes, k \in Phones :
        codes'[v][k] = IF v = u /\ k = h THEN row ELSE codes[v][k]
  BY <1>1 DEF Set
<1> QED
  BY <1>2, <1>3 DEF RowsMove

LEMMA UnchangedMoves ==
  ASSUME IInv, UNCHANGED codes
  PROVE  RowsMove
BY DEF IInv, Types, RowsMove

\* A row that stands is changed in the fields that no sign-up hangs on.
LEMMA StandingRow ==
  ASSUME IInv, NEW u \in Purposes, NEW h \in Phones, codes[u][h] # None
  PROVE  codes[u][h] \in Rows /\ RowOK(u, h, codes[u][h])
BY DEF IInv, RowsOK, RowOK

LEMMA DeleteMoves ==
  ASSUME IInv, NEW u \in Purposes, NEW h \in Phones, NEW id,
         DeleteById(u, h, id) \/ DeleteByPhone(u, h)
  PROVE  RowsMove
BY SetMoves, UnchangedMoves DEF DeleteById, DeleteByPhone

LEMMA IncrementMoves ==
  ASSUME IInv, Grows, NEW u \in Purposes, NEW h \in Phones, NEW id,
         IncrementAttempts(u, h, id)
  PROVE  RowsMove
<1>1. CASE ~Stands(u, h, id)
  BY <1>1, UnchangedMoves DEF IncrementAttempts
<1>2. CASE Stands(u, h, id)
  <2>1. PICK row, new : row = codes[u][h] /\ new = [row EXCEPT !.attempts = @ + 1]
    OBVIOUS
  <2>2. RowOK(u, h, row) /\ row \in Rows
    BY <1>2, <2>1, StandingRow DEF Stands
  <2>3. RowOK(u, h, row)'
    BY <2>2, RowStays DEF IInv
  <2>4. new \in Rows /\ RowOK(u, h, new)'
    BY <2>1, <2>2, <2>3 DEF RowOK, Rows
  <2> QED
    BY <1>2, <2>1, <2>4, SetMoves DEF IncrementAttempts
<1> QED
  BY <1>1, <1>2

LEMMA SweepMoves ==
  ASSUME IInv, codes' = Swept
  PROVE  RowsMove
<1>1. \A u \in Purposes, h \in Phones : Swept[u][h] \in {None, codes[u][h]}
  BY DEF Swept
<1>2. Swept \in [Purposes -> [Phones -> Rows \cup {None}]]
  BY <1>1 DEF Swept, IInv, Types
<1> QED
  BY <1>1, <1>2 DEF RowsMove

(***************************************************************************)
(* Steps that leave accounts and sessions alone.                            *)
(***************************************************************************)
\* A request that is to sign sessions out is still to do it.
EndingsStay == \A q \in Requests : task[q].at = "signing out" => task'[q] = task[q]

LEMMA EndedStill ==
  ASSUME EndingsStay, NEW q \in Requests, NEW s, EndedBy(q, s)
  PROVE  EndedBy(q, s)'
BY DEF EndingsStay, EndedBy

LEMMA UsersStay ==
  ASSUME IInv, Grows, RowsMove, UNCHANGED userVars, EndingsStay,
         TasksOK', task' = [q \in Requests |-> task'[q]]
  PROVE  IInv'
<1>1. Types'
  <2>1. minted' \in 0..MaxMinted /\ signup'[Blank] = Blank
    BY AccountsAssumption DEF IInv, Types, Grows, Blank
  <2> QED
    BY <2>1 DEF IInv, Types, Grows, RowsMove, userVars
<1>2. RowsOK'
  BY RowsStay
<1>3. Owned'
  <2> SUFFICES ASSUME NEW h \in Phones, account[h] # None
               PROVE  /\ account[h].code <= minted'
                      /\ account[h].signed = signup'[account[h].code]
    BY DEF Owned, userVars
  <2>1. account[h].code \in Nat /\ account[h].code <= minted
        /\ account[h].signed = signup[account[h].code]
    BY DEF IInv, Types, Owned, UserRecords
  <2>2. minted \in Nat /\ minted' \in Nat /\ minted <= minted'
    BY AccountsAssumption DEF IInv, Types, Grows
  <2> QED
    BY <2>1, <2>2 DEF Grows
<1>4. SessionsOK'
  BY EndedStill DEF IInv, SessionsOK, userVars
<1> QED
  BY <1>1, <1>2, <1>3, <1>4 DEF IInv

LEMMA NothingMinted ==
  ASSUME IInv, UNCHANGED <<account, minted, signup>>
  PROVE  Grows
BY AccountsAssumption DEF IInv, Types, Grows

LEMMA TasksStay ==
  ASSUME IInv, Grows, UNCHANGED task
  PROVE  TasksOK' /\ task' = [q \in Requests |-> task'[q]]
<1>1. \A q \in Requests : TaskOK(task[q])'
  <2> TAKE q \in Requests
  <2>1. PICK w : w = task[q]
    OBVIOUS
  <2>2. TaskOK(w)'
    BY <2>1, TaskStays DEF IInv, TasksOK
  <2> QED
    BY <2>1, <2>2 DEF TaskOK, RowOK
<1> QED
  BY <1>1 DEF IInv, Types, TasksOK

LEMMA NothingMoves ==
  ASSUME IInv, Grows, RowsMove, UNCHANGED userVars, UNCHANGED task
  PROVE  IInv'
<1>1. EndingsStay
  BY DEF EndingsStay
<1> QED
  BY <1>1, TasksStay, UsersStay

\* One request moves on, and had nobody to sign out.
LEMMA OthersStay ==
  ASSUME IInv, NEW p \in Requests, NEW t, task[p].at # "signing out",
         task' = [task EXCEPT ![p] = t]
  PROVE  EndingsStay
BY DEF EndingsStay, IInv, Types

\* The common case: one request moves on, or is over.
LEMMA StepHolds ==
  ASSUME IInv, Grows, RowsMove, UNCHANGED userVars, NEW p \in Requests, NEW t,
         task[p].at # "signing out", task' = [task EXCEPT ![p] = t], TaskOK(t)'
  PROVE  IInv'
BY OthersStay, TaskMoves, UsersStay

LEMMA IdleSignsOutNobody ==
  ASSUME NEW p \in Requests, task[p] = Idle
  PROVE  task[p].at # "signing out"
BY DEF Idle

LEMMA IdleOK == TaskOK(Idle)'
BY DEF TaskOK, Idle, Carrying

LEMMA DoneHolds ==
  ASSUME IInv, Grows, RowsMove, UNCHANGED userVars, NEW p \in Requests,
         task[p].at # "signing out", Done(p)
  PROVE  IInv'
BY IdleOK, StepHolds DEF Done, Goto

(***************************************************************************)
(* Asking for a code.                                                       *)
(***************************************************************************)
LEMMA GrantHolds ==
  ASSUME IInv, RowsMove, UNCHANGED <<userVars, codeVars>>,
         NEW p \in Requests, NEW wanted, NEW u \in Purposes, NEW h \in Phones, NEW id,
         task[p] = Idle,
         Grant(p, wanted, u, h, id), u = "reset" /\ wanted => account[h] # None
  PROVE  IInv'
<1>1. Grows
  BY NothingMinted DEF userVars, codeVars
<1>2. UNCHANGED userVars
  OBVIOUS
<1>3. CASE wanted
  <2>1. CASE UNCHANGED task
    BY <1>1, <1>2, <2>1, NothingMoves
  <2>2. ASSUME NEW t, t = throttle'[u][h],
               Goto(p, [at |-> "allowed", purpose |-> u, phone |-> h, id |-> id, seen |-> t])
        PROVE  IInv'
    <3>1. PICK w : w = [at |-> "allowed", purpose |-> u, phone |-> h, id |-> id, seen |-> t]
      OBVIOUS
    <3>2. TaskOK(w)'
      BY <1>1, <1>3, <3>1 DEF TaskOK, Carrying, Grows
    <3>3. task[p].at # "signing out"
      BY IdleSignsOutNobody
    <3> QED
      BY <1>1, <1>2, <2>2, <3>1, <3>2, <3>3, StepHolds DEF Goto
  <2> QED
    BY <2>1, <2>2 DEF Grant
<1>4. CASE ~wanted
  BY <1>1, <1>2, <1>4, NothingMoves DEF Grant
<1> QED
  BY <1>3, <1>4

LEMMA StartHolds ==
  ASSUME IInv, NEW p \in Requests, NEW h \in Phones,
         StartRegistration(p, h) \/ StartPasswordReset(p, h)
  PROVE  IInv'
<1>1. RowsMove /\ UNCHANGED <<userVars, codeVars>>
  BY SweepMoves DEF StartRegistration, StartPasswordReset, SweepExpiredOTPs
<1>2. CASE StartRegistration(p, h)
  BY <1>1, <1>2, GrantHolds DEF StartRegistration, Purposes
<1>3. CASE StartPasswordReset(p, h)
  BY <1>1, <1>3, GrantHolds DEF StartPasswordReset, Purposes
<1> QED
  BY <1>2, <1>3

LEMMA ResendHolds ==
  ASSUME IInv, NEW p \in Requests, NEW u \in Purposes, NEW h \in Phones, ResendOTP(p, u, h)
  PROVE  IInv'
<1>1. RowsMove /\ UNCHANGED <<userVars, codeVars>>
  BY SweepMoves DEF ResendOTP, SweepExpiredOTPs
<1>2. CASE Swept[u][h] = None
  <2>1. Grows
    BY <1>1, NothingMinted DEF userVars, codeVars
  <2> QED
    BY <1>1, <1>2, <2>1, NothingMoves DEF ResendOTP
<1>3. CASE Swept[u][h] # None
  <2>1. codes[u][h] # None
    BY <1>3 DEF Swept
  <2>2. u = "reset" => account[h] # None
    BY <2>1, StandingRow DEF RowOK
  <2> QED
    BY <1>1, <1>3, <2>2, GrantHolds DEF ResendOTP
<1> QED
  BY <1>2, <1>3

LEMMA WriteAllowanceHolds ==
  ASSUME IInv, NEW p \in Requests, WriteAllowance(p)
  PROVE  IInv'
<1>1. UNCHANGED <<codes, userVars, codeVars>> /\ UNCHANGED userVars
  BY DEF WriteAllowance
<1>2. Grows /\ RowsMove
  BY <1>1, NothingMinted, UnchangedMoves DEF userVars, codeVars
<1>3. PICK t : t = [at |-> IF task[p].id = None THEN "replacing" ELSE "refreshing",
                    purpose |-> task[p].purpose, phone |-> task[p].phone, id |-> task[p].id]
  OBVIOUS
<1>4. TaskOK(task[p]) /\ task[p].at \in Carrying /\ task[p].at # "signing out"
  BY DEF IInv, TasksOK, WriteAllowance, Carrying
<1>5. TaskOK(t)'
  BY <1>2, <1>3, <1>4 DEF TaskOK, Grows, Carrying
<1>6. Done(p) \/ Goto(p, t)
  BY <1>3 DEF WriteAllowance
<1> QED
  BY <1>1, <1>2, <1>4, <1>5, <1>6, DoneHolds, StepHolds DEF Goto

(***************************************************************************)
(* The row, then the message.                                               *)
(***************************************************************************)
LEMMA ReplaceHolds ==
  ASSUME IInv, NEW p \in Requests, Replace(p)
  PROVE  IInv'
<1>1. UNCHANGED <<throttle, userVars, codeVars>> /\ UNCHANGED userVars
  BY DEF Replace
<1>2. TaskOK(task[p]) /\ task[p].at \in Carrying /\ task[p].at # "signing out"
  BY DEF IInv, TasksOK, Replace, Carrying
<1>3. PICK u \in Purposes, h \in Phones : u = task[p].purpose /\ h = task[p].phone
  BY <1>2 DEF TaskOK
<1>4. Grows
  BY <1>1, NothingMinted DEF userVars, codeVars
<1>5. RowsMove
  BY <1>3, DeleteMoves DEF Replace
<1>6. PICK t : t = [at |-> "creating", purpose |-> u, phone |-> h, id |-> task[p].id]
  OBVIOUS
<1>7. TaskOK(t)'
  BY <1>2, <1>3, <1>4, <1>6 DEF TaskOK, Grows, Carrying
<1> QED
  BY <1>1, <1>2, <1>3, <1>4, <1>5, <1>6, <1>7, StepHolds DEF Replace, Goto

\* A new code and the sign-up it is sent for.
LEMMA MintGrows ==
  ASSUME IInv, CanMint, minted' = Fresh, NEW password \in Nat,
         signup' = [signup EXCEPT ![Fresh] = password], UNCHANGED account
  PROVE  /\ Grows
         /\ Fresh \in Nat /\ Fresh # Blank
         /\ minted' = Fresh /\ signup'[Fresh] = password
<1>1. /\ minted \in Nat /\ MaxMinted \in Nat /\ minted < MaxMinted
      /\ signup \in [0..MaxMinted -> Nat]
  BY AccountsAssumption DEF IInv, Types, CanMint
<1>2. Fresh \in 1..MaxMinted /\ Fresh = minted + 1
  BY <1>1 DEF Fresh
<1>3. signup' \in [0..MaxMinted -> Nat] /\ \A c \in 0..minted : signup'[c] = signup[c]
  BY <1>1, <1>2
<1> QED
  BY <1>1, <1>2, <1>3 DEF Grows, Blank

LEMMA CreateHolds ==
  ASSUME IInv, NEW p \in Requests, Create(p)
  PROVE  IInv'
<1>1. UNCHANGED userVars
  BY DEF Create
<1>2. TaskOK(task[p]) /\ task[p].at \in Carrying /\ task[p].at # "signing out"
  BY DEF IInv, TasksOK, Create, Carrying
<1>3. PICK u \in Purposes, h \in Phones : u = task[p].purpose /\ h = task[p].phone
  BY <1>2 DEF TaskOK
<1>4. CASE codes[u][h] # None
  <2>1. Grows /\ RowsMove
    BY <1>1, <1>3, <1>4, NothingMinted, UnchangedMoves DEF Create, userVars
  <2> QED
    BY <1>1, <1>2, <1>3, <1>4, <2>1, DoneHolds DEF Create
<1>5. CASE codes[u][h] = None
  <2>1. /\ CreateCode(u, h)
        /\ minted' = Fresh
        /\ signup' = [signup EXCEPT ![Fresh] = Fresh]
        /\ Goto(p, ToSend(p))
        /\ CanMint
    BY <1>3, <1>5 DEF Create
  <2>2. minted \in Nat /\ Fresh \in Nat
    BY AccountsAssumption DEF IInv, Types, Fresh
  <2>3. /\ Grows /\ Fresh # Blank
        /\ minted' = Fresh /\ signup'[Fresh] = Fresh
    BY <1>1, <2>1, <2>2, MintGrows DEF userVars
  <2>4. PICK row, n : n = Fresh /\ row = NewRow
    OBVIOUS
  <2>5. row = [id |-> n, code |-> n, arrived |-> FALSE, attempts |-> 0, expired |-> FALSE,
               password |-> n, token |-> None, tokenExpired |-> TRUE]
    BY <2>4 DEF NewRow
  <2>6. row \in Rows
    BY <2>2, <2>4, <2>5 DEF Rows
  <2>7. u = "reset" => account'[h] # None
    BY <1>1, <1>2, <1>3 DEF TaskOK, userVars
  <2>8. RowOK(u, h, row)'
    BY <2>2, <2>3, <2>4, <2>5, <2>6, <2>7 DEF RowOK
  <2>9. RowsMove
    BY <2>1, <2>4, <2>6, <2>8, SetMoves DEF CreateCode
  <2>10. PICK t : t = ToSend(p)
    OBVIOUS
  <2>11. TaskOK(t)'
    BY <1>1, <1>2, <1>3, <2>10 DEF TaskOK, ToSend, Carrying, userVars
  <2> QED
    BY <1>1, <1>2, <2>1, <2>3, <2>9, <2>10, <2>11, StepHolds DEF Goto
<1> QED
  BY <1>4, <1>5

LEMMA RefreshHolds ==
  ASSUME IInv, NEW p \in Requests, Refresh(p)
  PROVE  IInv'
<1>1. UNCHANGED userVars
  BY DEF Refresh
<1>2. TaskOK(task[p]) /\ task[p].at \in Carrying /\ task[p].at # "signing out"
  BY DEF IInv, TasksOK, Refresh, Carrying
<1>3. PICK u \in Purposes, h \in Phones, id \in {task[p].id} :
        u = task[p].purpose /\ h = task[p].phone /\ id = task[p].id
  BY <1>2 DEF TaskOK
<1>4. minted \in Nat /\ Fresh \in Nat
  BY AccountsAssumption DEF IInv, Types, Fresh
<1>5. PICK password : password = IF Stands(u, h, id) THEN codes[u][h].password ELSE Blank
  OBVIOUS
<1>6. password \in Nat
  BY <1>5, StandingRow DEF Stands, Rows, Blank
<1>7. /\ Grows /\ Fresh # Blank
      /\ minted' = Fresh /\ signup'[Fresh] = password
  BY <1>1, <1>3, <1>5, <1>6, MintGrows DEF Refresh, userVars
<1>8. RowsMove
  <2>1. CASE ~Stands(u, h, id)
    BY <1>3, <2>1, UnchangedMoves DEF Refresh, RefreshCode
  <2>2. CASE Stands(u, h, id)
    <3>1. PICK row, n, new :
            /\ row = codes[u][h] /\ n = Fresh
            /\ new = [row EXCEPT !.code = n, !.arrived = FALSE, !.attempts = 0,
                                 !.expired = FALSE, !.token = None, !.tokenExpired = TRUE]
      OBVIOUS
    <3>2. row \in Rows /\ RowOK(u, h, row)
      BY <2>2, <3>1, StandingRow DEF Stands
    <3>3. new \in Rows /\ new.code = n /\ new.password = row.password
      BY <1>4, <3>1, <3>2 DEF Rows
    <3>4. u = "reset" => account'[h] # None
      BY <1>1, <3>2 DEF RowOK, userVars
    <3>5. RowOK(u, h, new)'
      BY <1>4, <1>5, <1>7, <2>2, <3>1, <3>3, <3>4 DEF RowOK
    <3> QED
      BY <1>3, <2>2, <3>1, <3>3, <3>5, SetMoves DEF Refresh, RefreshCode
  <2> QED
    BY <2>1, <2>2
<1>9. PICK t : t = ToSend(p)
  OBVIOUS
<1>10. TaskOK(t)'
  BY <1>1, <1>2, <1>3, <1>9 DEF TaskOK, ToSend, Carrying, userVars
<1> QED
  BY <1>1, <1>2, <1>7, <1>8, <1>9, <1>10, StepHolds DEF Refresh, Goto

LEMMA SendCodeHolds ==
  ASSUME IInv, NEW p \in Requests, NEW ok \in BOOLEAN, NEW arrives \in BOOLEAN,
         SendCode(p, ok, arrives)
  PROVE  IInv'
<1>1. UNCHANGED <<throttle, userVars, codeVars>> /\ UNCHANGED userVars
  BY DEF SendCode
<1>2. TaskOK(task[p]) /\ task[p].at \in Carrying /\ task[p].at # "signing out"
  BY DEF IInv, TasksOK, SendCode, Carrying
<1>3. PICK u \in Purposes, h \in Phones : u = task[p].purpose /\ h = task[p].phone
  BY <1>2 DEF TaskOK
<1>4. Grows
  BY <1>1, NothingMinted DEF userVars, codeVars
<1>5. RowsMove
  <2>1. CASE DeleteByPhone(u, h)
    BY <2>1, DeleteMoves
  <2>2. CASE UNCHANGED codes
    BY <2>2, UnchangedMoves
  <2>3. CASE codes[u][h] # None /\ Set(u, h, [codes[u][h] EXCEPT !.arrived = TRUE])
    <3>1. PICK row, new : row = codes[u][h] /\ new = [row EXCEPT !.arrived = TRUE]
      OBVIOUS
    <3>2. RowOK(u, h, row) /\ row \in Rows
      BY <2>3, <3>1, StandingRow
    <3>3. RowOK(u, h, row)'
      BY <1>4, <3>2, RowStays DEF IInv
    <3>4. new \in Rows /\ RowOK(u, h, new)'
      BY <3>1, <3>2, <3>3 DEF RowOK, Rows
    <3> QED
      BY <2>3, <3>1, <3>4, SetMoves
  <2> QED
    BY <1>3, <2>1, <2>2, <2>3 DEF SendCode
<1> QED
  BY <1>1, <1>2, <1>4, <1>5, DoneHolds DEF SendCode

(***************************************************************************)
(* Verifying.                                                               *)
(***************************************************************************)
LEMMA ReadCodeHolds ==
  ASSUME IInv, NEW p \in Requests, NEW u \in Purposes, NEW h \in Phones, NEW right \in BOOLEAN,
         ReadCode(p, u, h, right)
  PROVE  IInv'
<1>1. UNCHANGED <<rowVars, userVars, codeVars>> /\ UNCHANGED userVars
  BY DEF ReadCode
<1>2. Grows /\ RowsMove
  BY <1>1, NothingMinted, UnchangedMoves DEF rowVars, userVars, codeVars
<1>3. PICK row : row = codes[u][h]
  OBVIOUS
<1>4. RowOK(u, h, row)
  BY <1>3, StandingRow DEF ReadCode, GetCodeByPhone
<1>5. RowOK(u, h, row)'
  BY <1>2, <1>4, RowStays DEF IInv
<1>6. PICK t : t = [at |-> "checking", purpose |-> u, phone |-> h, right |-> right, row |-> row]
  OBVIOUS
<1>7. TaskOK(t)'
  BY <1>5, <1>6 DEF TaskOK, RowOK, Carrying
<1>8. task[p].at # "signing out"
  BY IdleSignsOutNobody DEF ReadCode
<1> QED
  BY <1>1, <1>2, <1>3, <1>6, <1>7, <1>8, StepHolds DEF ReadCode, GetCodeByPhone, Goto

\* What a check has in hand.
LEMMA Checking ==
  ASSUME IInv, NEW p \in Requests, task[p].at = "checking"
  PROVE  /\ task[p].purpose \in Purposes
         /\ task[p].phone \in Phones
         /\ RowOK(task[p].purpose, task[p].phone, task[p].row)
BY DEF IInv, TasksOK, TaskOK, Carrying

\* Accounts and sessions that changed.
LEMMA UsersMove ==
  ASSUME IInv, Grows, RowsMove, TasksOK', task' = [q \in Requests |-> task'[q]],
         account' \in [Phones -> UserRecords \cup {None}], sessions' \in SUBSET Sessions,
         Owned', SessionsOK'
  PROVE  IInv'
<1>1. minted' \in 0..MaxMinted /\ signup'[Blank] = Blank
  BY AccountsAssumption DEF IInv, Types, Grows, Blank
<1>2. Types'
  BY <1>1 DEF Types, Grows, RowsMove
<1> QED
  BY <1>2, RowsStay DEF IInv

LEMMA VerifyRegistrationHolds ==
  ASSUME IInv, NEW p \in Requests, task[p].at = "checking", VerifyRegistration(p)
  PROVE  IInv'
<1>1. PICK h, row : h = task[p].phone /\ row = task[p].row
  OBVIOUS
<1>2. h \in Phones /\ RowOK("register", h, row) /\ "register" \in Purposes
  BY <1>1, Checking DEF VerifyRegistration, Purposes
<1>3. UNCHANGED <<sessions, codeVars>>
  BY DEF VerifyRegistration
<1>4. RowsMove
  BY <1>1, <1>2, DeleteMoves, UnchangedMoves DEF VerifyRegistration
<1>5. CASE account[h] # None
  <2>1. UNCHANGED userVars /\ Done(p)
    BY <1>1, <1>3, <1>5 DEF VerifyRegistration, userVars
  <2>2. Grows
    BY <1>3, <2>1, NothingMinted DEF userVars, codeVars
  <2> QED
    BY <1>4, <2>1, <2>2, DoneHolds
<1>6. CASE account[h] = None
  <2>1. PICK user : user = [code |-> row.code, signed |-> row.password, password |-> row.password]
    OBVIOUS
  <2>2. account' = [account EXCEPT ![h] = user] /\ Goto(p, SigningIn(h, row.password))
    BY <1>1, <1>6, <2>1 DEF VerifyRegistration, CreateUser
  <2>3. row.code \in Nat /\ row.password \in Nat
    BY <1>2 DEF RowOK, Rows
  <2>4. user \in UserRecords /\ user # None
    BY <2>1, <2>3, AccountsAssumption DEF UserRecords
  <2>5. /\ account' \in [Phones -> UserRecords \cup {None}]
        /\ account'[h] = user
        /\ \A k \in Phones \ {h} : account'[k] = account[k]
    BY <1>2, <2>2, <2>4 DEF IInv, Types
  <2>6. Grows
    <3>1. \A k \in Phones : account[k] # None => account'[k] # None
      BY <2>4, <2>5
    <3> QED
      BY <1>3, <3>1, AccountsAssumption DEF Grows, IInv, Types, codeVars
  <2>7. PICK t : t = SigningIn(h, row.password)
    OBVIOUS
  <2>8. TaskOK(t)'
    BY <1>2, <2>3, <2>4, <2>5, <2>7 DEF TaskOK, SigningIn, Carrying
  <2>9. TasksOK' /\ task' = [q \in Requests |-> task'[q]]
    BY <2>2, <2>6, <2>7, <2>8, TaskMoves DEF Goto
  <2>10. Owned'
    <3> SUFFICES ASSUME NEW k \in Phones, account'[k] # None
                 PROVE  /\ account'[k].code <= minted
                        /\ account'[k].signed = signup[account'[k].code]
      BY <1>3 DEF Owned, codeVars
    <3>1. CASE k = h
      BY <1>2, <2>1, <2>5, <3>1 DEF RowOK
    <3>2. CASE k # h
      BY <2>5, <3>2 DEF IInv, Owned
    <3> QED
      BY <3>1, <3>2
  <2>11. SessionsOK'
    <3>1. \A s \in sessions : s.phone \in Phones \ {h}
      BY <1>6 DEF IInv, Types, Sessions, SessionsOK
    <3>2. EndingsStay
      BY <2>2, OthersStay DEF Goto
    <3> QED
      BY <1>3, <2>5, <3>1, <3>2, EndedStill DEF IInv, SessionsOK
  <2>12. sessions' \in SUBSET Sessions
    BY <1>3 DEF IInv, Types
  <2> QED
    BY <1>4, <2>5, <2>6, <2>9, <2>10, <2>11, <2>12, UsersMove
<1> QED
  BY <1>5, <1>6

LEMMA CheckCodeHolds ==
  ASSUME IInv, NEW p \in Requests, CheckCode(p)
  PROVE  IInv'
<1>1. PICK u \in Purposes, h \in Phones, row \in {task[p].row} :
        /\ u = task[p].purpose /\ h = task[p].phone /\ row = task[p].row
        /\ RowOK(u, h, row)
        /\ task[p].at = "checking"
  BY Checking DEF CheckCode
<1>2. ASSUME UNCHANGED <<userVars, minted, signup>>, Done(p), RowsMove PROVE IInv'
  <2>1. Grows
    BY <1>2, NothingMinted DEF userVars
  <2> QED
    BY <1>1, <1>2, <2>1, DoneHolds
<1>3. CASE CodeExpired(p)
  BY <1>1, <1>2, <1>3, DeleteMoves DEF CodeExpired, codeVars
<1>4. CASE CodeBurned(p)
  BY <1>2, <1>4, UnchangedMoves DEF CodeBurned, codeVars
<1>5. CASE CodeWrong(p)
  <2>1. Grows
    BY <1>5, NothingMinted DEF CodeWrong, userVars
  <2> QED
    BY <1>1, <1>2, <1>5, <2>1, IncrementMoves DEF CodeWrong
<1>6. CASE VerifyRegistration(p)
  BY <1>1, <1>6, VerifyRegistrationHolds
<1>7. CASE VerifyResetOTP(p)
  <2>1. Grows
    BY <1>7, NothingMinted DEF VerifyResetOTP, userVars, codeVars
  <2>2. RowsMove
    <3>1. CASE ~Stands("reset", h, row.id)
      BY <1>1, <1>7, <3>1, UnchangedMoves DEF VerifyResetOTP, SetPasswordResetToken
    <3>2. CASE Stands("reset", h, row.id)
      <4>1. PICK old, new :
              /\ old = codes["reset"][h]
              /\ new = [old EXCEPT !.code = Blank, !.expired = TRUE,
                                   !.token = row.code, !.tokenExpired = FALSE]
        OBVIOUS
      <4>2. "reset" \in Purposes
        BY DEF Purposes
      <4>3. old \in Rows /\ RowOK("reset", h, old)
        BY <3>2, <4>1, <4>2, StandingRow DEF Stands
      <4>4. RowOK("reset", h, old)'
        BY <2>1, <4>2, <4>3, RowStays DEF IInv
      <4>5. row.code \in Nat
        BY <1>1 DEF RowOK, Rows
      <4>6. new \in Rows /\ new.code = Blank
        BY <4>1, <4>3, <4>5 DEF Rows, Blank
      <4>7. minted' \in Nat
        BY <2>1, AccountsAssumption DEF Grows, IInv, Types
      <4>8. RowOK("reset", h, new)'
        BY <4>4, <4>6, <4>7 DEF RowOK, Blank
      <4> QED
        BY <1>1, <1>7, <3>2, <4>1, <4>2, <4>6, <4>8, SetMoves
        DEF VerifyResetOTP, SetPasswordResetToken
    <3> QED
      BY <3>1, <3>2
  <2> QED
    BY <1>2, <1>7, <2>2 DEF VerifyResetOTP, codeVars
<1> QED
  BY <1>3, <1>4, <1>5, <1>6, <1>7 DEF CheckCode

(***************************************************************************)
(* Resetting, logging in, changing the password.                            *)
(***************************************************************************)
LEMMA ReadTokenHolds ==
  ASSUME IInv, NEW p \in Requests, NEW h \in Phones, ReadToken(p, h)
  PROVE  IInv'
<1>1. UNCHANGED <<throttle, userVars, codeVars>> /\ UNCHANGED userVars
  BY DEF ReadToken
<1>2. Grows
  BY <1>1, NothingMinted DEF userVars, codeVars
<1>3. PICK row : row = codes["reset"][h]
  OBVIOUS
<1>4. "reset" \in Purposes
  BY DEF Purposes
<1>5. row \in Rows /\ RowOK("reset", h, row) /\ row.token # None
  BY <1>3, <1>4, StandingRow DEF ReadToken
<1>6. CASE row.tokenExpired
  <2>1. DeleteByPhone("reset", h) /\ UNCHANGED task
    BY <1>3, <1>6 DEF ReadToken
  <2> QED
    BY <1>1, <1>2, <1>4, <2>1, DeleteMoves, NothingMoves
<1>7. CASE ~row.tokenExpired
  <2>1. PICK t : t = [at |-> "resetting", phone |-> h, row |-> row]
    OBVIOUS
  <2>2. Goto(p, t) /\ UNCHANGED codes
    BY <1>3, <1>7, <2>1 DEF ReadToken
  <2>3. row.token \in Nat /\ account[h] # None
    BY <1>5 DEF Rows, RowOK
  <2>4. TaskOK(t)'
    BY <1>2, <2>1, <2>3 DEF TaskOK, Carrying, Grows
  <2>5. task[p].at # "signing out"
    BY IdleSignsOutNobody DEF ReadToken
  <2> QED
    BY <1>1, <1>2, <2>2, <2>4, <2>5, UnchangedMoves, StepHolds DEF Goto
<1> QED
  BY <1>6, <1>7

\* A new password leaves the rest of the account as it was.
LEMMA NewPassword ==
  ASSUME IInv, NEW h \in Phones, account[h] # None, NEW password \in Nat,
         UpdateUserPassword(h, password), minted' \in minted..MaxMinted, UNCHANGED signup
  PROVE  /\ account' \in [Phones -> UserRecords \cup {None}]
         /\ account'[h].password = password
         /\ \A k \in Phones \ {h} : account'[k] = account[k]
         /\ Grows
         /\ Owned'
<1>1. PICK old, new : old = account[h] /\ new = [old EXCEPT !.password = password]
  OBVIOUS
<1>2. old \in UserRecords
  BY <1>1 DEF IInv, Types
<1>3. /\ new \in UserRecords /\ new # None
      /\ new.code = old.code /\ new.signed = old.signed /\ new.password = password
  BY <1>1, <1>2, AccountsAssumption DEF UserRecords
<1>4. account' = [account EXCEPT ![h] = new]
  BY <1>1 DEF UpdateUserPassword
<1>5. /\ account' \in [Phones -> UserRecords \cup {None}]
      /\ account'[h] = new
      /\ \A k \in Phones \ {h} : account'[k] = account[k]
  BY <1>3, <1>4 DEF IInv, Types
<1>6. Grows
  <2>1. \A k \in Phones : account[k] # None => account'[k] # None
    BY <1>3, <1>5
  <2> QED
    BY <2>1 DEF Grows, IInv, Types
<1>7. Owned'
  <2> SUFFICES ASSUME NEW k \in Phones, account'[k] # None
               PROVE  /\ account'[k].code <= minted'
                      /\ account'[k].signed = signup[account'[k].code]
    BY DEF Owned
  <2>1. minted \in Nat /\ minted' \in Nat /\ minted <= minted'
    BY AccountsAssumption DEF IInv, Types
  <2>2. /\ account[k] # None
        /\ account'[k].code = account[k].code /\ account'[k].signed = account[k].signed
    BY <1>1, <1>3, <1>5
  <2>3. account[k].code \in Nat
    BY <2>2 DEF IInv, Types, UserRecords
  <2> QED
    BY <2>1, <2>2, <2>3 DEF IInv, Owned
<1> QED
  BY <1>3, <1>5, <1>6, <1>7

LEMMA ResetPasswordHolds ==
  ASSUME IInv, NEW p \in Requests, ResetPassword(p)
  PROVE  IInv'
<1>1. PICK h, password : h = task[p].phone /\ password = task[p].row.token
  OBVIOUS
<1>2. h \in Phones /\ account[h] # None /\ password \in Nat
  BY <1>1 DEF IInv, TasksOK, TaskOK, ResetPassword
<1>3. /\ UpdateUserPassword(h, password)
      /\ sessions' = {s \in sessions : s.phone # h}
      /\ UNCHANGED codeVars
      /\ Goto(p, SigningIn(h, password))
  BY <1>1 DEF ResetPassword, ResetAccount, DeleteSessionTokensByUser
<1>4. /\ account' \in [Phones -> UserRecords \cup {None}]
      /\ \A k \in Phones \ {h} : account'[k] = account[k]
      /\ Grows /\ Owned'
  <2>1. minted' \in minted..MaxMinted /\ UNCHANGED signup
    BY <1>3, AccountsAssumption DEF IInv, Types, codeVars
  <2> QED
    BY <1>2, <1>3, <2>1, NewPassword
<1>5. RowsMove
  BY <1>1, <1>2, DeleteMoves DEF ResetPassword, Purposes
<1>6. PICK t : t = SigningIn(h, password)
  OBVIOUS
<1>7. TaskOK(t)'
  BY <1>2, <1>4, <1>6 DEF TaskOK, SigningIn, Carrying, Grows
<1>8. TasksOK' /\ task' = [q \in Requests |-> task'[q]]
  BY <1>3, <1>4, <1>6, <1>7, TaskMoves DEF Goto
<1>9. sessions' \in SUBSET Sessions
  BY <1>3 DEF IInv, Types
<1>10. SessionsOK'
  <2>1. \A s \in sessions' : s.phone \in Phones \ {h} /\ s \in sessions
    BY <1>3 DEF IInv, Types, Sessions
  <2>2. EndingsStay
    BY <1>3, OthersStay DEF ResetPassword, Goto
  <2> QED
    BY <1>3, <1>4, <2>1, <2>2, EndedStill DEF IInv, SessionsOK
<1> QED
  BY <1>4, <1>5, <1>8, <1>9, <1>10, UsersMove

LEMMA LoginHolds ==
  ASSUME IInv, NEW p \in Requests, NEW h \in Phones, Login(p, h)
  PROVE  IInv'
<1>1. UNCHANGED <<rowVars, userVars, codeVars>> /\ UNCHANGED userVars
  BY DEF Login
<1>2. Grows /\ RowsMove
  BY <1>1, NothingMinted, UnchangedMoves DEF rowVars, userVars, codeVars
<1>3. PICK t : t = SigningIn(h, account[h].password)
  OBVIOUS
<1>4. account[h] # None /\ account[h].password \in Nat
  BY DEF Login, IInv, Types, UserRecords
<1>5. TaskOK(t)'
  BY <1>2, <1>3, <1>4 DEF TaskOK, SigningIn, Carrying, Grows
<1>6. task[p].at # "signing out"
  BY IdleSignsOutNobody DEF Login
<1> QED
  BY <1>1, <1>2, <1>3, <1>5, <1>6, StepHolds DEF Login, Goto

LEMMA IssueSessionHolds ==
  ASSUME IInv, NEW p \in Requests, IssueSession(p)
  PROVE  IInv'
<1>1. UNCHANGED <<rowVars, account, codeVars>>
  BY DEF IssueSession
<1>2. Grows /\ RowsMove
  BY <1>1, NothingMinted, UnchangedMoves DEF rowVars, codeVars
<1>3. TasksOK' /\ task' = [q \in Requests |-> task'[q]]
  BY <1>2, IdleOK, TaskMoves DEF IssueSession, Done, Goto
<1>4. EndingsStay
  BY OthersStay DEF IssueSession, Done, Goto
<1>5. PICK h \in Phones, password \in Nat :
        h = task[p].phone /\ password = task[p].password /\ account[h] # None
  BY DEF IInv, TasksOK, TaskOK, IssueSession
<1>6. PICK by \in {account[h].password, None} :
        by = IF password = account[h].password THEN password ELSE None
  OBVIOUS
<1>7. by \in Nat \cup {None}
  BY <1>5, <1>6
<1>8. \A s \in sessions' : s \in sessions \/ \E k \in Tokens : s = [token |-> k, phone |-> h, by |-> by]
  BY <1>5, <1>6 DEF IssueSession, CreateSessionToken, NewTokens
<1>9. sessions' \in SUBSET Sessions
  BY <1>7, <1>8 DEF IInv, Types, Sessions
<1>10. SessionsOK'
  <2> SUFFICES ASSUME NEW s \in sessions'
               PROVE  /\ account[s.phone] # None
                      /\ \/ s.by \in {account[s.phone].password, None}
                         \/ \E q \in Requests : EndedBy(q, s)'
    BY <1>1 DEF SessionsOK
  <2>1. CASE s \in sessions
    BY <1>4, <2>1, EndedStill DEF IInv, SessionsOK
  <2>2. CASE s \notin sessions
    BY <1>5, <1>6, <1>8, <2>2
  <2> QED
    BY <2>1, <2>2
<1>11. Owned' /\ account' \in [Phones -> UserRecords \cup {None}]
  BY <1>1 DEF IInv, Types, Owned, codeVars
<1> QED
  BY <1>2, <1>3, <1>9, <1>10, <1>11, UsersMove

LEMMA CheckPasswordHolds ==
  ASSUME IInv, NEW p \in Requests, NEW s \in sessions, CheckPassword(p, s)
  PROVE  IInv'
<1>1. UNCHANGED <<rowVars, userVars, codeVars>> /\ UNCHANGED userVars
  BY DEF CheckPassword
<1>2. Grows /\ RowsMove
  BY <1>1, NothingMinted, UnchangedMoves DEF rowVars, userVars, codeVars
<1>3. PICK t : t = [at |-> "changing", phone |-> s.phone, own |-> s.token]
  OBVIOUS
<1>4. s.phone \in Phones /\ account[s.phone] # None
  BY DEF IInv, Types, Sessions, SessionsOK
<1>5. TaskOK(t)'
  BY <1>2, <1>3, <1>4 DEF TaskOK, Carrying, Grows
<1>6. task[p].at # "signing out"
  BY IdleSignsOutNobody DEF CheckPassword
<1> QED
  BY <1>1, <1>2, <1>3, <1>5, <1>6, StepHolds DEF CheckPassword, Goto

\* A password minted now.
LEMMA FreshPassword ==
  ASSUME IInv, CanMint
  PROVE  Fresh \in minted..MaxMinted /\ Fresh \in Nat
<1>1. MaxMinted \in Nat
  BY AccountsAssumption
<1>2. minted \in 0..MaxMinted
  BY DEF IInv, Types
<1> QED
  BY <1>1, <1>2 DEF Fresh, CanMint

\* The sessions that did not ask are about to be signed out.
LEMMA ChangePasswordHolds ==
  ASSUME IInv, NEW p \in Requests, ChangePassword(p)
  PROVE  IInv'
<1>a. task[p].phone \in Phones /\ account[task[p].phone] # None
  BY DEF IInv, TasksOK, TaskOK, ChangePassword
<1>b. Fresh \in minted..MaxMinted /\ Fresh \in Nat
  BY FreshPassword DEF ChangePassword
<1>1. PICK h \in Phones, n \in Nat, own \in {task[p].own} :
        /\ h = task[p].phone /\ own = task[p].own /\ n = Fresh
        /\ account[h] # None /\ n \in minted..MaxMinted
  BY <1>a, <1>b
<1>2. PICK t : t = [at |-> "signing out", phone |-> h, own |-> own]
  OBVIOUS
<1>3. /\ UpdateUserPassword(h, n) /\ minted' = n
      /\ sessions' = {IF s.phone = h /\ s.token = own THEN [s EXCEPT !.by = n] ELSE s : s \in sessions}
      /\ UNCHANGED <<rowVars, signup, tried>>
      /\ task' = [task EXCEPT ![p] = t]
  BY <1>1, <1>2 DEF ChangePassword, Goto
<1>4. /\ account' \in [Phones -> UserRecords \cup {None}]
      /\ account'[h].password = n
      /\ \A k \in Phones \ {h} : account'[k] = account[k]
      /\ Grows /\ Owned'
  BY <1>1, <1>3, NewPassword
<1>5. RowsMove
  BY <1>3, UnchangedMoves DEF rowVars
<1>6. TaskOK(t)'
  BY <1>1, <1>2, <1>4 DEF TaskOK, Carrying, Grows
<1>7. TasksOK' /\ task' = [q \in Requests |-> task'[q]]
  BY <1>3, <1>4, <1>6, TaskMoves
<1>8. \A s \in sessions' :
        \/ s \in sessions /\ (s.phone # h \/ s.token # own)
        \/ s \in Sessions /\ s.phone = h /\ s.by = n
  <2> SUFFICES ASSUME NEW r \in sessions, r.phone = h, r.token = own
               PROVE  [r EXCEPT !.by = n] \in Sessions /\ [r EXCEPT !.by = n].phone = h
                      /\ [r EXCEPT !.by = n].by = n
    BY <1>3
  <2>1. r \in Sessions
    BY DEF IInv, Types
  <2> QED
    BY <2>1 DEF Sessions
<1>9. sessions' \in SUBSET Sessions
  BY <1>8 DEF IInv, Types
<1>10. EndingsStay
  BY <1>3, OthersStay DEF ChangePassword
<1>11. \A s : s.phone = h /\ s.token # own => EndedBy(p, s)'
  BY <1>2, <1>3 DEF EndedBy, IInv, Types
<1>12. SessionsOK'
  <2> SUFFICES ASSUME NEW s \in sessions'
               PROVE  /\ account'[s.phone] # None
                      /\ \/ s.by \in {account'[s.phone].password, None}
                         \/ \E q \in Requests : EndedBy(q, s)'
    BY DEF SessionsOK
  <2>1. CASE s.phone = h
    BY <1>1, <1>4, <1>8, <1>11, <2>1 DEF Grows
  <2>2. CASE s.phone # h
    <3>1. s \in sessions /\ s.phone \in Phones \ {h}
      BY <1>8, <1>9, <2>2 DEF Sessions
    <3> QED
      BY <1>4, <1>10, <3>1, EndedStill DEF IInv, SessionsOK
  <2> QED
    BY <2>1, <2>2
<1> QED
  BY <1>4, <1>5, <1>7, <1>9, <1>12, UsersMove

\* A session that is spared keeps its owner, and is excused if it has to be.
LEMMA SparedSession ==
  ASSUME NEW s \in Sessions
  PROVE  /\ Spare(s) \in Sessions /\ Spare(s).phone = s.phone
         /\ Spare(s).by \in {account'[s.phone].password, None}
BY DEF Spare, Sessions

LEMMA SignOutOthersHolds ==
  ASSUME IInv, NEW p \in Requests, SignOutOthers(p)
  PROVE  IInv'
<1>1. UNCHANGED <<rowVars, account, codeVars>>
  BY DEF SignOutOthers
<1>2. Grows /\ RowsMove
  BY <1>1, NothingMinted, UnchangedMoves DEF rowVars, codeVars
<1>3. TasksOK' /\ task' = [q \in Requests |-> task'[q]]
  BY <1>2, IdleOK, TaskMoves DEF SignOutOthers, Done, Goto
<1>4. \A q \in Requests \ {p} : task'[q] = task[q]
  BY DEF SignOutOthers, Done, Goto, IInv, Types
<1>5. \A s \in sessions' :
        \/ s \in sessions /\ ~EndedBy(p, s)
        \/ \E r \in sessions : s = Spare(r)
  BY DEF SignOutOthers, DeleteOtherSessionTokens
<1>6. sessions' \in SUBSET Sessions
  BY <1>5, SparedSession DEF IInv, Types
<1>7. SessionsOK'
  <2> SUFFICES ASSUME NEW s \in sessions'
               PROVE  /\ account[s.phone] # None
                      /\ \/ s.by \in {account[s.phone].password, None}
                         \/ \E q \in Requests : EndedBy(q, s)'
    BY <1>1 DEF SessionsOK
  <2>1. CASE s \in sessions /\ ~EndedBy(p, s)
    BY <1>4, <2>1 DEF IInv, SessionsOK, EndedBy
  <2>2. ASSUME NEW r \in sessions, s = Spare(r)
        PROVE  account[s.phone] # None /\ s.by \in {account[s.phone].password, None}
    BY <1>1, <2>2, SparedSession DEF IInv, Types, SessionsOK
  <2> QED
    BY <1>5, <2>1, <2>2
<1>8. Owned' /\ account' \in [Phones -> UserRecords \cup {None}]
  BY <1>1 DEF IInv, Types, Owned, codeVars
<1> QED
  BY <1>2, <1>3, <1>6, <1>7, <1>8, UsersMove

LEMMA LogoutHolds ==
  ASSUME IInv, NEW s \in sessions, Logout(s)
  PROVE  IInv'
<1>1. UNCHANGED <<rowVars, account, codeVars, task>> /\ sessions' = sessions \ {s}
  BY DEF Logout
<1>2. Grows /\ RowsMove
  BY <1>1, NothingMinted, UnchangedMoves DEF rowVars, codeVars
<1>3. SessionsOK' /\ Owned' /\ sessions' \in SUBSET Sessions
      /\ account' \in [Phones -> UserRecords \cup {None}]
  BY <1>1 DEF IInv, Types, SessionsOK, EndedBy, Owned, codeVars
<1> QED
  BY <1>1, <1>2, <1>3, TasksStay, UsersMove

(***************************************************************************)
(* Time, the process, and every step together.                              *)
(***************************************************************************)
LEMMA ExpireCodeHolds ==
  ASSUME IInv, NEW u \in Purposes, NEW h \in Phones, ExpireCode(u, h)
  PROVE  IInv'
<1>1. UNCHANGED <<throttle, userVars, codeVars, task>> /\ UNCHANGED userVars
  BY DEF ExpireCode
<1>2. Grows
  BY <1>1, NothingMinted DEF userVars, codeVars
<1>3. PICK row : row = codes[u][h]
  OBVIOUS
<1>4. row \in Rows /\ RowOK(u, h, row)
  BY <1>3, StandingRow DEF ExpireCode
<1>5. RowOK(u, h, row)'
  BY <1>2, <1>4, RowStays DEF IInv
<1>6. PICK new \in {[row EXCEPT !.expired = TRUE], [row EXCEPT !.tokenExpired = TRUE]} :
        Set(u, h, new)
  BY <1>3 DEF ExpireCode
<1>7. new \in Rows /\ RowOK(u, h, new)'
  BY <1>4, <1>5, <1>6 DEF RowOK, Rows
<1>8. RowsMove
  BY <1>6, <1>7, SetMoves
<1> QED
  BY <1>1, <1>2, <1>8, NothingMoves

\* A start that writes the password of the accounts at the phones in "seeded".
LEMMA StartSpares ==
  ASSUME IInv, NEW seeded,
         sessions' = {IF (\E q \in Requests : EndedBy(q, s)) \/ s.phone \in seeded
                      THEN Spare(s) ELSE s : s \in sessions},
         \A k \in Phones : account[k] # None => account'[k] # None,
         \A k \in Phones \ seeded : account'[k] = account[k]
  PROVE  sessions' \in SUBSET Sessions /\ SessionsOK'
<1>1. \A s \in sessions :
        s \in Sessions /\ s.phone \in Phones /\ account'[s.phone] # None
  BY DEF IInv, Types, Sessions, SessionsOK
<1>2. ASSUME NEW s \in sessions, ~\E q \in Requests : EndedBy(q, s), s.phone \notin seeded
      PROVE  s.by \in {account'[s.phone].password, None}
  BY <1>1, <1>2 DEF IInv, SessionsOK
<1>3. \A s \in sessions' :
        \/ s \in sessions /\ s.by \in {account'[s.phone].password, None}
        \/ \E r \in sessions : s = Spare(r)
  BY <1>2
<1>4. \A s \in sessions' :
        /\ s \in Sessions /\ account'[s.phone] # None
        /\ s.by \in {account'[s.phone].password, None}
  BY <1>1, <1>3, SparedSession
<1> QED
  BY <1>4 DEF SessionsOK

LEMMA RestartHolds ==
  ASSUME IInv, Restart
  PROVE  IInv'
<1>1. UNCHANGED <<rowVars, signup, tried>> /\ task' = [p \in Requests |-> Idle]
  BY DEF Restart
<1>2. RowsMove
  BY <1>1, UnchangedMoves DEF rowVars
<1>3. TasksOK' /\ task' = [q \in Requests |-> task'[q]]
  BY <1>1 DEF TasksOK, TaskOK, Idle, Carrying
<1>4. CASE /\ UNCHANGED <<account, minted>>
           /\ sessions' = {IF \E q \in Requests : EndedBy(q, s) THEN Spare(s) ELSE s : s \in sessions}
  <2>1. Grows /\ Owned' /\ account' \in [Phones -> UserRecords \cup {None}]
    BY <1>1, <1>4, NothingMinted DEF IInv, Types, Owned
  <2>2. sessions' \in SUBSET Sessions /\ SessionsOK'
    <3>1. PICK seeded : seeded = {}
      OBVIOUS
    <3>2. sessions' = {IF (\E q \in Requests : EndedBy(q, s)) \/ s.phone \in seeded
                       THEN Spare(s) ELSE s : s \in sessions}
      BY <1>4, <3>1
    <3>3. \A k \in Phones : account'[k] = account[k]
      BY <1>4
    <3> QED
      BY <3>2, <3>3, StartSpares
  <2> QED
    BY <1>2, <1>3, <2>1, <2>2, UsersMove
<1>5. ASSUME NEW h \in Phones, account[h] # None,
             \/ EnsureAdminUser(h, Blank) /\ UNCHANGED minted
             \/ CanMint /\ EnsureAdminUser(h, Fresh) /\ minted' = Fresh,
             sessions' = {IF (\E q \in Requests : EndedBy(q, s)) \/ s.phone = h
                          THEN Spare(s) ELSE s : s \in sessions}
      PROVE  IInv'
  <2>1. PICK password \in Nat : UpdateUserPassword(h, password) /\ minted' \in minted..MaxMinted
    BY <1>5, FreshPassword, AccountsAssumption DEF EnsureAdminUser, Blank, IInv, Types
  <2>2. /\ account' \in [Phones -> UserRecords \cup {None}]
        /\ \A k \in Phones \ {h} : account'[k] = account[k]
        /\ Grows /\ Owned'
    BY <1>1, <1>5, <2>1, NewPassword
  <2>3. sessions' \in SUBSET Sessions /\ SessionsOK'
    <3>1. sessions' = {IF (\E q \in Requests : EndedBy(q, s)) \/ s.phone \in {h}
                       THEN Spare(s) ELSE s : s \in sessions}
      BY <1>5
    <3> QED
      BY <2>2, <3>1, StartSpares DEF Grows
  <2> QED
    BY <1>2, <1>3, <2>2, <2>3, UsersMove
<1> QED
  BY <1>4, <1>5 DEF Restart

LEMMA NextHolds ==
  ASSUME IInv, [Next]_vars
  PROVE  IInv'
<1>1. ASSUME UNCHANGED <<codes, userVars, minted, signup, task>> PROVE IInv'
  <2>1. Grows /\ RowsMove /\ UNCHANGED userVars
    BY <1>1, NothingMinted, UnchangedMoves DEF userVars
  <2> QED
    BY <1>1, <2>1, NothingMoves
<1>2. ASSUME NEW u \in Purposes, NEW h \in Phones, PassTime(u, h) PROVE IInv'
  BY <1>1, <1>2 DEF PassTime, codeVars
<1>3. CASE UNCHANGED vars
  BY <1>1, <1>3 DEF vars, rowVars, codeVars
<1> QED
  BY <1>2, <1>3, StartHolds, ReadTokenHolds, LoginHolds, ResendHolds, WriteAllowanceHolds,
     ReplaceHolds, CreateHolds, RefreshHolds, SendCodeHolds, ReadCodeHolds, CheckCodeHolds,
     ResetPasswordHolds, IssueSessionHolds, CheckPasswordHolds, ChangePasswordHolds,
     SignOutOthersHolds, LogoutHolds, ExpireCodeHolds, RestartHolds
  DEF Next

(***************************************************************************)
(* An account's first password was chosen in the sign-up its code was sent  *)
(* for, however many sign-ups, resends and guesses for that phone overlap   *)
(* (VerifyRegistration).                                                    *)
(***************************************************************************)
THEOREM AccountsBelongToTheirSignUps == Spec => []AccountsAreTheirOwners
<1>1. IInv /\ [Next]_vars => IInv'
  BY NextHolds
<1>2. IInv => AccountsAreTheirOwners
  BY DEF IInv, Owned, AccountsAreTheirOwners
<1> QED
  BY InitHolds, <1>1, <1>2, PTL DEF Spec

(***************************************************************************)
(* After a reset or a change of the password no session stands that proved  *)
(* an older one, but while its sign-out is under way and for the three      *)
(* cases SessionsKnowThePassword names (ResetPassword, SetPassword,         *)
(* issueSession, EnsureAdminUser).                                          *)
(***************************************************************************)
THEOREM SessionsProvedThePassword == Spec => []SessionsKnowThePassword
<1>1. IInv /\ [Next]_vars => IInv'
  BY NextHolds
<1>2. IInv => SessionsKnowThePassword
  BY DEF IInv, SessionsOK, SessionsKnowThePassword
<1> QED
  BY InitHolds, <1>1, <1>2, PTL DEF Spec

(***************************************************************************)
(* Messages.  A phone's requests that wait to write its allowance all read  *)
(* it in the same state, since no time passes for it meanwhile: whichever   *)
(* writes, and however often, the count it writes is the same.  So a count  *)
(* stands for as many messages as there are requests, and those that still  *)
(* wait are among them.                                                     *)
(***************************************************************************)
Waiting(u, h) ==
  {p \in Requests : task[p].at = "allowed" /\ task[p].purpose = u /\ task[p].phone = h}

\* The count that is written by whoever read t.
NextCount(t) == IF t = None THEN 1 ELSE IF t.window = "open" THEN t.count + 1 ELSE 1

\* The count that those who wait write, or have written already.
Written(t) == IF t # None /\ t.cooling THEN t.count ELSE NextCount(t)

AllRequests == Cardinality(Requests)

AllowanceOK(u, h) ==
  LET t == throttle[u][h]
  IN  /\ t # None =>
           /\ t.count <= OtpMaxSendsPerWindow
           /\ t.sent <= t.count * AllRequests
           /\ t.cooling => t.window = "open"
           /\ t.cooling => t.sent + Cardinality(Waiting(u, h)) <= t.count * AllRequests
      /\ \A p \in Waiting(u, h) :
           LET seen == task[p].seen
           IN  seen # None => /\ seen \in ThrottleRecords
                              /\ Allowed(seen)
                              /\ NextCount(seen) = Written(t)

ThrottleTyped == throttle \in [Purposes -> [Phones -> ThrottleRecords \cup {None}]]

AllowancesOK ==
  /\ ThrottleTyped
  /\ \A u \in Purposes, h \in Phones : AllowanceOK(u, h)

LEMMA WaitingCounts ==
  ASSUME NEW u, NEW h
  PROVE  /\ IsFiniteSet(Waiting(u, h))
         /\ Cardinality(Waiting(u, h)) \in Nat
         /\ AllRequests \in Nat
         /\ Cardinality(Waiting(u, h)) <= AllRequests
<1>1. Waiting(u, h) \in SUBSET Requests /\ IsFiniteSet(Requests)
  BY AccountsAssumption DEF Waiting
<1> QED
  BY <1>1, FS_Subset, FS_CardinalityType DEF AllRequests

\* Who waits in the next state has waited before.
NobodyJoins(u, h) ==
  \A p \in Waiting(u, h)' : p \in Waiting(u, h) /\ task'[p] = task[p]

LEMMA FewerWait ==
  ASSUME NEW u, NEW h, NobodyJoins(u, h)
  PROVE  /\ Cardinality(Waiting(u, h)') \in Nat
         /\ Cardinality(Waiting(u, h)') <= Cardinality(Waiting(u, h))
<1>1. Waiting(u, h)' \in SUBSET Waiting(u, h)
  BY DEF NobodyJoins
<1> QED
  BY <1>1, WaitingCounts, FS_Subset, FS_CardinalityType

\* A phone whose row stays, or was stale and goes.
LEMMA AllowanceStays ==
  ASSUME ThrottleTyped, NEW u \in Purposes, NEW h \in Phones, AllowanceOK(u, h),
         NobodyJoins(u, h),
         \/ throttle'[u][h] = throttle[u][h]
         \/ throttle'[u][h] = None /\ throttle[u][h].window = "stale" 
  PROVE  AllowanceOK(u, h)'
<1>1. PICK t \in ThrottleRecords \cup {None} : t = throttle[u][h]
  BY DEF ThrottleTyped
<1>2. PICK w \in ThrottleRecords \cup {None} :
        w = throttle'[u][h] /\ (w = t \/ (w = None /\ t.window = "stale"))
  BY <1>1
<1>3. Written(w) = Written(t)
  <2>1. CASE t = None \/ w = t
    BY <1>2, <2>1 DEF Written, NextCount
  <2>2. CASE t # None /\ w = None
    BY <1>1, <1>2, <2>2 DEF Written, NextCount, AllowanceOK
  <2> QED
    BY <1>2, <2>1, <2>2
<1>4. ASSUME NEW p \in Waiting(u, h)', task'[p].seen # None
      PROVE  /\ task'[p].seen \in ThrottleRecords
             /\ Allowed(task'[p].seen)
             /\ NextCount(task'[p].seen) = Written(w)
  BY <1>1, <1>3, <1>4 DEF AllowanceOK, NobodyJoins
<1>5. ASSUME w # None
      PROVE  /\ w.count <= OtpMaxSendsPerWindow
             /\ w.sent <= w.count * AllRequests
             /\ w.cooling => w.window = "open"
             /\ w.cooling => w.sent + Cardinality(Waiting(u, h)') <= w.count * AllRequests
  <2>1. w = t /\ t \in ThrottleRecords
    BY <1>2, <1>5
  <2>2. /\ w.count <= OtpMaxSendsPerWindow
        /\ w.sent <= w.count * AllRequests
        /\ w.cooling => w.window = "open"
        /\ w.cooling => w.sent + Cardinality(Waiting(u, h)) <= w.count * AllRequests
    BY <1>1, <1>5, <2>1 DEF AllowanceOK
  <2>3. w.count * AllRequests \in Nat /\ w.sent \in Nat
    BY <2>1, WaitingCounts DEF ThrottleRecords
  <2> QED
    BY <2>2, <2>3, FewerWait, WaitingCounts
<1> QED
  BY <1>2, <1>4, <1>5 DEF AllowanceOK

NobodyWaitsAnew ==
  \A q \in Requests : task'[q].at = "allowed" => task'[q] = task[q]

LEMMA AllowancesStay ==
  ASSUME AllowancesOK, NobodyWaitsAnew, ThrottleTyped',
         \A u \in Purposes, h \in Phones :
           \/ throttle'[u][h] = throttle[u][h]
           \/ throttle'[u][h] = None /\ throttle[u][h].window = "stale"
  PROVE  AllowancesOK'
<1> SUFFICES ASSUME NEW u \in Purposes, NEW h \in Phones PROVE AllowanceOK(u, h)'
  BY DEF AllowancesOK
<1>1. NobodyJoins(u, h)
  BY DEF NobodyJoins, NobodyWaitsAnew, Waiting
<1> QED
  BY <1>1, AllowanceStays DEF AllowancesOK

\* A request that reads an allowance it may use waits to write it.
LEMMA AllowancesGranted ==
  ASSUME IInv, AllowancesOK, NEW p \in Requests, task[p] = Idle,
         DeleteStaleThrottles, NEW wanted, NEW u \in Purposes, NEW h \in Phones, NEW id,
         Grant(p, wanted, u, h, id) \/ UNCHANGED task
  PROVE  AllowancesOK'
<1>1. ThrottleTyped /\ \A v \in Purposes, k \in Phones : AllowanceOK(v, k)
  BY DEF AllowancesOK
<1>2. /\ ThrottleTyped'
      /\ \A v \in Purposes, k \in Phones :
           \/ throttle'[v][k] = throttle[v][k]
           \/ throttle'[v][k] = None /\ throttle[v][k].window = "stale"
  BY <1>1 DEF ThrottleTyped, DeleteStaleThrottles
<1>3. CASE UNCHANGED task
  <2>1. NobodyWaitsAnew
    BY <1>3 DEF NobodyWaitsAnew
  <2> QED
    BY <1>2, <2>1, AllowancesStay
<1>4. CASE ~UNCHANGED task
  <2>1. PICK t \in ThrottleRecords \cup {None} : t = throttle'[u][h]
    BY <1>2 DEF ThrottleTyped
  <2>2. PICK x \in {[at |-> "allowed", purpose |-> u, phone |-> h, id |-> id, seen |-> t]} : TRUE
    OBVIOUS
  <2>3. Allowed(t) /\ task' = [task EXCEPT ![p] = x]
    BY <1>4, <2>1, <2>2 DEF Grant, Goto
  <2>4. task'[p] = x /\ \A q \in Requests \ {p} : task'[q] = task[q]
    BY <2>3 DEF IInv, Types
  <2>5. p \notin Waiting(u, h)
    BY DEF Waiting, Idle
  <2>6. ASSUME NEW v \in Purposes, NEW k \in Phones, v # u \/ k # h
        PROVE  AllowanceOK(v, k)'
    <3>1. NobodyJoins(v, k)
      BY <2>2, <2>4, <2>6 DEF Waiting, NobodyJoins
    <3> QED
      BY <1>1, <1>2, <3>1, AllowanceStays
  <2>7. AllowanceOK(u, h)'
    <3>1. ~(t # None /\ t.cooling)
      BY <2>3 DEF Allowed
    <3>2. t # None => throttle[u][h] = t
      BY <1>2, <2>1
    <3>3. t # None => t.count <= OtpMaxSendsPerWindow /\ t.sent <= t.count * AllRequests
      BY <1>1, <3>2 DEF AllowanceOK
    <3>4. Written(t) = Written(throttle[u][h])
      <4>1. PICK s \in ThrottleRecords \cup {None} : s = throttle[u][h]
        BY <1>1 DEF ThrottleTyped
      <4>2. s # None /\ s.cooling => s.window = "open"
        BY <1>1, <4>1 DEF AllowanceOK
      <4> QED
        BY <1>2, <2>1, <4>1, <4>2 DEF Written, NextCount
    <3>5. ASSUME NEW q \in Waiting(u, h)', task'[q].seen # None
          PROVE  /\ task'[q].seen \in ThrottleRecords
                 /\ Allowed(task'[q].seen)
                 /\ NextCount(task'[q].seen) = Written(t)
      <4>1. CASE q = p
        BY <2>1, <2>2, <2>3, <2>4, <3>1, <3>5, <4>1 DEF Written
      <4>2. CASE q # p
        <5>1. q \in Waiting(u, h) /\ task'[q] = task[q]
          BY <2>4, <4>2 DEF Waiting
        <5> QED
          BY <1>1, <3>4, <3>5, <5>1 DEF AllowanceOK
      <4> QED
        BY <4>1, <4>2
    <3> QED
      BY <2>1, <3>1, <3>3, <3>5 DEF AllowanceOK
  <2> QED
    BY <1>2, <2>6, <2>7 DEF AllowancesOK
<1> QED
  BY <1>3, <1>4

\* A request that writes what it read, or finds that another has been first.
LEMMA AllowancesWritten ==
  ASSUME IInv, AllowancesOK, NEW p \in Requests, WriteAllowance(p)
  PROVE  AllowancesOK'
<1>1. PICK u \in Purposes, h \in Phones : u = task[p].purpose /\ h = task[p].phone
  BY DEF IInv, TasksOK, TaskOK, WriteAllowance, Carrying
<1>2. ThrottleTyped /\ \A v \in Purposes, k \in Phones : AllowanceOK(v, k)
  BY DEF AllowancesOK
<1>3. p \in Waiting(u, h)
  BY <1>1 DEF Waiting, WriteAllowance
<1>4. PICK t \in ThrottleRecords \cup {None} : t = throttle[u][h]
  BY <1>2 DEF ThrottleTyped
<1>5. PICK seen \in ThrottleRecords \cup {None} : seen = task[p].seen
  BY <1>2, <1>3 DEF AllowanceOK
<1>6. task'[p].at # "allowed" /\ \A q \in Requests \ {p} : task'[q] = task[q]
  BY DEF WriteAllowance, Done, Goto, Idle, IInv, Types
<1>7. NobodyWaitsAnew
  BY <1>6 DEF NobodyWaitsAnew
<1>8. CASE seen = None /\ t # None
  BY <1>1, <1>2, <1>4, <1>5, <1>7, <1>8, AllowancesStay DEF WriteAllowance, ThrottleTyped
<1>9. CASE seen # None \/ t = None
  <2>1. PICK w : w = [count |-> Written(t), cooling |-> TRUE, window |-> "open",
                      sent |-> SentNow(t)]
    OBVIOUS
  <2>2. seen # None => seen.window # "open" \/ seen.count < OtpMaxSendsPerWindow
    BY <1>2, <1>3, <1>5 DEF AllowanceOK, Allowed
  <2>3. NextCount(seen) = Written(t)
    <3>1. CASE seen # None
      BY <1>2, <1>3, <1>4, <1>5, <3>1 DEF AllowanceOK
    <3>2. CASE seen = None
      BY <1>9, <3>2 DEF NextCount, Written
    <3> QED
      BY <3>1, <3>2
  <2>4. Written(t) \in Nat /\ Written(t) <= OtpMaxSendsPerWindow
    <3>1. NextCount(seen) \in Nat
      BY <1>5 DEF NextCount, ThrottleRecords
    <3>2. OtpMaxSendsPerWindow \in Nat \ {0}
      BY AccountsAssumption
    <3> QED
      BY <1>5, <2>2, <2>3, <3>1, <3>2 DEF NextCount, ThrottleRecords
  <2>5. throttle' = [throttle EXCEPT ![u][h] = w]
    BY <1>1, <1>4, <1>5, <1>9, <2>1, <2>3
    DEF WriteAllowance, CreateOTPThrottle, UpdateOTPThrottle, WriteThrottle, NextCount
  <2>6. SentNow(t) \in Nat
    BY <1>4 DEF SentNow, ThrottleRecords
  <2>7. w \in ThrottleRecords /\ w # None
    <3>1. PICK c \in Nat, n \in Nat : c = Written(t) /\ n = SentNow(t)
      BY <2>4, <2>6
    <3>2. w = [count |-> c, cooling |-> TRUE, window |-> "open", sent |-> n]
      BY <2>1, <3>1
    <3>3. w \in ThrottleRecords
      BY <3>2 DEF ThrottleRecords
    <3> QED
      BY <3>3, AccountsAssumption
  <2>8. ThrottleTyped'
    BY <1>2, <2>5, <2>7 DEF ThrottleTyped
  <2>9. throttle'[u][h] = w
        /\ \A v \in Purposes, k \in Phones : v # u \/ k # h => throttle'[v][k] = throttle[v][k]
    BY <1>2, <2>5 DEF ThrottleTyped
  <2>10. ASSUME NEW v \in Purposes, NEW k \in Phones, v # u \/ k # h
         PROVE  AllowanceOK(v, k)'
    <3>1. NobodyJoins(v, k)
      BY <1>7 DEF NobodyJoins, NobodyWaitsAnew, Waiting
    <3> QED
      BY <1>2, <2>9, <2>10, <3>1, AllowanceStays
  <2>11. AllowanceOK(u, h)'
    <3>1. /\ Cardinality(Waiting(u, h)') \in Nat
          /\ Cardinality(Waiting(u, h)') <= Cardinality(Waiting(u, h)) - 1
      <4>1. Waiting(u, h)' \in SUBSET (Waiting(u, h) \ {p})
        BY <1>6, <1>7 DEF Waiting, NobodyWaitsAnew
      <4> QED
        BY <1>3, <4>1, WaitingCounts, FS_RemoveElement, FS_Subset, FS_CardinalityType
    <3>2. w.sent + Cardinality(Waiting(u, h)') <= w.count * AllRequests
      <4>1. PICK n \in Nat, m \in Nat, k \in Nat, r \in Nat :
              /\ n = Cardinality(Waiting(u, h)') /\ m = Cardinality(Waiting(u, h))
              /\ k = Written(t) /\ r = AllRequests
        BY <2>4, <3>1, WaitingCounts
      <4>2. n <= m - 1 /\ m <= r
        BY <3>1, <4>1, WaitingCounts
      <4>3. CASE t = None \/ t.window # "open"
        <5>1. w.sent = 1 /\ w.count = 1
          BY <1>2, <1>4, <2>1, <4>3 DEF SentNow, Written, NextCount, AllowanceOK
        <5> QED
          BY <4>1, <4>2, <5>1
      <4>4. CASE t # None /\ t.window = "open" /\ t.cooling
        <5>1. w.sent = t.sent + 1 /\ w.count = t.count /\ t.sent \in Nat /\ t.count \in Nat
          BY <1>4, <2>1, <4>4 DEF SentNow, Written, ThrottleRecords
        <5>2. t.sent + m <= t.count * r
          BY <1>2, <1>4, <4>1, <4>4 DEF AllowanceOK
        <5> QED
          BY <4>1, <4>2, <5>1, <5>2
      <4>5. CASE t # None /\ t.window = "open" /\ ~t.cooling
        <5>1. w.sent = t.sent + 1 /\ w.count = t.count + 1 /\ t.sent \in Nat /\ t.count \in Nat
          BY <1>4, <2>1, <4>5 DEF SentNow, Written, NextCount, ThrottleRecords
        <5>2. t.sent <= t.count * r
          BY <1>2, <1>4, <4>1, <4>5 DEF AllowanceOK
        <5>3. (t.count + 1) * r = t.count * r + r
          BY <4>1, <5>1
        <5> QED
          BY <4>1, <4>2, <5>1, <5>2, <5>3
      <4> QED
        BY <4>3, <4>4, <4>5
    <3>3. w.count = Written(t) /\ w.cooling /\ w.window = "open" /\ Written(w) = Written(t)
      BY <2>1, <2>7 DEF Written
    <3>4. w.sent <= w.count * AllRequests
      BY <2>4, <2>6, <2>1, <3>1, <3>2, WaitingCounts
    <3>5. ASSUME NEW q \in Waiting(u, h)', task'[q].seen # None
          PROVE  /\ task'[q].seen \in ThrottleRecords
                 /\ Allowed(task'[q].seen)
                 /\ NextCount(task'[q].seen) = Written(w)
      <4>1. q \in Waiting(u, h) /\ task'[q] = task[q]
        BY <1>7 DEF Waiting, NobodyWaitsAnew
      <4> QED
        BY <1>2, <1>4, <3>3, <3>5, <4>1 DEF AllowanceOK
    <3> QED
      BY <2>4, <2>9, <3>2, <3>3, <3>4, <3>5 DEF AllowanceOK
  <2> QED
    BY <2>8, <2>10, <2>11 DEF AllowancesOK
<1> QED
  BY <1>8, <1>9

\* Time passes for a phone that nobody waits for.
LEMMA AllowancesAge ==
  ASSUME AllowancesOK, NEW u \in Purposes, NEW h \in Phones, PassTime(u, h)
  PROVE  AllowancesOK'
<1>1. ThrottleTyped /\ \A v \in Purposes, k \in Phones : AllowanceOK(v, k)
  BY DEF AllowancesOK
<1>2. PICK t \in ThrottleRecords : t = throttle[u][h]
  BY <1>1 DEF ThrottleTyped, PassTime
<1>3. Waiting(u, h) = {} /\ UNCHANGED task
  BY DEF PassTime, Waiting
<1>4. PICK w :
        /\ w = IF t.cooling THEN [t EXCEPT !.cooling = FALSE]
               ELSE [count |-> 0, sent |-> 0, cooling |-> FALSE,
                     window |-> IF t.window = "open" THEN "over" ELSE "stale"]
        /\ throttle' = [throttle EXCEPT ![u][h] = w]
  BY <1>2 DEF PassTime
<1>5. /\ w \in ThrottleRecords /\ ~w.cooling
      /\ \/ w.count = t.count /\ w.sent = t.sent
         \/ w.count = 0 /\ w.sent = 0
  <2>1. CASE t.cooling
    BY <1>4, <2>1 DEF ThrottleRecords
  <2>2. CASE ~t.cooling
    <3>1. PICK x \in {"open", "over", "stale"} :
            x = IF t.window = "open" THEN "over" ELSE "stale"
      OBVIOUS
    <3>2. w = [count |-> 0, sent |-> 0, cooling |-> FALSE, window |-> x]
      BY <1>4, <2>2, <3>1
    <3> QED
      BY <3>2 DEF ThrottleRecords
  <2> QED
    BY <2>1, <2>2
<1>6. ThrottleTyped'
  BY <1>1, <1>4, <1>5 DEF ThrottleTyped
<1>7. throttle'[u][h] = w
      /\ \A v \in Purposes, k \in Phones : v # u \/ k # h => throttle'[v][k] = throttle[v][k]
  BY <1>1, <1>4 DEF ThrottleTyped
<1>8. ASSUME NEW v \in Purposes, NEW k \in Phones, v # u \/ k # h
      PROVE  AllowanceOK(v, k)'
  <2>1. NobodyJoins(v, k)
    BY <1>3 DEF NobodyJoins, Waiting
  <2> QED
    BY <1>1, <1>7, <1>8, <2>1, AllowanceStays
<1>9. AllowanceOK(u, h)'
  <2>1. Waiting(u, h)' = {}
    BY <1>3 DEF Waiting
  <2>2. t.count <= OtpMaxSendsPerWindow /\ t.sent <= t.count * AllRequests
    BY <1>1, <1>2, AccountsAssumption DEF AllowanceOK
  <2>3. w.count <= OtpMaxSendsPerWindow /\ w.sent <= w.count * AllRequests
    BY <1>5, <2>2, WaitingCounts, AccountsAssumption
  <2> QED
    BY <1>5, <1>7, <2>1, <2>3 DEF AllowanceOK
<1> QED
  BY <1>6, <1>8, <1>9 DEF AllowancesOK

\* Whatever the others do leaves the allowances alone.
LEMMA AllowancesKept ==
  ASSUME IInv, AllowancesOK, [Next]_vars
  PROVE  AllowancesOK'
<1>1. ASSUME UNCHANGED throttle, NobodyWaitsAnew PROVE AllowancesOK'
  BY <1>1, AllowancesStay DEF AllowancesOK, ThrottleTyped
<1>2. ASSUME NEW p \in Requests, NEW t, t.at # "allowed", task' = [task EXCEPT ![p] = t],
             UNCHANGED throttle
      PROVE  AllowancesOK'
  BY <1>1, <1>2 DEF NobodyWaitsAnew, IInv, Types
<1>3. ASSUME UNCHANGED <<throttle, task>> PROVE AllowancesOK'
  BY <1>1, <1>3 DEF NobodyWaitsAnew
<1>4. ASSUME NEW p \in Requests, Done(p), UNCHANGED throttle PROVE AllowancesOK'
  BY <1>2, <1>4 DEF Done, Goto, Idle
<1>5. ASSUME NEW p \in Requests, NEW h \in Phones,
             StartRegistration(p, h) \/ StartPasswordReset(p, h)
      PROVE  AllowancesOK'
  BY <1>5, AllowancesGranted
  DEF StartRegistration, StartPasswordReset, SweepExpiredOTPs, Purposes
<1>6. ASSUME NEW p \in Requests, NEW u \in Purposes, NEW h \in Phones, ResendOTP(p, u, h)
      PROVE  AllowancesOK'
  BY <1>6, AllowancesGranted DEF ResendOTP, SweepExpiredOTPs
<1>7. ASSUME NEW p \in Requests, NEW h \in Phones, ReadToken(p, h) \/ Login(p, h)
      PROVE  AllowancesOK'
  BY <1>2, <1>3, <1>7 DEF ReadToken, Login, Goto, rowVars, SigningIn
<1>8. ASSUME NEW p \in Requests, Replace(p) \/ Create(p) \/ Refresh(p) PROVE AllowancesOK'
  <2>1. CASE Replace(p)
    BY <1>2, <2>1 DEF Replace, Goto
  <2>2. CASE Create(p)
    BY <1>2, <1>4, <2>2 DEF Create, Goto, ToSend
  <2>3. CASE Refresh(p)
    BY <1>2, <2>3 DEF Refresh, Goto, ToSend
  <2> QED
    BY <1>8, <2>1, <2>2, <2>3
<1>9. ASSUME NEW p \in Requests, NEW ok \in BOOLEAN, NEW arrives \in BOOLEAN,
             SendCode(p, ok, arrives)
      PROVE  AllowancesOK'
  BY <1>4, <1>9 DEF SendCode
<1>10. ASSUME NEW p \in Requests, NEW u \in Purposes, NEW h \in Phones, NEW right \in BOOLEAN,
              ReadCode(p, u, h, right)
       PROVE  AllowancesOK'
  BY <1>2, <1>10 DEF ReadCode, Goto, rowVars
<1>11. ASSUME NEW p \in Requests, CheckCode(p) PROVE AllowancesOK'
  <2>1. UNCHANGED throttle
    BY <1>11 DEF CheckCode
  <2>2. CASE Done(p)
    BY <1>4, <2>1, <2>2
  <2>3. CASE VerifyRegistration(p)
    BY <1>2, <1>4, <2>1, <2>3 DEF VerifyRegistration, Goto, SigningIn
  <2> QED
    BY <1>11, <2>2, <2>3 DEF CheckCode, CodeExpired, CodeBurned, CodeWrong, VerifyResetOTP
<1>12. ASSUME NEW p \in Requests, ResetPassword(p) \/ IssueSession(p) \/ SignOutOthers(p)
       PROVE  AllowancesOK'
  BY <1>2, <1>4, <1>12
  DEF ResetPassword, IssueSession, SignOutOthers, Goto, SigningIn, rowVars
<1>13. ASSUME NEW p \in Requests, ChangePassword(p) \/ \E s \in sessions : CheckPassword(p, s)
       PROVE  AllowancesOK'
  BY <1>2, <1>13 DEF CheckPassword, ChangePassword, Goto, rowVars
<1>14. ASSUME NEW s \in sessions, Logout(s) PROVE AllowancesOK'
  BY <1>3, <1>14 DEF Logout, rowVars
<1>15. ASSUME NEW u \in Purposes, NEW h \in Phones, ExpireCode(u, h) PROVE AllowancesOK'
  BY <1>3, <1>15 DEF ExpireCode
<1>16. CASE Restart
  BY <1>1, <1>16 DEF Restart, rowVars, NobodyWaitsAnew, Idle
<1>17. CASE UNCHANGED vars
  BY <1>3, <1>17 DEF vars, rowVars
<1> QED
  BY <1>5, <1>6, <1>7, <1>8, <1>9, <1>10, <1>11, <1>12, <1>13, <1>14, <1>15, <1>16, <1>17,
     AllowancesWritten, AllowancesAge
  DEF Next

LEMMA AllowancesStart == Init => AllowancesOK
<1> SUFFICES ASSUME Init PROVE AllowancesOK
  OBVIOUS
<1>1. ThrottleTyped
  BY DEF Init, ThrottleTyped
<1>2. ASSUME NEW u \in Purposes, NEW h \in Phones PROVE AllowanceOK(u, h)
  <2>1. throttle[u][h] = None /\ Waiting(u, h) = {}
    BY DEF Init, Waiting, Idle
  <2> QED
    BY <2>1 DEF AllowanceOK
<1> QED
  BY <1>1, <1>2 DEF AllowancesOK

(***************************************************************************)
(* A phone gets at most OtpMaxSendsPerWindow messages an hour for each      *)
(* request that can be under way at once, at any number of phones and       *)
(* requests (consumeSendAllowance).                                         *)
(***************************************************************************)
THEOREM MessagesAreBounded == Spec => []SendsAreBounded
<1>1. IInv /\ AllowancesOK /\ [Next]_vars => (IInv /\ AllowancesOK)'
  BY NextHolds, AllowancesKept
<1>2. IInv /\ AllowancesOK => SendsAreBounded
  <2> SUFFICES ASSUME AllowancesOK, NEW u \in Purposes, NEW h \in Phones, throttle[u][h] # None
               PROVE  throttle[u][h].sent <= OtpMaxSendsPerWindow * Cardinality(Requests)
    BY DEF SendsAreBounded
  <2>1. PICK t \in ThrottleRecords : t = throttle[u][h]
    BY DEF AllowancesOK, ThrottleTyped
  <2>2. t.count <= OtpMaxSendsPerWindow /\ t.sent <= t.count * AllRequests
    BY <2>1 DEF AllowancesOK, AllowanceOK
  <2>3. PICK c \in Nat, s \in Nat, m \in Nat, r \in Nat :
          c = t.count /\ s = t.sent /\ m = OtpMaxSendsPerWindow /\ r = AllRequests
    BY <2>1, WaitingCounts, AccountsAssumption DEF ThrottleRecords
  <2>4. c * r <= m * r
    BY <2>2, <2>3
  <2> QED
    BY <2>1, <2>2, <2>3, <2>4 DEF AllRequests
<1> QED
  BY InitHolds, AllowancesStart, <1>1, <1>2, PTL DEF Spec

(***************************************************************************)
(* Guesses.  A code is of one row of one phone.  While its row stands every *)
(* wrong guess at it was counted there, so once the row has had its tries   *)
(* only the requests that read it before that are left, one less than there *)
(* can be: the last of the tries was one of them.                           *)
(***************************************************************************)
Checks(p, c) == task[p].at = "checking" /\ task[p].row.code = c

\* The requests that read a code while it had tries left, and may yet guess.
Guessing(c) == {p \in Requests : Checks(p, c) /\ task[p].row.attempts < OtpMaxAttempts}

\* Rows of one code are one row.
SameRow(u, h, row, v, k, other) ==
  row.code = other.code /\ row.code # Blank => u = v /\ h = k /\ row.id = other.id

CodesApart ==
  \A u \in Purposes, h \in Phones : codes[u][h] # None =>
    /\ \A v \in Purposes, k \in Phones :
         codes[v][k] # None => SameRow(u, h, codes[u][h], v, k, codes[v][k])
    /\ \A p \in Requests :
         task[p].at = "checking" =>
           SameRow(u, h, codes[u][h], task[p].purpose, task[p].phone, task[p].row)

GuessesCounted ==
  \A u \in Purposes, h \in Phones :
    codes[u][h] # None /\ codes[u][h].code # Blank =>
      tried[codes[u][h].code] <= codes[u][h].attempts

GuessesLeft ==
  \A c \in 1..MaxMinted :
    tried[c] + Cardinality(Guessing(c)) <= OtpMaxAttempts + AllRequests - 1

GuessesOK ==
  /\ tried \in [1..MaxMinted -> Nat]
  /\ \A c \in 1..MaxMinted : c > minted => tried[c] = 0
  /\ CodesApart /\ GuessesCounted /\ GuessesLeft

LEMMA GuessingCounts ==
  ASSUME NEW c
  PROVE  /\ IsFiniteSet(Guessing(c))
         /\ Cardinality(Guessing(c)) \in Nat
         /\ AllRequests \in Nat
         /\ Cardinality(Guessing(c)) <= AllRequests
<1>1. Guessing(c) \in SUBSET Requests /\ IsFiniteSet(Requests)
  BY AccountsAssumption DEF Guessing
<1> QED
  BY <1>1, FS_Subset, FS_CardinalityType DEF AllRequests

\* Who checks in the next state has checked before.
NobodyReads ==
  \A q \in Requests : task'[q].at = "checking" => task'[q] = task[q]

LEMMA FewerGuess ==
  ASSUME NobodyReads, NEW c
  PROVE  /\ Cardinality(Guessing(c)') \in Nat
         /\ Cardinality(Guessing(c)') <= Cardinality(Guessing(c))
<1>1. Guessing(c)' \in SUBSET Guessing(c)
  BY DEF NobodyReads, Guessing, Checks
<1> QED
  BY <1>1, GuessingCounts, FS_Subset, FS_CardinalityType

\* A row that keeps its name and its count of tries, and its code or none.
RowKept(u, h) ==
  codes'[u][h] # None =>
    /\ codes[u][h] # None
    /\ codes'[u][h].id = codes[u][h].id
    /\ codes'[u][h].attempts \in Nat
    /\ codes'[u][h].attempts >= codes[u][h].attempts
    /\ codes'[u][h].code \in {codes[u][h].code, Blank}

RowsKept == \A u \in Purposes, h \in Phones : RowKept(u, h)

\* No new code, no guess.
LEMMA GuessesStay ==
  ASSUME IInv, GuessesOK, RowsKept, NobodyReads, UNCHANGED tried, minted' \in minted..MaxMinted
  PROVE  GuessesOK'
<1>1. minted \in Nat /\ minted' \in Nat /\ minted <= minted'
  BY AccountsAssumption DEF IInv, Types
<1>2. CodesApart'
  <2> SUFFICES ASSUME NEW u \in Purposes, NEW h \in Phones, codes'[u][h] # None
               PROVE  /\ \A v \in Purposes, k \in Phones :
                           codes'[v][k] # None =>
                             SameRow(u, h, codes'[u][h], v, k, codes'[v][k])
                      /\ \A p \in Requests :
                           task'[p].at = "checking" =>
                             SameRow(u, h, codes'[u][h], task'[p].purpose, task'[p].phone,
                                     task'[p].row)
    BY DEF CodesApart, SameRow
  <2>1. RowKept(u, h)
    BY DEF RowsKept
  <2>2. ASSUME NEW v \in Purposes, NEW k \in Phones, codes'[v][k] # None
        PROVE  SameRow(u, h, codes'[u][h], v, k, codes'[v][k])
    <3>1. RowKept(v, k)
      BY DEF RowsKept
    <3> QED
      BY <2>1, <2>2, <3>1 DEF RowKept, SameRow, GuessesOK, CodesApart
  <2>3. ASSUME NEW p \in Requests, task'[p].at = "checking"
        PROVE  SameRow(u, h, codes'[u][h], task'[p].purpose, task'[p].phone, task'[p].row)
    BY <2>1, <2>3 DEF RowKept, SameRow, GuessesOK, CodesApart, NobodyReads
  <2> QED
    BY <2>2, <2>3
<1>3. GuessesCounted'
  <2> SUFFICES ASSUME NEW u \in Purposes, NEW h \in Phones, codes'[u][h] # None,
                      codes'[u][h].code # Blank
               PROVE  tried[codes'[u][h].code] <= codes'[u][h].attempts
    BY DEF GuessesCounted
  <2>1. RowKept(u, h)
    BY DEF RowsKept
  <2>2. codes[u][h] \in Rows /\ codes[u][h].code <= minted
    BY <2>1, StandingRow DEF RowKept, RowOK
  <2>3. tried[codes[u][h].code] <= codes[u][h].attempts /\ codes'[u][h].code = codes[u][h].code
    BY <2>1 DEF RowKept, GuessesOK, GuessesCounted
  <2>4. codes[u][h].code \in 1..MaxMinted
    BY <1>1, <2>2, <2>3, AccountsAssumption DEF Rows, Blank, IInv, Types
  <2>5. tried[codes[u][h].code] \in Nat
    BY <2>4 DEF GuessesOK
  <2> QED
    BY <2>1, <2>2, <2>3, <2>5 DEF RowKept, Rows
<1>4. GuessesLeft'
  <2> SUFFICES ASSUME NEW c \in 1..MaxMinted
               PROVE  tried[c] + Cardinality(Guessing(c)') <= OtpMaxAttempts + AllRequests - 1
    BY DEF GuessesLeft, AllRequests
  <2>1. tried[c] \in Nat /\ OtpMaxAttempts \in Nat
        /\ tried[c] + Cardinality(Guessing(c)) <= OtpMaxAttempts + AllRequests - 1
    BY AccountsAssumption DEF GuessesOK, GuessesLeft
  <2> QED
    BY <2>1, FewerGuess, GuessingCounts
<1> QED
  BY <1>1, <1>2, <1>3, <1>4 DEF GuessesOK

\* A new code, in a row of its own.
LEMMA GuessesMinted ==
  ASSUME IInv, GuessesOK, CanMint, minted' = Fresh, UNCHANGED tried, NobodyReads,
         NEW u \in Purposes, NEW h \in Phones, NEW row \in Rows, row.code = Fresh,
         codes' = [codes EXCEPT ![u][h] = row]
  PROVE  GuessesOK'
<1>1. /\ minted \in Nat /\ MaxMinted \in Nat /\ minted < MaxMinted
      /\ Fresh = minted + 1
  BY AccountsAssumption DEF IInv, Types, CanMint, Fresh
<1>2. codes'[u][h] = row
      /\ \A v \in Purposes, k \in Phones : v # u \/ k # h => codes'[v][k] = codes[v][k]
  BY DEF IInv, Types
<1>3. \A v \in Purposes, k \in Phones :
        codes[v][k] # None => codes[v][k].code \in Nat /\ codes[v][k].code < Fresh
  BY <1>1, StandingRow DEF RowOK, Rows
<1>4. \A p \in Requests :
        task[p].at = "checking" => task[p].row.code \in Nat /\ task[p].row.code < Fresh
  BY <1>1, Checking DEF RowOK, Rows
<1>5. CodesApart'
  <2> SUFFICES ASSUME NEW v \in Purposes, NEW k \in Phones, codes'[v][k] # None
               PROVE  /\ \A w \in Purposes, l \in Phones :
                           codes'[w][l] # None =>
                             SameRow(v, k, codes'[v][k], w, l, codes'[w][l])
                      /\ \A p \in Requests :
                           task'[p].at = "checking" =>
                             SameRow(v, k, codes'[v][k], task'[p].purpose, task'[p].phone,
                                     task'[p].row)
    BY DEF CodesApart, SameRow
  <2>1. ASSUME NEW w \in Purposes, NEW l \in Phones, codes'[w][l] # None
        PROVE  SameRow(v, k, codes'[v][k], w, l, codes'[w][l])
    <3>1. CASE v = u /\ k = h /\ w = u /\ l = h
      BY <3>1 DEF SameRow
    <3>2. CASE ~(v = u /\ k = h) /\ w = u /\ l = h
      BY <1>1, <1>2, <1>3, <3>2 DEF SameRow
    <3>3. CASE v = u /\ k = h /\ ~(w = u /\ l = h)
      BY <1>1, <1>2, <1>3, <2>1, <3>3 DEF SameRow
    <3>4. CASE ~(v = u /\ k = h) /\ ~(w = u /\ l = h)
      BY <1>2, <2>1, <3>4 DEF GuessesOK, CodesApart
    <3> QED
      BY <3>1, <3>2, <3>3, <3>4
  <2>2. ASSUME NEW p \in Requests, task'[p].at = "checking"
        PROVE  SameRow(v, k, codes'[v][k], task'[p].purpose, task'[p].phone, task'[p].row)
    <3>1. task'[p] = task[p] /\ task[p].at = "checking"
      BY <2>2 DEF NobodyReads
    <3>2. CASE v = u /\ k = h
      BY <1>1, <1>2, <1>4, <3>1, <3>2 DEF SameRow
    <3>3. CASE ~(v = u /\ k = h)
      BY <1>2, <3>1, <3>3 DEF GuessesOK, CodesApart
    <3> QED
      BY <3>2, <3>3
  <2> QED
    BY <2>1, <2>2
<1>6. GuessesCounted'
  <2> SUFFICES ASSUME NEW v \in Purposes, NEW k \in Phones, codes'[v][k] # None,
                      codes'[v][k].code # Blank
               PROVE  tried[codes'[v][k].code] <= codes'[v][k].attempts
    BY DEF GuessesCounted
  <2>1. CASE v = u /\ k = h
    <3>1. tried[Fresh] = 0
      BY <1>1 DEF GuessesOK
    <3> QED
      BY <1>2, <2>1, <3>1 DEF Rows
  <2>2. CASE ~(v = u /\ k = h)
    BY <1>2, <2>2 DEF GuessesOK, GuessesCounted
  <2> QED
    BY <2>1, <2>2
<1>7. GuessesLeft'
  <2> SUFFICES ASSUME NEW c \in 1..MaxMinted
               PROVE  tried[c] + Cardinality(Guessing(c)') <= OtpMaxAttempts + AllRequests - 1
    BY DEF GuessesLeft, AllRequests
  <2>1. tried[c] \in Nat /\ OtpMaxAttempts \in Nat
        /\ tried[c] + Cardinality(Guessing(c)) <= OtpMaxAttempts + AllRequests - 1
    BY AccountsAssumption DEF GuessesOK, GuessesLeft
  <2> QED
    BY <2>1, FewerGuess, GuessingCounts
<1> QED
  BY <1>1, <1>5, <1>6, <1>7 DEF GuessesOK

\* A request reads a row.
LEMMA GuessesRead ==
  ASSUME IInv, GuessesOK, NEW p \in Requests, NEW u \in Purposes, NEW h \in Phones,
         NEW right \in BOOLEAN, ReadCode(p, u, h, right)
  PROVE  GuessesOK'
<1>1. UNCHANGED <<codes, minted, tried>>
  BY DEF ReadCode, rowVars, codeVars
<1>2. PICK row \in Rows : row = codes[u][h] /\ codes[u][h] # None /\ row.code <= minted
  BY StandingRow DEF ReadCode, GetCodeByPhone, RowOK
<1>3. /\ task[p].at # "checking"
      /\ task'[p].at = "checking" /\ task'[p].purpose = u /\ task'[p].phone = h
      /\ task'[p].row = row
      /\ \A q \in Requests \ {p} : task'[q] = task[q]
  BY <1>2 DEF ReadCode, GetCodeByPhone, Goto, Idle, IInv, Types
<1>4. CodesApart'
  BY <1>1, <1>2, <1>3 DEF GuessesOK, CodesApart
<1>5. GuessesLeft'
  <2> SUFFICES ASSUME NEW c \in 1..MaxMinted
               PROVE  tried[c] + Cardinality(Guessing(c)') <= OtpMaxAttempts + AllRequests - 1
    BY <1>1 DEF GuessesLeft, AllRequests
  <2>1. tried[c] \in Nat /\ OtpMaxAttempts \in Nat
        /\ tried[c] + Cardinality(Guessing(c)) <= OtpMaxAttempts + AllRequests - 1
    BY AccountsAssumption DEF GuessesOK, GuessesLeft
  <2>2. CASE c = row.code /\ row.attempts < OtpMaxAttempts
    <3>1. tried[c] <= row.attempts
      BY <1>2, <2>2 DEF GuessesOK, GuessesCounted, Blank
    <3>2. Guessing(c)' \in SUBSET Requests
      BY DEF Guessing
    <3>3. Cardinality(Guessing(c)') \in Nat /\ Cardinality(Guessing(c)') <= AllRequests
      BY <3>2, AccountsAssumption, FS_Subset, FS_CardinalityType DEF AllRequests
    <3> QED
      BY <1>2, <2>1, <2>2, <3>1, <3>3, GuessingCounts DEF Rows
  <2>3. CASE ~(c = row.code /\ row.attempts < OtpMaxAttempts)
    <3>1. Guessing(c)' = Guessing(c)
      BY <1>3, <2>3 DEF Guessing, Checks
    <3> QED
      BY <2>1, <3>1
  <2> QED
    BY <2>2, <2>3
<1>6. GuessesCounted'
  BY <1>1 DEF GuessesOK, GuessesCounted
<1> QED
  BY <1>1, <1>4, <1>5, <1>6 DEF GuessesOK

\* A wrong guess is counted where its code still stands.
LEMMA GuessesWrong ==
  ASSUME IInv, GuessesOK, NEW p \in Requests, task[p].at = "checking", CodeWrong(p)
  PROVE  GuessesOK'
<1>1. PICK u \in Purposes, h \in Phones, row \in Rows :
        /\ u = task[p].purpose /\ h = task[p].phone /\ row = task[p].row
        /\ row.code <= minted
  BY Checking DEF RowOK
<1>2. /\ row.attempts < OtpMaxAttempts
      /\ IncrementAttempts(u, h, row.id)
      /\ tried' = [tried EXCEPT ![row.code] = @ + 1]
      /\ Done(p)
      /\ minted' = minted
  BY <1>1 DEF CodeWrong
<1>3. /\ task'[p].at # "checking"
      /\ \A q \in Requests \ {p} : task'[q] = task[q]
  BY <1>2 DEF Done, Goto, Idle, IInv, Types
<1>4. NobodyReads
  BY <1>3 DEF NobodyReads
<1>5. tried' \in [1..MaxMinted -> Nat] /\ tried \in [1..MaxMinted -> Nat]
      /\ \A c \in 1..MaxMinted : tried'[c] = IF c = row.code THEN tried[c] + 1 ELSE tried[c]
  <2>1. PICK f \in [1..MaxMinted -> Nat], c \in Nat : f = tried /\ c = row.code
    BY <1>1 DEF GuessesOK, Rows
  <2>2. tried' = [f EXCEPT ![c] = f[c] + 1]
    BY <1>2, <2>1
  <2>3. \A d \in 1..MaxMinted : tried'[d] = IF d = c THEN f[d] + 1 ELSE f[d]
    BY <2>2
  <2>4. \A d \in 1..MaxMinted : tried'[d] \in Nat
    BY <2>3
  <2> QED
    BY <2>1, <2>2, <2>3, <2>4
<1>6. \A v \in Purposes, k \in Phones :
        codes[v][k] # None =>
          /\ codes[v][k] \in Rows /\ codes[v][k].code <= minted
          /\ codes'[v][k].code = codes[v][k].code
          /\ codes'[v][k].id = codes[v][k].id
          /\ codes'[v][k].attempts = IF v = u /\ k = h /\ codes[v][k].id = row.id
                                     THEN codes[v][k].attempts + 1 ELSE codes[v][k].attempts
  <2> TAKE v \in Purposes, k \in Phones
  <2> HAVE codes[v][k] # None
  <2>1. PICK x \in Rows : x = codes[v][k] /\ x.code <= minted
    BY StandingRow DEF RowOK
  <2>2. CASE v = u /\ k = h /\ x.id = row.id
    <3>1. codes' = [codes EXCEPT ![u][h] = [x EXCEPT !.attempts = @ + 1]]
      BY <1>2, <2>1, <2>2 DEF IncrementAttempts, Set, Stands
    <3>2. codes'[v][k] = [x EXCEPT !.attempts = @ + 1]
      BY <2>2, <3>1 DEF IInv, Types
    <3> QED
      BY <2>1, <2>2, <3>2 DEF Rows
  <2>3. CASE ~(v = u /\ k = h /\ x.id = row.id)
    <3>1. codes'[v][k] = codes[v][k]
      BY <1>2, <2>1, <2>3 DEF IncrementAttempts, Set, Stands, IInv, Types
    <3> QED
      BY <2>1, <2>3, <3>1
  <2> QED
    BY <2>2, <2>3
<1>7. \A v \in Purposes, k \in Phones : codes'[v][k] # None => codes[v][k] # None
  BY <1>2 DEF IncrementAttempts, Set, Stands, IInv, Types
<1>8. CodesApart'
  <2> SUFFICES ASSUME NEW v \in Purposes, NEW k \in Phones, codes'[v][k] # None
               PROVE  /\ \A w \in Purposes, l \in Phones :
                           codes'[w][l] # None =>
                             SameRow(v, k, codes'[v][k], w, l, codes'[w][l])
                      /\ \A q \in Requests :
                           task'[q].at = "checking" =>
                             SameRow(v, k, codes'[v][k], task'[q].purpose, task'[q].phone,
                                     task'[q].row)
    BY DEF CodesApart, SameRow
  <2> QED
    BY <1>4, <1>6, <1>7 DEF GuessesOK, CodesApart, SameRow, NobodyReads
<1>9. GuessesCounted'
  <2> SUFFICES ASSUME NEW v \in Purposes, NEW k \in Phones, codes'[v][k] # None,
                      codes'[v][k].code # Blank
               PROVE  tried'[codes'[v][k].code] <= codes'[v][k].attempts
    BY DEF GuessesCounted
  <2>1. PICK x \in Rows : x = codes[v][k] /\ codes[v][k] # None /\ x.code <= minted
    BY <1>6, <1>7
  <2>2. tried[x.code] <= x.attempts /\ x.code # Blank
    BY <1>6, <2>1 DEF GuessesOK, GuessesCounted
  <2>3. x.code \in 1..MaxMinted
    BY <2>1, <2>2, AccountsAssumption DEF Rows, Blank, IInv, Types
  <2>4. x.code = row.code => v = u /\ k = h /\ x.id = row.id
    BY <1>1, <2>1, <2>2 DEF GuessesOK, CodesApart, SameRow
  <2>5. PICK m \in Nat, n \in Nat : m = tried[x.code] /\ n = x.attempts
    BY <1>5, <2>3, <2>1 DEF Rows
  <2>6. codes'[v][k].code = x.code
    BY <1>6, <2>1
  <2>7. CASE x.code = row.code
    <3>1. tried'[x.code] = m + 1 /\ codes'[v][k].attempts = n + 1
      BY <1>5, <1>6, <2>1, <2>3, <2>4, <2>5, <2>7
    <3> QED
      BY <2>2, <2>5, <2>6, <3>1
  <2>8. CASE x.code # row.code
    <3>1. tried'[x.code] = m /\ codes'[v][k].attempts \in {n, n + 1}
      BY <1>5, <1>6, <2>1, <2>3, <2>5, <2>8
    <3> QED
      BY <2>2, <2>5, <2>6, <3>1
  <2> QED
    BY <2>7, <2>8
<1>10. GuessesLeft'
  <2> SUFFICES ASSUME NEW c \in 1..MaxMinted
               PROVE  tried'[c] + Cardinality(Guessing(c)') <= OtpMaxAttempts + AllRequests - 1
    BY DEF GuessesLeft, AllRequests
  <2>1. tried[c] \in Nat /\ OtpMaxAttempts \in Nat
        /\ tried[c] + Cardinality(Guessing(c)) <= OtpMaxAttempts + AllRequests - 1
    BY AccountsAssumption DEF GuessesOK, GuessesLeft
  <2>2. CASE c = row.code
    <3>1. p \in Guessing(c)
      BY <1>1, <1>2, <2>2 DEF Guessing, Checks
    <3>2. Guessing(c)' \in SUBSET (Guessing(c) \ {p})
      BY <1>3, <1>4 DEF Guessing, Checks, NobodyReads
    <3>3. /\ Cardinality(Guessing(c)') \in Nat
          /\ Cardinality(Guessing(c)') <= Cardinality(Guessing(c)) - 1
      BY <3>1, <3>2, GuessingCounts, FS_RemoveElement, FS_Subset, FS_CardinalityType
    <3> QED
      BY <1>5, <2>1, <2>2, <3>3, GuessingCounts
  <2>3. CASE c # row.code
    <3>1. tried'[c] = tried[c]
      BY <1>5, <2>3
    <3>2. /\ Cardinality(Guessing(c)') \in Nat
          /\ Cardinality(Guessing(c)') <= Cardinality(Guessing(c))
      BY <1>4, FewerGuess
    <3>3. Cardinality(Guessing(c)) \in Nat /\ AllRequests \in Nat
      BY GuessingCounts
    <3> QED
      BY <2>1, <3>1, <3>2, <3>3
  <2> QED
    BY <2>2, <2>3
<1>11. \A c \in 1..MaxMinted : c > minted => tried'[c] = 0
  BY <1>1, <1>5 DEF GuessesOK, Rows, IInv, Types
<1> QED
  BY <1>2, <1>5, <1>8, <1>9, <1>10, <1>11 DEF GuessesOK

LEMMA GuessesStart == Init => GuessesOK
<1> SUFFICES ASSUME Init PROVE GuessesOK
  OBVIOUS
<1>1. \A c \in 1..MaxMinted : tried[c] = 0 /\ Guessing(c) = {}
  BY DEF Init, Guessing, Checks, Idle
<1>2. \A u \in Purposes, h \in Phones : codes[u][h] = None
  BY DEF Init
<1>3. tried \in [1..MaxMinted -> Nat]
  BY DEF Init
<1>4. GuessesLeft
  <2> SUFFICES ASSUME NEW c \in 1..MaxMinted
               PROVE  tried[c] + Cardinality(Guessing(c)) <= OtpMaxAttempts + AllRequests - 1
    BY DEF GuessesLeft
  <2> QED
    BY <1>1, FS_EmptySet, GuessingCounts, AccountsAssumption
<1> QED
  BY <1>1, <1>2, <1>3, <1>4 DEF GuessesOK, CodesApart, GuessesCounted

\* Rows that a step sets, deletes, counts or sweeps.
LEMMA KeptUnchanged ==
  ASSUME IInv, UNCHANGED codes
  PROVE  RowsKept
BY StandingRow DEF RowsKept, RowKept, Rows

LEMMA KeptSet ==
  ASSUME IInv, NEW u \in Purposes, NEW h \in Phones, NEW row, Set(u, h, row),
         \/ row = None
         \/ /\ codes[u][h] # None
            /\ row.id = codes[u][h].id
            /\ row.attempts \in Nat /\ row.attempts >= codes[u][h].attempts
            /\ row.code \in {codes[u][h].code, Blank}
  PROVE  RowsKept
<1>1. \A v \in Purposes, k \in Phones :
        codes'[v][k] = IF v = u /\ k = h THEN row ELSE codes[v][k]
  BY DEF Set, IInv, Types
<1> QED
  BY <1>1, StandingRow DEF RowsKept, RowKept, Rows

LEMMA KeptDelete ==
  ASSUME IInv, NEW u \in Purposes, NEW h \in Phones, NEW id,
         DeleteById(u, h, id) \/ DeleteByPhone(u, h)
  PROVE  RowsKept
BY KeptSet, KeptUnchanged DEF DeleteById, DeleteByPhone

LEMMA KeptSwept ==
  ASSUME IInv, codes' = Swept
  PROVE  RowsKept
<1>1. \A v \in Purposes, k \in Phones : codes'[v][k] \in {None, codes[v][k]}
  BY DEF Swept
<1> QED
  BY <1>1, StandingRow DEF RowsKept, RowKept, Rows

LEMMA GuessesKept ==
  ASSUME IInv, GuessesOK, [Next]_vars
  PROVE  GuessesOK'
<1>0. minted \in minted..MaxMinted /\ minted \in Nat
  BY AccountsAssumption DEF IInv, Types
<1>1. ASSUME RowsKept, UNCHANGED <<minted, tried>>, NEW p \in Requests, NEW t,
             t.at # "checking", task' = [task EXCEPT ![p] = t]
      PROVE  GuessesOK'
  <2>1. NobodyReads
    BY <1>1 DEF NobodyReads, IInv, Types
  <2> QED
    BY <1>0, <1>1, <2>1, GuessesStay
<1>2. ASSUME RowsKept, UNCHANGED <<minted, tried, task>> PROVE GuessesOK'
  BY <1>0, <1>2, GuessesStay DEF NobodyReads
<1>3. ASSUME NEW p \in Requests, Done(p), RowsKept, UNCHANGED <<minted, tried>> PROVE GuessesOK'
  BY <1>1, <1>3 DEF Done, Goto, Idle
<1>4. ASSUME NEW p \in Requests, NEW wanted, NEW u, NEW h, NEW id,
             Grant(p, wanted, u, h, id) \/ UNCHANGED task, RowsKept, UNCHANGED <<minted, tried>>
      PROVE  GuessesOK'
  BY <1>1, <1>2, <1>4 DEF Grant, Goto
<1>5. ASSUME NEW p \in Requests, NEW h \in Phones,
             StartRegistration(p, h) \/ StartPasswordReset(p, h)
      PROVE  GuessesOK'
  BY <1>4, <1>5, KeptSwept DEF StartRegistration, StartPasswordReset, SweepExpiredOTPs, codeVars
<1>6. ASSUME NEW p \in Requests, NEW u \in Purposes, NEW h \in Phones, ResendOTP(p, u, h)
      PROVE  GuessesOK'
  BY <1>4, <1>6, KeptSwept DEF ResendOTP, SweepExpiredOTPs, codeVars
<1>7. ASSUME NEW p \in Requests, WriteAllowance(p) PROVE GuessesOK'
  BY <1>1, <1>3, <1>7, KeptUnchanged DEF WriteAllowance, Goto, codeVars
<1>8. ASSUME NEW p \in Requests, NEW h \in Phones, ReadToken(p, h) \/ Login(p, h)
      PROVE  GuessesOK'
  <2>1. CASE Login(p, h)
    BY <1>1, <2>1, KeptUnchanged DEF Login, Goto, rowVars, codeVars, SigningIn
  <2>2. CASE ReadToken(p, h)
    <3>1. RowsKept /\ UNCHANGED <<minted, tried>>
      BY <2>2, KeptDelete, KeptUnchanged DEF ReadToken, codeVars, Purposes
    <3> QED
      BY <1>1, <1>2, <2>2, <3>1 DEF ReadToken, Goto
  <2> QED
    BY <1>8, <2>1, <2>2
<1>9. ASSUME NEW p \in Requests, Replace(p) \/ Create(p) \/ Refresh(p) PROVE GuessesOK'
  <2>1. PICK u \in Purposes, h \in Phones : u = task[p].purpose /\ h = task[p].phone
    BY <1>9 DEF IInv, TasksOK, TaskOK, Replace, Create, Refresh, Carrying
  <2>2. CASE Replace(p)
    <3>1. RowsKept /\ UNCHANGED <<minted, tried>>
      BY <2>1, <2>2, KeptDelete DEF Replace, codeVars
    <3> QED
      BY <1>1, <2>2, <3>1 DEF Replace, Goto
  <2>3. CASE Create(p) /\ codes[u][h] # None
    BY <1>3, <2>1, <2>3, KeptUnchanged DEF Create
  <2>4. CASE Create(p) /\ codes[u][h] = None
    <3>1. PICK row \in Rows : row = NewRow /\ row.code = Fresh
      <4>1. PICK f \in Nat : f = Fresh
        BY <1>0 DEF Fresh
      <4>2. PICK row : row = [id |-> f, code |-> f, arrived |-> FALSE, attempts |-> 0,
                              expired |-> FALSE, password |-> f, token |-> None,
                              tokenExpired |-> TRUE]
        OBVIOUS
      <4>3. row = NewRow /\ row.code = Fresh
        BY <4>1, <4>2 DEF NewRow
      <4>4. row \in Rows
        BY <4>2 DEF Rows
      <4> QED
        BY <4>3, <4>4
    <3>2. codes' = [codes EXCEPT ![u][h] = row] /\ minted' = Fresh /\ CanMint /\ tried' = tried
      BY <2>1, <2>4, <3>1 DEF Create, CreateCode, Set
    <3>3. NobodyReads
      BY <2>1, <2>4 DEF Create, Goto, ToSend, NobodyReads, IInv, Types
    <3> QED
      BY <3>1, <3>2, <3>3, GuessesMinted
  <2>5. CASE Refresh(p)
    <3>1. minted' = Fresh /\ CanMint /\ tried' = tried
      BY <2>5 DEF Refresh
    <3>2. NobodyReads
      BY <2>5 DEF Refresh, Goto, ToSend, NobodyReads, IInv, Types
    <3>3. Fresh \in Nat /\ Fresh \in minted..MaxMinted
      BY <1>0, <3>1, AccountsAssumption DEF Fresh, CanMint
    <3>4. CASE ~Stands(u, h, task[p].id)
      <4>1. RowsKept
        BY <2>1, <2>5, <3>4, KeptUnchanged DEF Refresh, RefreshCode
      <4> QED
        BY <3>1, <3>2, <3>3, <4>1, GuessesStay
    <3>5. CASE Stands(u, h, task[p].id)
      <4>1. PICK old \in Rows : old = codes[u][h]
        BY <3>5, StandingRow DEF Stands
      <4>2. PICK row : row = [old EXCEPT !.code = Fresh, !.arrived = FALSE, !.attempts = 0,
                                         !.expired = FALSE, !.token = None,
                                         !.tokenExpired = TRUE]
        OBVIOUS
      <4>3. row \in Rows /\ row.code = Fresh
        BY <3>3, <4>1, <4>2 DEF Rows
      <4>4. codes' = [codes EXCEPT ![u][h] = row]
        BY <2>1, <2>5, <3>5, <4>1, <4>2 DEF Refresh, RefreshCode, Set
      <4> QED
        BY <3>1, <3>2, <4>3, <4>4, GuessesMinted
    <3> QED
      BY <3>4, <3>5
  <2> QED
    BY <1>9, <2>2, <2>3, <2>4, <2>5
<1>10. ASSUME NEW p \in Requests, NEW ok \in BOOLEAN, NEW arrives \in BOOLEAN,
              SendCode(p, ok, arrives)
       PROVE  GuessesOK'
  <2>1. PICK u \in Purposes, h \in Phones : u = task[p].purpose /\ h = task[p].phone
    BY <1>10 DEF IInv, TasksOK, TaskOK, SendCode, Carrying
  <2>2. CASE codes[u][h] # None /\ Set(u, h, [codes[u][h] EXCEPT !.arrived = TRUE])
    <3>1. PICK old \in Rows : old = codes[u][h]
      BY <2>2, StandingRow
    <3>2. PICK row : row = [old EXCEPT !.arrived = TRUE]
      OBVIOUS
    <3>3. row.id = old.id /\ row.attempts = old.attempts /\ row.code = old.code
          /\ old.attempts \in Nat
      BY <3>1, <3>2 DEF Rows
    <3>4. Set(u, h, row)
      BY <2>2, <3>1, <3>2
    <3>5. RowsKept
      BY <2>2, <3>1, <3>3, <3>4, KeptSet
    <3> QED
      BY <1>3, <1>10, <3>5 DEF SendCode, codeVars
  <2>3. CASE DeleteByPhone(u, h) \/ UNCHANGED codes
    BY <1>3, <1>10, <2>3, KeptDelete, KeptUnchanged DEF SendCode, codeVars
  <2> QED
    BY <1>10, <2>1, <2>2, <2>3 DEF SendCode
<1>11. ASSUME NEW p \in Requests, CheckCode(p) PROVE GuessesOK'
  <2>1. PICK u \in Purposes, h \in Phones, row \in Rows :
          u = task[p].purpose /\ h = task[p].phone /\ row = task[p].row
    BY <1>11, Checking DEF CheckCode, RowOK
  <2>2. CASE CodeWrong(p)
    BY <1>11, <2>2, GuessesWrong DEF CheckCode
  <2>3. CASE CodeExpired(p) \/ CodeBurned(p)
    BY <1>3, <2>1, <2>3, KeptDelete, KeptUnchanged DEF CodeExpired, CodeBurned, codeVars
  <2>4. CASE VerifyRegistration(p)
    <3>1. RowsKept /\ UNCHANGED <<minted, tried>>
      BY <2>1, <2>4, KeptDelete, KeptUnchanged DEF VerifyRegistration, codeVars, Purposes
    <3> QED
      BY <1>1, <1>3, <2>4, <3>1 DEF VerifyRegistration, Goto, SigningIn
  <2>5. CASE VerifyResetOTP(p)
    <3>1. SetPasswordResetToken(h, row.id, row.code)
      BY <2>1, <2>5 DEF VerifyResetOTP
    <3>2. CASE Stands("reset", h, row.id)
      <4>1. PICK old \in Rows : old = codes["reset"][h] /\ codes["reset"][h] # None
        BY <3>2, StandingRow DEF Stands, Purposes
      <4>2. PICK new : new = [old EXCEPT !.code = Blank, !.expired = TRUE,
                                         !.token = row.code, !.tokenExpired = FALSE]
        OBVIOUS
      <4>3. new.id = old.id /\ new.attempts = old.attempts /\ new.code = Blank
            /\ old.attempts \in Nat
        BY <4>1, <4>2 DEF Rows
      <4>4. Set("reset", h, new) /\ "reset" \in Purposes
        BY <3>1, <3>2, <4>1, <4>2 DEF SetPasswordResetToken, Purposes
      <4>5. RowsKept
        BY <4>1, <4>3, <4>4, KeptSet
      <4> QED
        BY <1>3, <2>5, <4>5 DEF VerifyResetOTP, codeVars
    <3>3. CASE ~Stands("reset", h, row.id)
      BY <1>3, <2>5, <3>1, <3>3, KeptUnchanged DEF VerifyResetOTP, SetPasswordResetToken, codeVars
    <3> QED
      BY <3>2, <3>3
  <2> QED
    BY <1>11, <2>2, <2>3, <2>4, <2>5 DEF CheckCode
<1>12. ASSUME NEW p \in Requests, ResetPassword(p) \/ IssueSession(p) \/ SignOutOthers(p)
       PROVE  GuessesOK'
  <2>1. CASE ResetPassword(p)
    <3>1. RowsKept /\ UNCHANGED <<minted, tried>>
      <4>1. task[p].phone \in Phones /\ "reset" \in Purposes
        BY <2>1 DEF IInv, TasksOK, TaskOK, ResetPassword, Purposes
      <4> QED
        BY <2>1, <4>1, KeptDelete DEF ResetPassword, codeVars
    <3> QED
      BY <1>1, <2>1, <3>1 DEF ResetPassword, Goto, SigningIn
  <2>2. CASE IssueSession(p) \/ SignOutOthers(p)
    BY <1>3, <2>2, KeptUnchanged DEF IssueSession, SignOutOthers, rowVars, codeVars
  <2> QED
    BY <1>12, <2>1, <2>2
<1>13. ASSUME NEW p \in Requests, ChangePassword(p) \/ \E s \in sessions : CheckPassword(p, s)
       PROVE  GuessesOK'
  <2>1. CASE \E s \in sessions : CheckPassword(p, s)
    BY <1>1, <2>1, KeptUnchanged DEF CheckPassword, Goto, rowVars, codeVars
  <2>2. CASE ChangePassword(p)
    <3>1. RowsKept /\ UNCHANGED tried /\ minted' \in minted..MaxMinted
      BY <2>2, FreshPassword, KeptUnchanged DEF ChangePassword, rowVars
    <3>2. NobodyReads
      BY <2>2 DEF ChangePassword, Goto, NobodyReads, IInv, Types
    <3> QED
      BY <3>1, <3>2, GuessesStay
  <2> QED
    BY <1>13, <2>1, <2>2
<1>14. ASSUME NEW s \in sessions, Logout(s) PROVE GuessesOK'
  BY <1>2, <1>14, KeptUnchanged DEF Logout, rowVars, codeVars
<1>15. ASSUME NEW u \in Purposes, NEW h \in Phones, ExpireCode(u, h) PROVE GuessesOK'
  <2>1. PICK old \in Rows : old = codes[u][h] /\ codes[u][h] # None
    BY <1>15, StandingRow DEF ExpireCode
  <2>2. PICK row \in {[old EXCEPT !.expired = TRUE], [old EXCEPT !.tokenExpired = TRUE]} :
          Set(u, h, row)
    BY <1>15, <2>1 DEF ExpireCode
  <2>3. row.id = old.id /\ row.attempts = old.attempts /\ row.code = old.code
        /\ old.attempts \in Nat
    BY <2>1, <2>2 DEF Rows
  <2>4. RowsKept
    BY <2>1, <2>2, <2>3, KeptSet
  <2> QED
    BY <1>2, <1>15, <2>4 DEF ExpireCode, codeVars
<1>16. ASSUME NEW u \in Purposes, NEW h \in Phones, PassTime(u, h) PROVE GuessesOK'
  BY <1>2, <1>16, KeptUnchanged DEF PassTime, codeVars
<1>17. CASE Restart
  <2>1. NobodyReads
    BY <1>17 DEF Restart, NobodyReads, Idle
  <2>2. RowsKept /\ UNCHANGED tried
    BY <1>17, KeptUnchanged DEF Restart, rowVars
  <2>3. minted' \in minted..MaxMinted
    BY <1>0, <1>17, FreshPassword DEF Restart
  <2> QED
    BY <2>1, <2>2, <2>3, GuessesStay
<1>18. CASE UNCHANGED vars
  BY <1>2, <1>18, KeptUnchanged DEF vars, rowVars, codeVars
<1> QED
  BY <1>5, <1>6, <1>7, <1>8, <1>9, <1>10, <1>11, <1>12, <1>13, <1>14, <1>15, <1>16, <1>17, <1>18,
     GuessesRead
  DEF Next

(***************************************************************************)
(* No code is compared with more wrong guesses than it has tries and other  *)
(* requests that were under way, whatever codes replace it meanwhile        *)
(* (checkCode, IncrementAttempts, RefreshCode).                             *)
(***************************************************************************)
THEOREM CodesBurn == Spec => []GuessesAreBounded
<1>1. IInv /\ GuessesOK /\ [Next]_vars => (IInv /\ GuessesOK)'
  BY NextHolds, GuessesKept
<1>2. IInv /\ GuessesOK => GuessesAreBounded
  <2> SUFFICES ASSUME IInv, GuessesOK, NEW c \in 1..minted
               PROVE  tried[c] <= OtpMaxAttempts + Cardinality(Requests) - 1
    BY DEF GuessesAreBounded
  <2>1. c \in 1..MaxMinted
    BY AccountsAssumption DEF IInv, Types
  <2>2. tried[c] \in Nat /\ tried[c] + Cardinality(Guessing(c)) <= OtpMaxAttempts + AllRequests - 1
    BY <2>1 DEF GuessesOK, GuessesLeft
  <2> QED
    BY <2>2, GuessingCounts, AccountsAssumption DEF AllRequests
<1> QED
  BY InitHolds, GuessesStart, <1>1, <1>2, PTL DEF Spec
=============================================================================
