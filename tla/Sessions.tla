------------------------------ MODULE Sessions ------------------------------
(***************************************************************************)
(* How long a session lives (auth_service.go, sessions.sql.go).  Time is    *)
(* counted from the login in units of a day; a session's life is a fold     *)
(* over the requests that come with its token.  IssueSession gives it an    *)
(* idle window, and every request may slide its expiry.                     *)
(***************************************************************************)
EXTENDS Integers, Sequences, SequencesExt

CONSTANTS
  SessionIdleTTL,
  SessionRenewWindow,
  SessionAbsoluteTTL

ASSUME SessionsAssumption ==
  /\ {SessionIdleTTL, SessionRenewWindow, SessionAbsoluteTTL} \subseteq Nat
  /\ SessionRenewWindow < SessionIdleTTL
  /\ SessionIdleTTL < SessionAbsoluteTTL

NewSession == [alive |-> TRUE, now |-> 0, expires |-> SessionIdleTTL]

\* GetSessionWithUser: expires_at > NOW().
GetSessionWithUser(session) == session.alive /\ session.expires > session.now

\* Mutant: a session is slid in its last day only.
SlideSessionLate(session) ==
  IF session.expires - session.now > SessionIdleTTL - SessionRenewWindow THEN session.expires
  ELSE IF session.now + SessionIdleTTL < SessionAbsoluteTTL
       THEN session.now + SessionIdleTTL ELSE SessionAbsoluteTTL

\* The expiry, slid once little enough is left and never past the ceiling.
SlideSession(session) ==
  LET renewed == session.now + SessionIdleTTL
  IN  IF session.expires - session.now > SessionRenewWindow THEN session.expires
      ELSE IF session.now >= SessionAbsoluteTTL THEN session.expires
      ELSE IF renewed > SessionAbsoluteTTL THEN SessionAbsoluteTTL
      ELSE renewed

\* A request with the token, so many days after the one before.  The slide
\* may fail, and the request is served all the same.
GetUserByToken(session, visit) ==
  LET arrived == [session EXCEPT !.now = @ + visit.after]
  IN  IF ~GetSessionWithUser(arrived) THEN [arrived EXCEPT !.alive = FALSE]
      ELSE IF visit.writes THEN [arrived EXCEPT !.expires = SlideSession(arrived)]
      ELSE arrived

AfterVisits(visits) == FoldLeft(GetUserByToken, NewSession, visits)
=============================================================================
