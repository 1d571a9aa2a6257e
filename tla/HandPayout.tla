----------------------------- MODULE HandPayout -----------------------------
(***************************************************************************)
(* The rake: WalletService.ProcessHandPayout splits one pot award, and      *)
(* GameService.handlePotCommission runs it over the payouts of a hand.      *)
(* Percentages are whole numbers here, so math.Floor of the float product   *)
(* is \div.                                                                 *)
(***************************************************************************)
EXTENDS GameEngine

CONSTANTS
  House,               \* the house account
  ReferrerOf,          \* user -> the user whose referral code he signed up with
  RakeMode,            \* SiteSetting.RakeMode
  RakePercentage,      \* SiteSetting.RakePercentage
  ReferralPercentage   \* the referral percentage of that mode

ASSUME RakeAssumption ==
  /\ RakeMode \in {"small_blind", "percentage"}
  /\ RakePercentage \in 0 .. 100
  /\ ReferralPercentage \in 0 .. 100

SiteRake(amount) ==
  IF RakeMode = "small_blind" THEN LesserOf(SmallBlind, amount)
                              ELSE (amount * RakePercentage) \div 100

\* The referral leg comes out of what the rake left.
ReferralCut(user, amount) ==
  IF user \notin DOMAIN ReferrerOf THEN 0
  ELSE LesserOf((amount * ReferralPercentage) \div 100, amount - SiteRake(amount))

\* What a hand's payouts bring an account, the house or a referrer.
CommissionTo(account, paid) ==
  SumOver(paid,
    LAMBDA p : p.times * (  (IF account = House THEN SiteRake(p.amount) ELSE 0)
                          + (IF /\ p.winner \in DOMAIN ReferrerOf
                                /\ account = ReferrerOf[p.winner]
                             THEN ReferralCut(p.winner, p.amount) ELSE 0)))

\* What they take back off the stack of a winner.
RakedFrom(user, paid) ==
  SumOver({p \in paid : p.winner = user},
    LAMBDA p : p.times * (SiteRake(p.amount) + ReferralCut(user, p.amount)))

\* Mutant: the rake is credited to the house and not taken off the stack.
RakedFromNobody(g) == [g EXCEPT !.payouts = {}]

\* The stacks after the rake; Payouts is emptied, so nothing is raked twice.
Raked(g) ==
  [g EXCEPT !.payouts = {},
            !.seats = SeatsBy(g, LAMBDA i :
              LET p == g.seats[i]
              IN  [p EXCEPT !.chips = @ - LesserOf(@, RakedFrom(p.name, g.payouts))])]
=============================================================================
