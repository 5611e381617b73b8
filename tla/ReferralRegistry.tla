-------------------------- MODULE ReferralRegistry --------------------------
(***************************************************************************)
(* The referral registry (contracts/referral_registry): one profile per    *)
(* registered user, naming at most one referrer for ever, the referrers'   *)
(* counters, and the credit call by which the market passes the referral   *)
(* part of a bet's fee on.  Display names are left out, and so are the     *)
(* read-only keys of users registered before the packed profile existed:   *)
(* load_profile returns the same record from either.                       *)
(*                                                                         *)
(* The native XLM asset contract that the credit call pays with is not in  *)
(* the repository: it is modelled from the transfer calls of this contract *)
(* and of prediction_market.  A contract call that moves XLM several times *)
(* chains balances: each transfer starts from what the one before it left. *)
(***************************************************************************)
EXTENDS Leaderboard

CONSTANTS
    XlmContract,                            \* the address of the XLM asset
    WelcomePoints, WelcomeTokens,           \* WELCOME_BONUS_POINTS, _TOKENS
    ReferralBetPoints                       \* REFERRAL_BET_POINTS

ASSUME ReferralConstants ==
    /\ XlmContract \in Address
    /\ {WelcomePoints, ReferralBetPoints} \subseteq Nat \ {0}
    /\ WelcomeTokens \in Nat \ {0}

VARIABLES
    xlm,            \* the XLM balance of every address
    refCfg,         \* admin, market, leaderboard and XLM contracts
    profile,        \* Profile(user), NoProfile when absent
    referralCount,  \* ReferralCount(user)
    earnings        \* ReferralEarnings(user)

refVars == <<refCfg, profile, referralCount, earnings>>

\* A transfer outside the balance traps, and reverts the transaction.
Affordable(bal, from, amount) == amount >= 0 /\ bal[from] >= amount

Transferred(bal, from, to, amount) ==
    [[bal EXCEPT ![from] = @ - amount] EXCEPT ![to] = @ + amount]

XlmTransfer(from, to, amount) ==
    /\ Affordable(xlm, from, amount)
    /\ xlm' = Transferred(xlm, from, to, amount)

-----------------------------------------------------------------------------
NoProfile == [registered |-> FALSE, referrer |-> Nobody]
ProfileOf(referrer) == [registered |-> TRUE, referrer |-> referrer]

ReferralInit ==
    /\ refCfg = [admin |-> Nobody, market |-> Nobody, leaderboard |-> Nobody, xlm |-> Nobody]
    /\ profile = [u \in Address |-> NoProfile]
    /\ referralCount = [u \in Address |-> 0]
    /\ earnings = [u \in Address |-> 0]

ReferralInitialize(admin, market, leaderboard, xlmSac) ==
    /\ refCfg.admin = Nobody
    /\ refCfg' = [admin |-> admin, market |-> market,
                  leaderboard |-> leaderboard, xlm |-> xlmSac]
    /\ UNCHANGED <<profile, referralCount, earnings, lbVars, tokenVars, xlm>>

SetXlmSac(admin, xlmSac) ==
    /\ refCfg.admin = admin
    /\ refCfg' = [refCfg EXCEPT !.xlm = xlmSac]
    /\ UNCHANGED <<profile, referralCount, earnings, lbVars, tokenVars, xlm>>

\* A slip: nothing stops a second registration.
MayRegister_Again(user, referrer) == referrer # user
MayRegister(user, referrer)       == ~profile[user].registered /\ referrer # user

\* referrer = Nobody is a registration without one.  The welcome bonus is
\* minted in the same transaction, so a failing mint undoes the registration.
RegisterReferral(user, referrer) ==
    /\ MayRegister(user, referrer)
    /\ refCfg.leaderboard = LeaderboardContract
    /\ profile' = [profile EXCEPT ![user] = ProfileOf(referrer)]
    /\ referralCount' = IF referrer = Nobody THEN referralCount
                        ELSE [referralCount EXCEPT ![referrer] = @ + 1]
    /\ RewardBonus(ReferralContract, user, WelcomePoints, WelcomeTokens)
    /\ UNCHANGED <<refCfg, earnings, xlm>>

\* credit, reached from a market call that left the XLM balances as bal: it
\* answers HasReferrer(user), and the market reads that answer.
HasReferrer(user) == profile[user].referrer # Nobody

CreditReferrer(caller, user, fee, bal) ==
    LET referrer == profile[user].referrer IN
    /\ HasReferrer(user)
    /\ refCfg.xlm = XlmContract
    /\ Affordable(bal, ReferralContract, fee)
    /\ xlm' = Transferred(bal, ReferralContract, referrer, fee)
    /\ refCfg.leaderboard = LeaderboardContract
    /\ AddBonusPts(ReferralContract, referrer, ReferralBetPoints)
    /\ earnings' = [earnings EXCEPT ![referrer] = @ + fee]

\* A slip: without a referrer the fee stays in the registry.
ReturnFee_Kept(caller, user, fee, bal) ==
    /\ ~HasReferrer(user)
    /\ xlm' = bal
    /\ UNCHANGED <<earnings, lbVars, tokenVars>>

ReturnFee(caller, user, fee, bal) ==
    /\ ~HasReferrer(user)
    /\ IF fee > 0
       THEN /\ refCfg.xlm = XlmContract
            /\ Affordable(bal, ReferralContract, fee)
            /\ xlm' = Transferred(bal, ReferralContract, caller, fee)
       ELSE xlm' = bal
    /\ UNCHANGED <<earnings, lbVars, tokenVars>>

Credit(caller, user, fee, bal) ==
    /\ caller = refCfg.market
    /\ CreditReferrer(caller, user, fee, bal) \/ ReturnFee(caller, user, fee, bal)
    /\ UNCHANGED <<refCfg, profile, referralCount>>

-----------------------------------------------------------------------------
(* Properties, of every specification this module takes part in *)

\* The counter register_referral raises in the referrer's entry is the number
\* of profiles that name it: no registration is counted twice or lost.
ReferralCountsMatch ==
    \A r \in Address :
        referralCount[r] = Cardinality({u \in Address : profile[u].referrer = r})
=============================================================================
