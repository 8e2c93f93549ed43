------------------------------- MODULE Recharge -------------------------------
(***************************************************************************)
(* How money gets into an account: orders paid through WeChat, whose       *)
(* notifications may come late, twice and out of order, and gift codes.    *)
(* A transaction of the system database that commits is one step; one that *)
(* aborts changes nothing, and WeChat notifies again.                      *)
(***************************************************************************)
EXTENDS Account, FiniteSets

CONSTANTS
    Orders,     \* charge orders
    Codes,      \* gift codes
    Redeemers,  \* requests that may use a gift code at once
    Amounts,    \* what an order or a code may be worth
    Tiers,      \* AccountChargeReward: [amount, reward]
    Nothing,    \* no code, no order
    MaxSpent    \* how often the account pays something

ASSUME RechargeAssumption ==
    /\ Amounts \subseteq Nat \ {0}
    /\ \A t \in Tiers : t.amount \in Nat /\ t.reward \in Nat
    /\ Orders \cap Codes = {} /\ Nothing \notin Orders \cup Codes
    /\ MaxSpent \in Nat

VARIABLES
    order,  \* AccountChargeOrder: [phase, amount]; phase "none" before it is created
    trade,  \* what WeChat knows of the order: "open" or "paid"
    sent,   \* the notifications WeChat has sent, each delivered any number of times
    used,   \* the gift codes that are marked used
    redeem, \* redeem[r]: the code that request r has found unused
    spent   \* payments so far

vars == <<accountVars, order, trade, sent, used, redeem, spent>>

Init ==
    /\ AccountInit
    /\ order \in [Orders -> [phase : {"none"}, amount : Amounts]]
    /\ trade = [o \in Orders |-> "open"]
    /\ sent = {}
    /\ used = {}
    /\ redeem = [r \in Redeemers |-> Nothing]
    /\ spent = 0

\* The reward of the largest tier that the amount reaches.
Reward(amount) ==
    LET reached == {t \in Tiers : t.amount <= amount}
    IN  IF reached = {} THEN 0
        ELSE (CHOOSE t \in reached : \A u \in reached : u.amount <= t.amount).reward

-----------------------------------------------------------------------------

CreateChargeOrder(o) ==
    /\ order[o].phase = "none"
    /\ order' = [order EXCEPT ![o].phase = "Pending"]
    /\ UNCHANGED <<accountVars, trade, sent, used, redeem, spent>>

\* The user's attempts to pay: the trade fails, is closed or is paid.
TradeFails(o) ==
    /\ order[o].phase # "none" /\ trade[o] = "open"
    /\ sent' = sent \cup {[order |-> o, success |-> FALSE]}
    /\ UNCHANGED <<accountVars, order, trade, used, redeem, spent>>

TradePaid(o) ==
    /\ order[o].phase # "none" /\ trade[o] = "open"
    /\ trade' = [trade EXCEPT ![o] = "paid"]
    /\ sent' = sent \cup {[order |-> o, success |-> TRUE]}
    /\ UNCHANGED <<accountVars, order, used, redeem, spent>>

\* wechatNotify, trade_state other than SUCCESS: outside the transaction, whatever the phase.
NotifyFailed(o) ==
    /\ [order |-> o, success |-> FALSE] \in sent
    /\ order' = [order EXCEPT ![o].phase = "Failed"]
    /\ UNCHANGED <<accountVars, trade, sent, used, redeem, spent>>

\* Mutant: the phase is not in the filter of the update.
NotifySuccessAgain(o) ==
    /\ [order |-> o, success |-> TRUE] \in sent
    /\ Len(ledger) < 3
    /\ order' = [order EXCEPT ![o].phase = "Paid"]
    /\ ChargeWithTransaction(order[o].amount, Reward(order[o].amount), o)
    /\ UNCHANGED <<trade, sent, used, redeem, spent>>

\* Mutant: an account that owes is not credited.
NotifySuccessUnowed(o) ==
    /\ [order |-> o, success |-> TRUE] \in sent
    /\ IF order[o].phase = "Pending" /\ ~account.owed
         THEN /\ order' = [order EXCEPT ![o].phase = "Paid"]
              /\ ChargeWithTransaction(order[o].amount, Reward(order[o].amount), o)
         ELSE UNCHANGED <<order, accountVars>>
    /\ UNCHANGED <<trade, sent, used, redeem, spent>>

\* A notification that finds the order no longer Pending is not even answered.
NotifySuccess(o) ==
    /\ [order |-> o, success |-> TRUE] \in sent
    /\ IF order[o].phase = "Pending"
         THEN /\ order' = [order EXCEPT ![o].phase = "Paid"]
              /\ ChargeWithTransaction(order[o].amount, Reward(order[o].amount), o)
         ELSE UNCHANGED <<order, accountVars>>
    /\ UNCHANGED <<trade, sent, used, redeem, spent>>

\* giftCode looks at the code outside the transaction that uses it.
GiftCheck(r, c) ==
    /\ redeem[r] = Nothing
    /\ c \notin used
    /\ redeem' = [redeem EXCEPT ![r] = c]
    /\ UNCHANGED <<accountVars, order, trade, sent, used, spent>>

\* useGiftCode marks the code without looking at it again.
GiftRedeem(r) ==
    /\ redeem[r] # Nothing
    /\ \E amount \in Amounts : ChargeWithTransaction(amount, 0, redeem[r])
    /\ used' = used \cup {redeem[r]}
    /\ redeem' = [redeem EXCEPT ![r] = Nothing]
    /\ UNCHANGED <<order, trade, sent, spent>>

\* The transaction fails, or the server dies.
GiftFails(r) ==
    /\ redeem[r] # Nothing
    /\ redeem' = [redeem EXCEPT ![r] = Nothing]
    /\ UNCHANGED <<accountVars, order, trade, sent, used, spent>>

\* A bill is paid from the account.
Spend ==
    /\ spent < MaxSpent
    /\ \E amount \in Amounts : PayWithTransaction(amount, account.balance, Nothing)
    /\ spent' = spent + 1
    /\ UNCHANGED <<order, trade, sent, used, redeem>>

Next ==
    \/ \E o \in Orders : \/ CreateChargeOrder(o) \/ TradeFails(o) \/ TradePaid(o)
                         \/ NotifyFailed(o) \/ NotifySuccess(o)
    \/ \E r \in Redeemers : GiftRedeem(r) \/ GiftFails(r) \/ \E c \in Codes : GiftCheck(r, c)
    \/ Spend

Spec == Init /\ [][Next]_vars

\* WeChat repeats a notification until it is answered with status 200.
FairSpec == Spec /\ \A o \in Orders : WF_vars(NotifySuccess(o))

-----------------------------------------------------------------------------
(* Properties *)

CreditsOf(x) == {i \in DOMAIN ledger : ledger[i].ref = x}

TypeOK ==
    /\ account \in [balance : Int, owed : BOOLEAN]
    /\ ledger \in Seq([ref : Orders \cup Codes \cup {Nothing}, amount : Int, reward : Nat,
                       balance : Int])
    /\ order \in [Orders -> [phase : {"none", "Pending", "Paid", "Failed"}, amount : Amounts]]
    /\ trade \in [Orders -> {"open", "paid"}]
    /\ sent \subseteq [order : Orders, success : BOOLEAN]
    /\ used \subseteq Codes
    /\ redeem \in [Redeemers -> Codes \cup {Nothing}]
    /\ spent \in 0..MaxSpent

\* Notifications that are repeated, late or out of order credit an order at most once,
\* with the reward of its tier, and only a trade that is paid.
ChargedOnce ==
    \A o \in Orders :
        /\ Cardinality(CreditsOf(o)) <= 1
        /\ \A i \in CreditsOf(o) : /\ trade[o] = "paid"
                                   /\ ledger[i].amount = order[o].amount
                                   /\ ledger[i].reward = Reward(order[o].amount)
        /\ order[o].phase = "Paid" => CreditsOf(o) # {}

\* account.controller "update order to success": an order that is paid at the first attempt
\* is Paid in the end.  One that was paid after a failed attempt need not be, for a failure
\* that is notified late makes any order Failed and success takes up Pending ones only.
SuccessIsRecorded ==
    \A o \in Orders :
        trade[o] = "paid" /\ [order |-> o, success |-> FALSE] \notin sent
            ~> order[o].phase = "Paid"
=============================================================================
