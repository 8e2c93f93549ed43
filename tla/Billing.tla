------------------------------- MODULE Billing -------------------------------
(***************************************************************************)
(* The bills of one application, from the hour to the account: both tasks, *)
(* with the owner who charges the account and changes the application.     *)
(***************************************************************************)
EXTENDS BillingPayment

CONSTANTS
    ChargeAmounts,  \* what the owner may charge
    MaxCharges,     \* how often
    MaxRequests     \* how often the owner changes the application's state

ASSUME OwnerAssumption ==
    /\ ChargeAmounts \subseteq Nat \ {0}
    /\ MaxCharges \in Nat /\ MaxRequests \in Nat

VARIABLES
    request,  \* an admitted request to change the state, or "none"
    done      \* [charges, requests] of the owner so far

vars == <<now, app, bills, creator, faults, txnVars, accountVars, payer, request, done>>

Init == /\ TxnInit /\ CreationInit /\ AccountInit /\ PaymentInit
        /\ request = "none"
        /\ done = [charges |-> 0, requests |-> 0]

\* A charge commits in one step: its transaction conflicts with every other write of the account.
Charge ==
    /\ done.charges < MaxCharges
    /\ \E amount \in ChargeAmounts : ChargeWithTransaction(amount, 0, 0)
    /\ TxnWrite(AccountDoc)
    /\ done' = [done EXCEPT !.charges = @ + 1]
    /\ UNCHANGED <<now, app, bills, creator, faults, payer, request>>

\* ApplicationController.updateState looks at the balance, then writes the state.
Admit ==
    /\ request = "none"
    /\ done.requests < MaxRequests
    /\ app.kept # "none"
    /\ account.balance >= 0
    /\ request' \in {"Running", "Stopped", "Restarting"}
    /\ done' = [done EXCEPT !.requests = @ + 1]
    /\ UNCHANGED <<now, app, bills, creator, faults, payer, accountVars, txnVars>>

Serve ==
    /\ request # "none"
    /\ app' = IF app.kept = "none" THEN app ELSE [app EXCEPT !.state = request]
    /\ TxnWrite(AppDoc)
    /\ request' = "none"
    /\ UNCHANGED <<now, bills, creator, faults, payer, accountVars, done>>

\* The end of a restart.
Restarted ==
    /\ app.kept # "none" /\ app.state = "Restarting"
    /\ app' = [app EXCEPT !.state = "Running"]
    /\ TxnWrite(AppDoc)
    /\ UNCHANGED <<now, bills, creator, faults, payer, accountVars, request, done>>

\* The application's deletion removes the bundle, later the document.
DeleteBundle ==
    /\ app.kept = "all"
    /\ app' = [app EXCEPT !.kept = "document", !.state = "Deleted"]
    /\ TxnWrite(AppDoc)
    /\ UNCHANGED <<now, bills, creator, faults, payer, accountVars, request, done>>

DeleteDocument ==
    /\ app.kept = "document"
    /\ app' = [app EXCEPT !.kept = "none"]
    /\ TxnWrite(AppDoc)
    /\ UNCHANGED <<now, bills, creator, faults, payer, accountVars, request, done>>

Owner == Charge \/ Admit \/ Serve \/ Restarted \/ DeleteBundle \/ DeleteDocument

CreationOnly == UNCHANGED <<accountVars, payer, request, done>>
PaymentOnly == UNCHANGED <<request, done>>

Next == \/ CreationNext /\ CreationOnly
        \/ PaymentNext /\ PaymentOnly
        \/ Owner

Spec == Init /\ [][Next]_vars

(***************************************************************************)
(* The cron of each minute claims while there is something to claim and    *)
(* handlers go on.  A transaction lasts milliseconds and the other writes  *)
(* of its documents are rarer: one of its attempts gets through, which is  *)
(* strong fairness.                                                        *)
(***************************************************************************)
Fairness ==
    /\ WF_vars(CreationOnly /\ \E c \in Creators : BillClaim(c))
    /\ WF_vars(CreationOnly /\ BillLockExpires)
    /\ \A c \in Creators : /\ WF_vars(CreationOnly /\ CreatorStep(c))
                           /\ SF_vars(CreationOnly /\ BillCommit(c))
    /\ WF_vars(PaymentOnly /\ \E p \in Payers, b \in DOMAIN bills : PayClaim(p, b))
    /\ WF_vars(PaymentOnly /\ \E b \in DOMAIN bills : PayLockExpires(b))
    /\ \A p \in Payers : /\ WF_vars(PaymentOnly /\ PayerStep(p))
                         /\ SF_vars(PaymentOnly /\ PayCommit(p))
FairSpec == Spec /\ Fairness

-----------------------------------------------------------------------------
(* Properties *)

AppStates == {"Running", "Stopped", "Restarting", "Deleted"}
Locks == Handlers \cup {Free, Nobody}

TypeOK ==
    /\ now \in 0..MaxHour
    /\ app \in [kept : {"all", "document", "none"}, latest : 0..MaxHour, lock : Locks,
                state : AppStates]
    /\ bills \in Seq([hour : 0..MaxHour, amount : Prices, state : {"Pending", "Done"}, lock : Locks])
    /\ creator \in [Creators -> [at : {"idle", "meter", "begin", "commit"},
                                 hour : 0..MaxHour, amount : Prices \cup {0}]]
    /\ payer \in [Payers -> [at : {"idle", "begin", "commit"}, bill : Nat,
                             balance : Int, stops : BOOLEAN]]
    /\ \A p \in Payers : payer[p].at # "idle" => payer[p].bill \in DOMAIN bills
    /\ account \in [balance : Int, owed : BOOLEAN]
    /\ ledger \in Seq([ref : Nat, amount : Int, reward : Nat, balance : Int])
    /\ \A h \in Handlers : writes[h] # {} => (h \in Creators => creator[h].at = "commit")
                                          /\ (h \in Payers => payer[h].at = "commit")
    /\ request \in AppStates \cup {"none"}
    /\ done \in [charges : 0..MaxCharges, requests : 0..MaxRequests]
    /\ faults \in 0..MaxFaults

BillsOf(h) == {b \in DOMAIN bills : bills[b].hour = h}
PaymentsOf(b) == {i \in DOMAIN ledger : ledger[i].ref = b}

\* If handlers end before their lock times out, the hours of an application are billed
\* one by one: every hour up to latestBillingTime, each of them once.
HoursOnce ==
    \A h \in 0..MaxHour :
        Cardinality(BillsOf(h)) \in
            (IF h < app.latest THEN {1} ELSE IF app.kept = "none" THEN {0, 1} ELSE {0})

\* However slow the handlers are, no hour before latestBillingTime is skipped.
NoHourSkipped == \A h \in 0..(app.latest - 1) : BillsOf(h) # {}

\* Under the same assumption a bill is paid once, when it becomes Done, and never before.
PaidOnce ==
    \A b \in DOMAIN bills :
        Cardinality(PaymentsOf(b)) =
            IF bills[b].state = "Done" /\ bills[b].amount > 0 THEN 1 ELSE 0

\* However slow the handlers are, a bill that is Done has been paid.
DoneIsPaid ==
    \A b \in DOMAIN bills :
        bills[b].state = "Done" /\ bills[b].amount > 0 => PaymentsOf(b) # {}

\* Every hour of an application that is kept is billed in the end, and every bill paid.
HoursAreBilled == \A h \in 0..(MaxHour - 1) :
    now > h /\ app.kept = "all" ~> BillsOf(h) # {} \/ app.kept # "all"
BillsArePaid == \A b \in 1..MaxHour :
    b \in DOMAIN bills ~> b \in DOMAIN bills /\ bills[b].state = "Done"
=============================================================================
