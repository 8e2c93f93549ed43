--------------------------- MODULE BillingPayment ---------------------------
(***************************************************************************)
(* BillingPaymentTaskService: pending bills are paid from the account of   *)
(* the application's owner, and an application whose owner cannot pay is   *)
(* stopped.                                                                *)
(***************************************************************************)
EXTENDS BillingCreation, Account

CONSTANT Payers  \* handler executions that pay bills, one per replica

ASSUME PaymentAssumption == Payers \subseteq Handlers /\ Payers \cap Creators = {}

VARIABLE payer  \* handler executions: [at, bill, balance, stops]

AccountDoc == {<<"account", 0>>}
BillDoc(b) == {<<"bill", b>>}
PayerIdle == [at |-> "idle", bill |-> 0, balance |-> 0, stops |-> FALSE]
PaymentInit == payer = [p \in Payers |-> PayerIdle]

PayerEnd(p) == payer' = [payer EXCEPT ![p] = PayerIdle]

\* Mutant: the filter on lockedAt is forgotten.
PayClaimLocked(p, b) ==
    /\ payer[p].at = "idle"
    /\ bills[b].state = "Pending"
    /\ bills' = [bills EXCEPT ![b].lock = p]
    /\ payer' = [payer EXCEPT ![p] = [PayerIdle EXCEPT !.at = "begin", !.bill = b]]
    /\ TxnWrite(BillDoc(b))
    /\ UNCHANGED <<now, app, creator, faults, accountVars>>

\* findOneAndUpdate({state: Pending, lockedAt}, {lockedAt: now}): any pending bill.
PayClaim(p, b) ==
    /\ payer[p].at = "idle"
    /\ bills[b].state = "Pending"
    /\ bills[b].lock = Free
    /\ bills' = [bills EXCEPT ![b].lock = p]
    /\ payer' = [payer EXCEPT ![p] = [PayerIdle EXCEPT !.at = "begin", !.bill = b]]
    /\ TxnWrite(BillDoc(b))
    /\ UNCHANGED <<now, app, creator, faults, accountVars>>

\* The snapshot decides whether the application will be stopped, and so whether a
\* write of it conflicts.  withTransaction begins again after a conflict.
PayBegin(p) ==
    LET stops == /\ account.balance < bills[payer[p].bill].amount
                 /\ app.kept # "none"
                 /\ app.state = "Running"
    IN  /\ \/ payer[p].at = "begin"
           \/ payer[p].at = "commit" /\ p \in stale
        /\ TxnBegin(p, AccountDoc \cup BillDoc(payer[p].bill) \cup (IF stops THEN AppDoc ELSE {}))
        /\ payer' = [payer EXCEPT ![p].at = "commit", ![p].balance = account.balance,
                                  ![p].stops = stops]
        /\ UNCHANGED <<now, app, bills, creator, faults, accountVars>>

\* Mutant: the account is read without the session, so that no conflict is seen.
PayCommitUnread(p) ==
    LET b == payer[p].bill
    IN  /\ payer[p].at = "commit"
        /\ TxnEnd(p)
        /\ PayWithTransaction(bills[b].amount, payer[p].balance, b)
        /\ bills' = [bills EXCEPT ![b].state = "Done"]
        /\ app' = IF payer[p].stops THEN [app EXCEPT !.state = "Stopped"] ELSE app
        /\ PayerEnd(p)
        /\ UNCHANGED <<now, creator, faults>>

PayCommit(p) ==
    LET b == payer[p].bill
    IN  /\ payer[p].at = "commit"
        /\ TxnCommit(p)
        /\ PayWithTransaction(bills[b].amount, payer[p].balance, b)
        /\ bills' = [bills EXCEPT ![b].state = "Done"]
        /\ app' = IF payer[p].stops THEN [app EXCEPT !.state = "Stopped"] ELSE app
        /\ PayerEnd(p)
        /\ UNCHANGED <<now, creator, faults>>

\* An error, two minutes of conflicts or a crash: the bill waits for its lock's timeout.
PayerThrow(p) ==
    /\ payer[p].at # "idle"
    /\ faults < MaxFaults
    /\ faults' = faults + 1
    /\ TxnEnd(p)
    /\ PayerEnd(p)
    /\ UNCHANGED <<now, app, bills, creator, accountVars>>

PayerHolds(b) ==
    \E p \in Payers : bills[b].lock = p /\ payer[p].at # "idle" /\ payer[p].bill = b

\* Mutant: the lock of a handler that died stays.
PayLockKept(b) ==
    /\ bills[b].lock = Nobody
    /\ bills' = [bills EXCEPT ![b].lock = Free]
    /\ UNCHANGED <<now, app, creator, payer, faults, accountVars, txnVars>>

\* lockedAt gets older than an hour.
PayLockExpires(b) ==
    /\ bills[b].lock # Free
    /\ SlowHandlers \/ ~PayerHolds(b)
    /\ bills' = [bills EXCEPT ![b].lock = Free]
    /\ UNCHANGED <<now, app, creator, payer, faults, accountVars, txnVars>>

PayerStep(p) == PayBegin(p) \/ PayCommit(p)
PaymentNext ==
    \/ \E p \in Payers : PayerStep(p) \/ PayerThrow(p)
    \/ \E p \in Payers, b \in DOMAIN bills : PayClaim(p, b)
    \/ \E b \in DOMAIN bills : PayLockExpires(b)
=============================================================================
