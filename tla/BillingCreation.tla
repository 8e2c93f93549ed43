--------------------------- MODULE BillingCreation ---------------------------
(***************************************************************************)
(* BillingCreationTaskService: one application is billed hour by hour.     *)
(* Time is counted in hours; hour h is the interval from h to h + 1.       *)
(***************************************************************************)
EXTENDS Integers, Sequences, FiniteSets, Transactions

CONSTANTS
    Creators,      \* handler executions that create bills, one per replica
    Free,          \* the lock's timestamp is older than its timeout
    Nobody,        \* the timestamp is recent, and no handler counts on it
    SlowHandlers,  \* may a live handler outlast its lock?
    MaxFaults,     \* how many handlers may throw or die half-way
    MaxHour,       \* how many hours pass
    MaxBills,      \* no claim after so many bills: slow handlers bill an hour again
    Prices         \* what an hour may cost

ASSUME CreationAssumption ==
    /\ Creators \subseteq Handlers
    /\ Free # Nobody /\ Free \notin Handlers /\ Nobody \notin Handlers
    /\ SlowHandlers \in BOOLEAN
    /\ MaxFaults \in Nat /\ MaxHour \in Nat /\ MaxBills \in Nat /\ Prices \subseteq Nat

VARIABLES
    now,      \* hours since the application was created
    app,      \* [kept, latest, lock, state]: what billing reads of the Application
    bills,    \* ApplicationBilling, oldest first: [hour, amount, state, lock]
    creator,  \* handler executions: [at, hour, amount]
    faults    \* handlers that have thrown or died so far

AppDoc == {<<"app", 0>>}
CreatorIdle == [at |-> "idle", hour |-> 0, amount |-> 0]

\* app.kept counts down the deletion: the bundle goes first, then the document.
CreationInit ==
    /\ now = 0
    /\ app = [kept |-> "all", latest |-> 0, lock |-> Free, state |-> "Running"]
    /\ bills = << >>
    /\ creator = [c \in Creators |-> CreatorIdle]
    /\ faults = 0

CreatorGoto(c, step) == creator' = [creator EXCEPT ![c].at = step]
CreatorEnd(c) == creator' = [creator EXCEPT ![c] = CreatorIdle]

-----------------------------------------------------------------------------

\* Mutant: the filter on billingLockedAt is forgotten.
BillClaimLocked(c) ==
    /\ creator[c].at = "idle"
    /\ app.kept # "none"
    /\ app.latest < now
    /\ Len(bills) < MaxBills
    /\ app' = [app EXCEPT !.lock = c]
    /\ creator' = [creator EXCEPT ![c] = [at |-> "meter", hour |-> app.latest, amount |-> 0]]
    /\ TxnWrite(AppDoc)
    /\ UNCHANGED <<now, bills, faults>>

\* findOneAndUpdate({billingLockedAt, latestBillingTime}, {billingLockedAt: now}): an
\* hour is over and not billed.  The handler goes on with the document it read.
BillClaim(c) ==
    /\ creator[c].at = "idle"
    /\ app.kept # "none"
    /\ app.latest < now
    /\ Len(bills) < MaxBills
    /\ app.lock = Free
    /\ app' = [app EXCEPT !.lock = c]
    /\ creator' = [creator EXCEPT ![c] = [at |-> "meter", hour |-> app.latest, amount |-> 0]]
    /\ TxnWrite(AppDoc)
    /\ UNCHANGED <<now, bills, faults>>

\* getMeteringData and calculatePrice; a trial and an idle application cost nothing.
Meter(c) ==
    /\ creator[c].at = "meter"
    /\ app.kept = "all"
    /\ \E price \in Prices :
         creator' = [creator EXCEPT ![c].at = "begin", ![c].amount = price]
    /\ UNCHANGED <<now, app, bills, faults, txnVars>>

MeterNoBundle(c) ==
    /\ creator[c].at = "meter"
    /\ app.kept # "all"
    /\ CreatorEnd(c)
    /\ UNCHANGED <<now, app, bills, faults, txnVars>>

\* The insert takes the snapshot; the update that follows conflicts with whoever has
\* written the Application since.
BillBegin(c) ==
    /\ creator[c].at = "begin"
    /\ TxnBegin(c, IF app.kept = "none" THEN {} ELSE AppDoc)
    /\ CreatorGoto(c, "commit")
    /\ UNCHANGED <<now, app, bills, faults>>

NewBill(c) == [hour   |-> creator[c].hour,
               amount |-> creator[c].amount,
               state  |-> IF creator[c].amount = 0 THEN "Done" ELSE "Pending",
               lock   |-> Free]

\* The lock is given back only if another hour is over already.
BillCommit(c) ==
    LET next == creator[c].hour + 1
    IN  /\ creator[c].at = "commit"
        /\ TxnCommit(c)
        /\ bills' = Append(bills, NewBill(c))
        /\ app' = IF app.kept = "none" THEN app
                  ELSE [app EXCEPT !.latest = next, !.lock = IF now > next THEN Free ELSE @]
        /\ CreatorEnd(c)
        /\ UNCHANGED <<now, faults>>

\* Mutant: the transaction is left open.
BillAbortOpen(c) ==
    /\ creator[c].at = "commit"
    /\ c \in stale
    /\ CreatorEnd(c)
    /\ UNCHANGED <<now, app, bills, faults, txnVars>>

\* A write conflict throws; the error is logged and the lock stays.
BillAbort(c) ==
    /\ creator[c].at = "commit"
    /\ c \in stale
    /\ TxnEnd(c)
    /\ CreatorEnd(c)
    /\ UNCHANGED <<now, app, bills, faults>>

CreatorThrow(c) ==
    /\ creator[c].at # "idle"
    /\ faults < MaxFaults
    /\ faults' = faults + 1
    /\ TxnEnd(c)
    /\ CreatorEnd(c)
    /\ UNCHANGED <<now, app, bills>>

\* Mutant: the lock of a handler that is gone stays.
BillLockKept ==
    /\ app.lock = Nobody
    /\ app' = [app EXCEPT !.lock = Free]
    /\ UNCHANGED <<now, bills, creator, faults, txnVars>>

\* billingLockedAt gets older than 15 seconds.
BillLockExpires ==
    /\ app.lock # Free
    /\ \/ SlowHandlers
       \/ app.lock \notin Creators
       \/ app.lock \in Creators /\ creator[app.lock].at = "idle"
    /\ app' = [app EXCEPT !.lock = Free]
    /\ UNCHANGED <<now, bills, creator, faults, txnVars>>

HourPasses ==
    /\ now < MaxHour
    /\ now' = now + 1
    /\ UNCHANGED <<app, bills, creator, faults, txnVars>>

CreatorStep(c) == Meter(c) \/ MeterNoBundle(c) \/ BillBegin(c) \/ BillCommit(c) \/ BillAbort(c)
CreationNext ==
    \/ \E c \in Creators : BillClaim(c) \/ CreatorStep(c) \/ CreatorThrow(c)
    \/ BillLockExpires
    \/ HourPasses
=============================================================================
