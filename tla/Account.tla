------------------------------- MODULE Account -------------------------------
(***************************************************************************)
(* The account of one user and its AccountTransaction documents.           *)
(***************************************************************************)
EXTENDS Integers, Sequences

CONSTANT SignupBonus  \* what a new account starts with
ASSUME SignupAssumption == SignupBonus \in Nat

VARIABLES
    account,  \* [balance, owed]; owed says that owedAt is set
    ledger    \* AccountTransaction, oldest first: [ref, amount, reward, balance]

accountVars == <<account, ledger>>

AccountInit == account = [balance |-> SignupBonus, owed |-> FALSE] /\ ledger = << >>

\* Mutant: the debt is over when the balance is zero again, or not.
ChargeStillOwed(amount, reward, ref) ==
    LET balance == account.balance + amount + reward
    IN  /\ account' = [account EXCEPT !.balance = balance]
        /\ ledger' = Append(ledger, [ref |-> ref, amount |-> amount, reward |-> reward,
                                     balance |-> balance])

\* AccountService.chargeWithTransaction, in one transaction with what it pays for.
ChargeWithTransaction(amount, reward, ref) ==
    LET balance == account.balance + amount + reward
    IN  /\ account' = [balance |-> balance, owed |-> account.owed /\ balance <= 0]
        /\ ledger' = Append(ledger, [ref |-> ref, amount |-> amount, reward |-> reward,
                                     balance |-> balance])

\* The account's part of a payment, by a transaction that read the balance before.
PayWithTransaction(amount, read, ref) ==
    /\ account' = [balance |-> account.balance - amount,
                   owed    |-> account.owed \/ read - amount < 0]
    /\ ledger' = Append(ledger, [ref |-> ref, amount |-> -amount, reward |-> 0,
                                 balance |-> read - amount])

-----------------------------------------------------------------------------

\* The transactions of an account add up to its balance, and each one shows the balance
\* it left: nothing is paid or charged without its record, and no record is made from a
\* balance that has changed since it was read.
LedgerIsTrue ==
    LET before(i) == IF i = 1 THEN SignupBonus ELSE ledger[i - 1].balance
    IN  /\ \A i \in DOMAIN ledger :
             ledger[i].balance = before(i) + ledger[i].amount + ledger[i].reward
        /\ account.balance = before(Len(ledger) + 1)

\* owedAt says when the debt began: it is set in debt and never in credit.
OwedIsTrue ==
    /\ account.balance < 0 => account.owed
    /\ account.balance > 0 => ~account.owed
=============================================================================
