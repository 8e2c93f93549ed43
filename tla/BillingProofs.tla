---------------------------- MODULE BillingProofs ----------------------------
(***************************************************************************)
(* What holds of bills and accounts for every number of replicas, prices   *)
(* and charges: no hour is lost and the account is true however slow the   *)
(* handlers are; that each hour is billed once and each bill paid once     *)
(* needs handlers that end before their locks time out.                    *)
(***************************************************************************)
EXTENDS Billing, SequenceTheorems, FiniteSetTheorems, TLAPS

Docs == {"app", "account", "bill"} \X Nat
BillType == [hour : 0..MaxHour, amount : Prices, state : {"Pending", "Done"}, lock : Locks]
EntryType == [ref : Nat, amount : Int, reward : Nat, balance : Int]
AppType == [kept : {"all", "document", "none"}, latest : 0..MaxHour, lock : Locks,
            state : AppStates]
CreatorType == [at : {"idle", "meter", "begin", "commit"}, hour : 0..MaxHour,
                amount : Prices \cup {0}]
PayerType == [at : {"idle", "begin", "commit"}, bill : Nat, balance : Int, stops : BOOLEAN]

TxnTyped == writes \in [Handlers -> SUBSET Docs] /\ stale \subseteq Handlers

\* A handler bills an hour that is over, for a price it has calculated.
CreatorsOK ==
    /\ creator \in [Creators -> CreatorType]
    /\ \A c \in Creators : creator[c].at # "idle" => creator[c].hour < now
    /\ \A c \in Creators : creator[c].at \in {"begin", "commit"} => creator[c].amount \in Prices

PayersOK ==
    /\ payer \in [Payers -> PayerType]
    /\ \A p \in Payers : payer[p].at # "idle" => payer[p].bill \in DOMAIN bills

\* Documents are written by the handler whose transaction is open.
WritersOK ==
    \A h \in Handlers : writes[h] # {} => /\ h \in Creators => creator[h].at = "commit"
                                          /\ h \in Payers => payer[h].at = "commit"

TypeInv ==
    /\ now \in 0..MaxHour
    /\ app \in AppType
    /\ bills \in Seq(BillType)
    /\ CreatorsOK /\ PayersOK
    /\ account \in [balance : Int, owed : BOOLEAN]
    /\ ledger \in Seq(EntryType)
    /\ TxnTyped /\ WritersOK
    /\ request \in AppStates \cup {"none"}
    /\ done \in [charges : 0..MaxCharges, requests : 0..MaxRequests]
    /\ faults \in 0..MaxFaults

LEMMA TypeInvImplies == TypeInv => TypeOK
BY DEF TypeInv, TypeOK, AppType, BillType, EntryType, CreatorType, PayerType, CreatorsOK,
       PayersOK, WritersOK

-----------------------------------------------------------------------------
(* Lemmas about the building blocks *)

LEMMA TxnLemma ==
  ASSUME TxnTyped, NEW h \in Handlers, NEW docs \in SUBSET Docs,
         TxnBegin(h, docs) \/ TxnCommit(h) \/ TxnEnd(h)
  PROVE  /\ TxnTyped'
         /\ \A g \in Handlers \ {h} : writes'[g] = writes[g] /\ (g \in stale => g \in stale')
         /\ ~TxnBegin(h, docs) => writes'[h] = {}
         /\ TxnBegin(h, docs) => writes'[h] = docs /\ h \notin stale'
BY DEF TxnTyped, TxnBegin, TxnCommit, TxnEnd, Overtaken

LEMMA TxnWriteLemma ==
  ASSUME TxnTyped, NEW docs, TxnWrite(docs)
  PROVE  /\ TxnTyped' /\ writes' = writes /\ stale \subseteq stale'
         /\ \A h \in Handlers : writes[h] \cap docs # {} => h \in stale'
BY DEF TxnTyped, TxnWrite, Overtaken

LEMMA CreatorSet ==
  ASSUME creator \in [Creators -> CreatorType], NEW c \in Creators, NEW r \in CreatorType,
         creator' = [creator EXCEPT ![c] = r]
  PROVE  /\ creator' \in [Creators -> CreatorType]
         /\ creator'[c] = r
         /\ \A d \in Creators \ {c} : creator'[d] = creator[d]
OBVIOUS

LEMMA PayerSet ==
  ASSUME payer \in [Payers -> PayerType], NEW p \in Payers, NEW r \in PayerType,
         payer' = [payer EXCEPT ![p] = r]
  PROVE  /\ payer' \in [Payers -> PayerType]
         /\ payer'[p] = r
         /\ \A q \in Payers \ {p} : payer'[q] = payer[q]
OBVIOUS

\* Changing a bill changes neither how many there are nor their hours and amounts.
LEMMA BillSet ==
  ASSUME bills \in Seq(BillType), NEW b \in DOMAIN bills, NEW r \in BillType,
         bills' = [bills EXCEPT ![b] = r]
  PROVE  /\ bills' \in Seq(BillType)
         /\ Len(bills') = Len(bills) /\ DOMAIN bills' = DOMAIN bills
         /\ bills'[b] = r
         /\ \A a \in DOMAIN bills \ {b} : bills'[a] = bills[a]
<1>1. DOMAIN bills = 1..Len(bills)  BY LenProperties
<1>2. /\ bills' \in Seq(BillType)
      /\ Len(bills') = Len(bills)
      /\ \A a \in 1..Len(bills) : bills'[a] = IF a = b THEN r ELSE bills[a]
  BY <1>1, ExceptSeq
<1> QED  BY <1>1, <1>2, LenProperties

\* A new bill goes to the end.
LEMMA BillAppend ==
  ASSUME bills \in Seq(BillType), NEW r \in BillType, bills' = Append(bills, r)
  PROVE  /\ bills' \in Seq(BillType)
         /\ Len(bills) + 1 \in DOMAIN bills' /\ bills'[Len(bills) + 1] = r
         /\ \A b \in DOMAIN bills : b \in DOMAIN bills' /\ bills'[b] = bills[b]
         /\ \A b \in DOMAIN bills' : b \in DOMAIN bills \/ b = Len(bills) + 1
<1>1. DOMAIN bills = 1..Len(bills) /\ Len(bills) \in Nat  BY LenProperties
<1>2. /\ bills' \in Seq(BillType)
      /\ Len(bills') = Len(bills) + 1
      /\ \A b \in 1..Len(bills) : bills'[b] = bills[b]
      /\ bills'[Len(bills) + 1] = r
  BY AppendProperties
<1>3. DOMAIN bills' = 1..(Len(bills) + 1)  BY <1>2, LenProperties
<1> QED  BY <1>1, <1>2, <1>3

LEMMA LedgerAppend ==
  ASSUME ledger \in Seq(EntryType), NEW r \in EntryType, ledger' = Append(ledger, r)
  PROVE  /\ ledger' \in Seq(EntryType)
         /\ DOMAIN ledger = 1..Len(ledger) /\ Len(ledger) \in Nat
         /\ Len(ledger') = Len(ledger) + 1 /\ DOMAIN ledger' = 1..(Len(ledger) + 1)
         /\ ledger'[Len(ledger) + 1] = r
         /\ \A i \in 1..Len(ledger) : ledger'[i] = ledger[i]
<1>1. DOMAIN ledger = 1..Len(ledger) /\ Len(ledger) \in Nat  BY LenProperties
<1>2. /\ ledger' \in Seq(EntryType)
      /\ Len(ledger') = Len(ledger) + 1
      /\ \A i \in 1..Len(ledger) : ledger'[i] = ledger[i]
      /\ ledger'[Len(ledger) + 1] = r
  BY AppendProperties
<1>3. DOMAIN ledger' = 1..(Len(ledger) + 1)  BY <1>2, LenProperties
<1> QED  BY <1>1, <1>2, <1>3

LEMMA CreatorAt ==
  ASSUME creator \in [Creators -> CreatorType], NEW c \in Creators,
         NEW s \in {"idle", "meter", "begin", "commit"}, CreatorGoto(c, s)
  PROVE  /\ creator' \in [Creators -> CreatorType]
         /\ creator'[c].at = s
         /\ creator'[c].hour = creator[c].hour /\ creator'[c].amount = creator[c].amount
         /\ \A d \in Creators \ {c} : creator'[d] = creator[d]
BY DEF CreatorGoto, CreatorType

LEMMA CreatorEnds ==
  ASSUME creator \in [Creators -> CreatorType], NEW c \in Creators, CreatorEnd(c)
  PROVE  /\ creator' \in [Creators -> CreatorType]
         /\ creator'[c] = CreatorIdle /\ creator'[c].at = "idle"
         /\ \A d \in Creators \ {c} : creator'[d] = creator[d]
<1>1. 0 \in 0..MaxHour  BY CreationAssumption
<1>2. CreatorIdle \in CreatorType  BY <1>1 DEF CreatorIdle, CreatorType
<1> QED  BY <1>2, CreatorSet DEF CreatorEnd, CreatorIdle

LEMMA PayerEnds ==
  ASSUME payer \in [Payers -> PayerType], NEW p \in Payers, PayerEnd(p)
  PROVE  /\ payer' \in [Payers -> PayerType]
         /\ payer'[p] = PayerIdle /\ payer'[p].at = "idle"
         /\ \A q \in Payers \ {p} : payer'[q] = payer[q]
<1>1. PayerIdle \in PayerType  BY DEF PayerIdle, PayerType
<1> QED  BY <1>1, PayerSet DEF PayerEnd, PayerIdle

\* A transaction that shows the balance it leaves keeps the ledger true.
LEMMA LedgerExtends ==
  ASSUME ledger \in Seq(EntryType), account.balance \in Int, LedgerIsTrue,
         NEW r \in EntryType, ledger' = Append(ledger, r),
         r.balance = account.balance + r.amount + r.reward, account'.balance = r.balance
  PROVE  LedgerIsTrue'
<1> DEFINE n == Len(ledger)
<1>1. /\ DOMAIN ledger = 1..n /\ n \in Nat
      /\ Len(ledger') = n + 1 /\ DOMAIN ledger' = 1..(n + 1)
      /\ ledger'[n + 1] = r
      /\ \A i \in 1..n : ledger'[i] = ledger[i]
  BY LedgerAppend
<1> HIDE DEF n
<1>2. /\ \A i \in 1..n : ledger[i].balance = (IF i = 1 THEN SignupBonus ELSE ledger[i - 1].balance)
                                               + ledger[i].amount + ledger[i].reward
      /\ account.balance = IF n + 1 = 1 THEN SignupBonus ELSE ledger[n].balance
  BY <1>1 DEF LedgerIsTrue, n
<1>3. ASSUME NEW i \in 1..(n + 1)
      PROVE  ledger'[i].balance = (IF i = 1 THEN SignupBonus ELSE ledger'[i - 1].balance)
                                    + ledger'[i].amount + ledger'[i].reward
  <2>1. CASE i \in 1..n
    <3>1. i = 1 \/ i - 1 \in 1..n  BY <1>1, <2>1
    <3> QED  BY <1>1, <1>2, <2>1, <3>1
  <2>2. CASE i = n + 1
    <3>1. ledger'[i] = r  BY <1>1, <2>2
    <3>2. account.balance = IF i = 1 THEN SignupBonus ELSE ledger'[i - 1].balance
      BY <1>1, <1>2, <2>2
    <3> QED  BY <3>1, <3>2
  <2> QED  BY <1>1, <2>1, <2>2
<1>4. account'.balance = IF Len(ledger') + 1 = 1 THEN SignupBonus ELSE ledger'[Len(ledger') + 1 - 1].balance
  BY <1>1
<1> QED  BY <1>1, <1>3, <1>4 DEF LedgerIsTrue

\* What a charge and a payment do to the account, if the payment read the true balance.
LEMMA ChargeLemma ==
  ASSUME TypeInv, NEW amount \in Nat, NEW reward \in Nat, NEW ref \in Nat,
         ChargeWithTransaction(amount, reward, ref)
  PROVE  /\ account' \in [balance : Int, owed : BOOLEAN]
         /\ ledger' \in Seq(EntryType)
         /\ LedgerIsTrue => LedgerIsTrue'
         /\ OwedIsTrue => OwedIsTrue'
<1> DEFINE balance == account.balance + amount + reward
           r == [ref |-> ref, amount |-> amount, reward |-> reward, balance |-> balance]
<1>1. account.balance \in Int /\ account.owed \in BOOLEAN  BY DEF TypeInv
<1>2. r \in EntryType  BY <1>1 DEF EntryType
<1>3. /\ account' = [balance |-> balance, owed |-> account.owed /\ balance <= 0]
      /\ ledger' = Append(ledger, r)
  BY DEF ChargeWithTransaction
<1>4. account' \in [balance : Int, owed : BOOLEAN]  BY <1>1, <1>3
<1>5. account'.balance = balance /\ (account'.owed <=> account.owed /\ balance <= 0)
  BY <1>3
<1>6. ledger \in Seq(EntryType)  BY DEF TypeInv
<1>7. LedgerIsTrue => LedgerIsTrue'
  <2>1. r.amount = amount /\ r.reward = reward /\ r.balance = balance  OBVIOUS
  <2> HIDE DEF r
  <2> QED  BY <2>1, <1>1, <1>2, <1>3, <1>5, <1>6, LedgerExtends
<1>8. OwedIsTrue => OwedIsTrue'  BY <1>1, <1>5 DEF OwedIsTrue
<1>9. ledger' \in Seq(EntryType)  BY <1>2, <1>3, <1>6, LedgerAppend
<1> QED  BY <1>4, <1>7, <1>8, <1>9

LEMMA PayLemma ==
  ASSUME TypeInv, NEW amount \in Nat, NEW read \in Int, NEW ref \in Nat,
         PayWithTransaction(amount, read, ref)
  PROVE  /\ account' \in [balance : Int, owed : BOOLEAN]
         /\ ledger' \in Seq(EntryType)
         /\ read = account.balance /\ LedgerIsTrue => LedgerIsTrue'
         /\ read = account.balance /\ OwedIsTrue => OwedIsTrue'
         /\ DOMAIN ledger' = 1..(Len(ledger) + 1) /\ ledger'[Len(ledger) + 1].ref = ref
<1> DEFINE r == [ref |-> ref, amount |-> -amount, reward |-> 0, balance |-> read - amount]
<1>1. account.balance \in Int /\ account.owed \in BOOLEAN  BY DEF TypeInv
<1>2. r \in EntryType  BY DEF EntryType
<1>3. /\ account' = [balance |-> account.balance - amount, owed |-> account.owed \/ read - amount < 0]
      /\ ledger' = Append(ledger, r)
  BY DEF PayWithTransaction
<1>4. account' \in [balance : Int, owed : BOOLEAN]  BY <1>1, <1>3
<1>5. account'.balance = account.balance - amount /\ (account'.owed <=> account.owed \/ read - amount < 0)
  BY <1>3
<1>6. ledger \in Seq(EntryType)  BY DEF TypeInv
<1>7. /\ ledger' \in Seq(EntryType)
      /\ DOMAIN ledger = 1..Len(ledger) /\ Len(ledger) \in Nat
      /\ Len(ledger') = Len(ledger) + 1 /\ DOMAIN ledger' = 1..(Len(ledger) + 1)
      /\ ledger'[Len(ledger) + 1] = r
      /\ \A i \in 1..Len(ledger) : ledger'[i] = ledger[i]
  <2> HIDE DEF r
  <2> QED  BY <1>2, <1>3, <1>6, LedgerAppend
<1>8. read = account.balance /\ LedgerIsTrue => LedgerIsTrue'
  <2>1. r.amount = -amount /\ r.reward = 0 /\ r.balance = read - amount /\ r.ref = ref  OBVIOUS
  <2> HIDE DEF r
  <2> QED  BY <2>1, <1>1, <1>2, <1>3, <1>5, <1>6, LedgerExtends
<1>9. read = account.balance /\ OwedIsTrue => OwedIsTrue'  BY <1>1, <1>5 DEF OwedIsTrue
<1> QED  BY <1>4, <1>7, <1>8, <1>9
-----------------------------------------------------------------------------
(* Types *)

LEMMA CreatorWriters ==
  ASSUME TypeInv, NEW c \in Creators, payer' = payer,
         \A d \in Creators \ {c} : creator'[d] = creator[d],
         \A g \in Handlers \ {c} : writes'[g] = writes[g],
         writes'[c] # {} => creator'[c].at = "commit"
  PROVE  WritersOK'
BY PaymentAssumption DEF TypeInv, WritersOK

LEMMA PayerWriters ==
  ASSUME TypeInv, NEW p \in Payers, creator' = creator,
         \A q \in Payers \ {p} : payer'[q] = payer[q],
         \A g \in Handlers \ {p} : writes'[g] = writes[g],
         writes'[p] # {} => payer'[p].at = "commit"
  PROVE  WritersOK'
BY PaymentAssumption DEF TypeInv, WritersOK

\* What a step of the owner or of a clock leaves alone.
LEMMA HandlersKept ==
  ASSUME TypeInv, UNCHANGED <<now, creator, payer, writes>>, DOMAIN bills' = DOMAIN bills
  PROVE  CreatorsOK' /\ PayersOK' /\ WritersOK'
BY DEF TypeInv, CreatorsOK, PayersOK, WritersOK

LEMMA AppWrite ==
  ASSUME app \in AppType
  PROVE  /\ \A l \in Locks : [app EXCEPT !.lock = l] \in AppType
         /\ \A s \in AppStates : [app EXCEPT !.state = s] \in AppType
         /\ \A h \in 0..MaxHour, l \in Locks : [app EXCEPT !.latest = h, !.lock = l] \in AppType
         /\ [app EXCEPT !.kept = "document", !.state = "Deleted"] \in AppType
         /\ [app EXCEPT !.kept = "none"] \in AppType
BY DEF AppType, AppStates

LEMMA BillWrite ==
  ASSUME NEW r \in BillType
  PROVE  /\ \A l \in Locks : /\ [r EXCEPT !.lock = l] \in BillType
                             /\ [r EXCEPT !.lock = l].state = r.state
         /\ [r EXCEPT !.state = "Done"] \in BillType
         /\ [r EXCEPT !.state = "Done"].state = "Done"
         /\ \A l : [r EXCEPT !.lock = l].hour = r.hour /\ [r EXCEPT !.lock = l].amount = r.amount
         /\ [r EXCEPT !.state = "Done"].hour = r.hour /\ [r EXCEPT !.state = "Done"].amount = r.amount
BY DEF BillType

LEMMA DocsTyped ==
  /\ AppDoc \in SUBSET Docs /\ AccountDoc \in SUBSET Docs
  /\ \A b \in Nat : BillDoc(b) \in SUBSET Docs
BY DEF AppDoc, AccountDoc, BillDoc, Docs

LEMMA TypeInit == Init => TypeInv
<1> SUFFICES ASSUME Init PROVE TypeInv  OBVIOUS
<1> USE DEF Init, TxnInit, CreationInit, AccountInit, PaymentInit
<1>1. now \in 0..MaxHour /\ app \in AppType
  BY CreationAssumption DEF AppType, Locks, AppStates
<1>2. bills \in Seq(BillType) /\ ledger \in Seq(EntryType)  BY EmptySeq
<1>3. CreatorsOK /\ PayersOK
  BY CreationAssumption DEF CreatorsOK, PayersOK, CreatorType, PayerType, CreatorIdle, PayerIdle
<1>4. account \in [balance : Int, owed : BOOLEAN]  BY SignupAssumption
<1>5. TxnTyped /\ WritersOK  BY DEF TxnTyped, WritersOK
<1>6. /\ request \in AppStates \cup {"none"}
      /\ done \in [charges : 0..MaxCharges, requests : 0..MaxRequests]
      /\ faults \in 0..MaxFaults
  BY CreationAssumption, OwnerAssumption
<1> QED  BY <1>1, <1>2, <1>3, <1>4, <1>5, <1>6 DEF TypeInv

LEMMA TypeClaim ==
  ASSUME TypeInv, NEW c \in Creators, BillClaim(c), CreationOnly
  PROVE  TypeInv'
<1> DEFINE r == [at |-> "meter", hour |-> app.latest, amount |-> 0]
<1>1. /\ app.latest \in 0..MaxHour /\ app.latest < now
      /\ creator[c].at = "idle" /\ c \in Handlers /\ c \in Locks
  BY CreationAssumption DEF BillClaim, TypeInv, AppType, Locks
<1>2. r \in CreatorType  BY <1>1 DEF CreatorType
<1>3. /\ creator' \in [Creators -> CreatorType] /\ creator'[c] = r
      /\ \A d \in Creators \ {c} : creator'[d] = creator[d]
  BY <1>2, CreatorSet DEF BillClaim, TypeInv, CreatorsOK
<1>4. CreatorsOK'  BY <1>1, <1>3 DEF CreatorsOK, TypeInv, BillClaim
<1>5. TxnTyped' /\ writes' = writes  BY TxnWriteLemma DEF BillClaim, TypeInv
<1>6. WritersOK'  BY <1>1, <1>3, <1>5, CreatorWriters DEF CreationOnly, TypeInv, WritersOK
<1>7. app' \in AppType  BY <1>1, AppWrite DEF BillClaim, TypeInv
<1> QED  BY <1>4, <1>5, <1>6, <1>7 DEF TypeInv, BillClaim, CreationOnly, PayersOK, accountVars

LEMMA TypeMeter ==
  ASSUME TypeInv, NEW c \in Creators, Meter(c) \/ MeterNoBundle(c), CreationOnly
  PROVE  TypeInv'
<1>1. c \in Handlers /\ creator[c].at = "meter" /\ writes[c] = {}
  BY CreationAssumption DEF TypeInv, WritersOK, Meter, MeterNoBundle
<1>2. CASE Meter(c)
  <2>1. PICK price \in Prices :
          creator' = [creator EXCEPT ![c].at = "begin", ![c].amount = price]
    BY <1>2 DEF Meter
  <2>2. /\ creator' \in [Creators -> CreatorType]
        /\ creator'[c].at = "begin" /\ creator'[c].amount = price
        /\ creator'[c].hour = creator[c].hour
        /\ \A d \in Creators \ {c} : creator'[d] = creator[d]
    BY <2>1 DEF TypeInv, CreatorsOK, CreatorType
  <2>3. CreatorsOK'  BY <1>1, <1>2, <2>2 DEF CreatorsOK, TypeInv, Meter
  <2>4. WritersOK'  BY <1>1, <1>2, <2>2, CreatorWriters DEF Meter, txnVars, CreationOnly
  <2> QED  BY <1>2, <2>3, <2>4 DEF TypeInv, Meter, CreationOnly, PayersOK, accountVars, txnVars, TxnTyped
<1>3. CASE MeterNoBundle(c)
  <2>1. /\ creator' \in [Creators -> CreatorType] /\ creator'[c].at = "idle"
        /\ \A d \in Creators \ {c} : creator'[d] = creator[d]
    BY <1>3, CreatorEnds DEF TypeInv, CreatorsOK, MeterNoBundle
  <2>2. CreatorsOK'  BY <1>3, <2>1 DEF CreatorsOK, TypeInv, MeterNoBundle
  <2>3. WritersOK'  BY <1>1, <1>3, <2>1, CreatorWriters DEF MeterNoBundle, txnVars, CreationOnly
  <2> QED  BY <1>3, <2>2, <2>3 DEF TypeInv, MeterNoBundle, CreationOnly, PayersOK, accountVars, txnVars, TxnTyped
<1> QED  BY <1>2, <1>3

LEMMA TypeBillBegin ==
  ASSUME TypeInv, NEW c \in Creators, BillBegin(c), CreationOnly
  PROVE  TypeInv'
<1> DEFINE docs == IF app.kept = "none" THEN {} ELSE AppDoc
<1>1. c \in Handlers /\ docs \in SUBSET Docs  BY DocsTyped, CreationAssumption
<1>2. TxnBegin(c, docs)  BY DEF BillBegin
<1> HIDE DEF docs
<1>3. TxnTyped' /\ \A g \in Handlers \ {c} : writes'[g] = writes[g]
  BY <1>1, <1>2, TxnLemma DEF TypeInv
<1>4. /\ creator' \in [Creators -> CreatorType]
      /\ creator'[c].at = "commit"
      /\ creator'[c].hour = creator[c].hour /\ creator'[c].amount = creator[c].amount
      /\ \A d \in Creators \ {c} : creator'[d] = creator[d]
  BY CreatorAt DEF BillBegin, TypeInv, CreatorsOK
<1>5. CreatorsOK'  BY <1>4 DEF CreatorsOK, TypeInv, BillBegin
<1>6. WritersOK'  BY <1>3, <1>4, CreatorWriters DEF CreationOnly
<1> QED  BY <1>3, <1>5, <1>6 DEF TypeInv, BillBegin, CreationOnly, PayersOK, accountVars
\* How a handler ends: its transaction is closed, its record idle.
LEMMA CreatorCloses ==
  ASSUME TypeInv, NEW c \in Creators, TxnCommit(c) \/ TxnEnd(c), CreatorEnd(c), UNCHANGED <<now, payer>>
  PROVE  CreatorsOK' /\ TxnTyped' /\ WritersOK'
<1>1. c \in Handlers /\ {} \in SUBSET Docs  BY CreationAssumption
<1>2. TxnTyped' /\ \A g \in Handlers \ {c} : writes'[g] = writes[g]
  BY <1>1, TxnLemma DEF TypeInv
<1>3. writes'[c] = {}  BY <1>1 DEF TypeInv, TxnTyped, TxnCommit, TxnEnd
<1>4. /\ creator' \in [Creators -> CreatorType] /\ creator'[c].at = "idle"
      /\ \A d \in Creators \ {c} : creator'[d] = creator[d]
  BY CreatorEnds DEF TypeInv, CreatorsOK
<1>5. CreatorsOK'  BY <1>4 DEF CreatorsOK, TypeInv
<1>6. WritersOK'  BY <1>2, <1>3, <1>4, CreatorWriters
<1> QED  BY <1>2, <1>5, <1>6

LEMMA NewBillTyped ==
  ASSUME TypeInv, NEW c \in Creators, creator[c].at = "commit"
  PROVE  /\ NewBill(c) \in BillType
         /\ NewBill(c).hour = creator[c].hour
         /\ NewBill(c).state = "Done" => NewBill(c).amount = 0
         /\ creator[c].hour \in 0..MaxHour /\ creator[c].hour < now
BY DEF TypeInv, CreatorsOK, CreatorType, NewBill, BillType, Locks

LEMMA TypeBillCommit ==
  ASSUME TypeInv, NEW c \in Creators, BillCommit(c), CreationOnly
  PROVE  TypeInv'
<1>1. CreatorsOK' /\ TxnTyped' /\ WritersOK'
  BY CreatorCloses DEF BillCommit, CreationOnly
<1>2. /\ bills' \in Seq(BillType)
      /\ \A b \in DOMAIN bills : b \in DOMAIN bills'
  BY NewBillTyped, BillAppend DEF BillCommit, TypeInv
<1>3. app' \in AppType
  <2> DEFINE next == creator[c].hour + 1
             lock == IF now > next THEN Free ELSE app.lock
  <2>1. next \in 0..MaxHour  BY NewBillTyped, CreationAssumption DEF BillCommit, TypeInv
  <2>2. lock \in Locks  BY DEF Locks, TypeInv, AppType
  <2>3. app' = app \/ app' = [app EXCEPT !.latest = next, !.lock = lock]  BY DEF BillCommit
  <2> HIDE DEF next, lock
  <2>4. app \in AppType  BY DEF TypeInv
  <2>5. [app EXCEPT !.latest = next, !.lock = lock] \in AppType  BY <2>1, <2>2, <2>4 DEF AppType
  <2> QED  BY <2>3, <2>4, <2>5
<1>4. PayersOK'  BY <1>2 DEF TypeInv, PayersOK, CreationOnly
<1> QED  BY <1>1, <1>2, <1>3, <1>4 DEF TypeInv, BillCommit, CreationOnly, accountVars

LEMMA TypeBillAbort ==
  ASSUME TypeInv, NEW c \in Creators, BillAbort(c) \/ CreatorThrow(c), CreationOnly
  PROVE  TypeInv'
<1>1. CreatorsOK' /\ TxnTyped' /\ WritersOK'
  BY CreatorCloses DEF BillAbort, CreatorThrow, CreationOnly
<1>2. faults' \in 0..MaxFaults  BY CreationAssumption DEF BillAbort, CreatorThrow, TypeInv
<1>3. UNCHANGED <<now, app, bills>>  BY DEF BillAbort, CreatorThrow
<1> QED  BY <1>1, <1>2, <1>3 DEF TypeInv, CreationOnly, accountVars, PayersOK

LEMMA TypeClocks ==
  ASSUME TypeInv, BillLockExpires \/ HourPasses, CreationOnly
  PROVE  TypeInv'
<1>1. CASE BillLockExpires
  <2>1. app' \in AppType  BY <1>1, AppWrite DEF BillLockExpires, TypeInv, Locks
  <2> QED
    BY <1>1, <2>1, HandlersKept DEF TypeInv, BillLockExpires, CreationOnly, accountVars, txnVars, TxnTyped
<1>2. CASE HourPasses
  <2>1. now' \in 0..MaxHour /\ now' = now + 1  BY <1>2, CreationAssumption DEF HourPasses, TypeInv
  <2>2. CreatorsOK'
    <3>1. \A c \in Creators : creator[c].hour \in 0..MaxHour  BY DEF TypeInv, CreatorsOK, CreatorType
    <3> QED  BY <1>2, <2>1, <3>1 DEF TypeInv, CreatorsOK, HourPasses
  <2> QED
    BY <1>2, <2>1, <2>2 DEF TypeInv, HourPasses, CreationOnly, accountVars, txnVars, TxnTyped,
                            PayersOK, WritersOK
<1> QED  BY <1>1, <1>2

LEMMA TypePayClaim ==
  ASSUME TypeInv, NEW p \in Payers, NEW b \in DOMAIN bills, PayClaim(p, b), PaymentOnly
  PROVE  TypeInv'
<1> DEFINE r == [PayerIdle EXCEPT !.at = "begin", !.bill = b]
           e == [bills[b] EXCEPT !.lock = p]
<1>1. p \in Locks /\ b \in Nat /\ bills[b] \in BillType
  BY PaymentAssumption, LenProperties, ElementOfSeq DEF Locks, TypeInv
<1>2. r \in PayerType /\ r.at = "begin" /\ r.bill = b
  <2>1. PayerIdle \in PayerType  BY DEF PayerIdle, PayerType
  <2> QED  BY <2>1, <1>1 DEF PayerType
<1>3. e \in BillType  BY <1>1, BillWrite
<1>4. payer' = [payer EXCEPT ![p] = r] /\ bills' = [bills EXCEPT ![b] = e]  BY DEF PayClaim
<1> HIDE DEF r, e
<1>5. /\ payer' \in [Payers -> PayerType] /\ payer'[p] = r
      /\ \A q \in Payers \ {p} : payer'[q] = payer[q]
  BY <1>2, <1>4, PayerSet DEF TypeInv, PayersOK
<1>6. bills' \in Seq(BillType) /\ DOMAIN bills' = DOMAIN bills
  BY <1>3, <1>4, BillSet DEF TypeInv
<1>7. PayersOK'  BY <1>2, <1>5, <1>6 DEF TypeInv, PayersOK
<1>8. TxnTyped' /\ writes' = writes  BY TxnWriteLemma DEF PayClaim, TypeInv
<1>9. payer[p].at = "idle" /\ p \in Handlers  BY PaymentAssumption DEF PayClaim
<1>10. WritersOK'
  <2>1. writes[p] = {}  BY <1>9 DEF TypeInv, WritersOK
  <2> QED  BY <2>1, <1>5, <1>8, PayerWriters DEF PayClaim
<1> QED  BY <1>6, <1>7, <1>8, <1>10 DEF TypeInv, PayClaim, PaymentOnly, accountVars, CreatorsOK

LEMMA TypePayBegin ==
  ASSUME TypeInv, NEW p \in Payers, PayBegin(p), PaymentOnly
  PROVE  /\ TypeInv'
         /\ payer'[p].balance = account.balance /\ AccountDoc \subseteq writes'[p]
         /\ \A q \in Payers \ {p} : payer'[q] = payer[q]
<1> DEFINE b == payer[p].bill
           stops == account.balance < bills[b].amount /\ app.kept # "none" /\ app.state = "Running"
           docs == AccountDoc \cup BillDoc(b) \cup (IF stops THEN AppDoc ELSE {})
<1>1. b \in Nat /\ payer[p].at # "idle" /\ p \in Handlers
  BY PaymentAssumption DEF TypeInv, PayersOK, PayerType, PayBegin
<1>2. docs \in SUBSET Docs  BY <1>1, DocsTyped
<1>3. TxnBegin(p, docs)  BY DEF PayBegin
<1>4. payer' = [payer EXCEPT ![p].at = "commit", ![p].balance = account.balance, ![p].stops = stops]
  BY DEF PayBegin
<1>5. stops \in BOOLEAN /\ account.balance \in Int  BY DEF TypeInv
<1>6. AccountDoc \subseteq docs  OBVIOUS
<1> HIDE DEF stops, docs, b
<1>7. /\ payer' \in [Payers -> PayerType]
      /\ payer'[p].at = "commit" /\ payer'[p].bill = payer[p].bill
      /\ payer'[p].balance = account.balance
      /\ \A q \in Payers \ {p} : payer'[q] = payer[q]
  BY <1>4, <1>5 DEF TypeInv, PayersOK, PayerType
<1>8. /\ TxnTyped' /\ writes'[p] = docs
      /\ \A g \in Handlers \ {p} : writes'[g] = writes[g]
  BY <1>1, <1>2, <1>3, TxnLemma DEF TypeInv
<1>9. PayersOK'  BY <1>1, <1>7 DEF TypeInv, PayersOK, PayBegin
<1>10. WritersOK'  BY <1>7, <1>8, PayerWriters DEF PayBegin
<1>11. TypeInv'
  BY <1>8, <1>9, <1>10 DEF TypeInv, PayBegin, PaymentOnly, accountVars, CreatorsOK
<1> QED  BY <1>6, <1>7, <1>8, <1>11
LEMMA PayerCloses ==
  ASSUME TypeInv, NEW p \in Payers, TxnCommit(p) \/ TxnEnd(p), PayerEnd(p),
         creator' = creator, DOMAIN bills' = DOMAIN bills
  PROVE  /\ PayersOK' /\ TxnTyped' /\ WritersOK'
         /\ payer'[p].at = "idle"
         /\ \A q \in Payers \ {p} : payer'[q] = payer[q]
<1>1. p \in Handlers /\ {} \in SUBSET Docs  BY PaymentAssumption
<1>2. TxnTyped' /\ \A g \in Handlers \ {p} : writes'[g] = writes[g]
  BY <1>1, TxnLemma DEF TypeInv
<1>3. writes'[p] = {}  BY <1>1 DEF TypeInv, TxnTyped, TxnCommit, TxnEnd
<1>4. /\ payer' \in [Payers -> PayerType] /\ payer'[p].at = "idle"
      /\ \A q \in Payers \ {p} : payer'[q] = payer[q]
  BY PayerEnds DEF TypeInv, PayersOK
<1>5. PayersOK'  BY <1>4 DEF PayersOK, TypeInv
<1>6. WritersOK'  BY <1>2, <1>3, <1>4, PayerWriters
<1> QED  BY <1>2, <1>4, <1>5, <1>6

\* What a payment pays, and what it leaves of the bills.
LEMMA PaidBill ==
  ASSUME TypeInv, NEW p \in Payers, PayCommit(p)
  PROVE  LET b == payer[p].bill
         IN  /\ b \in DOMAIN bills /\ b \in Nat /\ bills[b] \in BillType /\ bills[b].amount \in Nat
             /\ bills' \in Seq(BillType) /\ DOMAIN bills' = DOMAIN bills /\ Len(bills') = Len(bills)
             /\ bills'[b].hour = bills[b].hour /\ bills'[b].amount = bills[b].amount
             /\ bills'[b].state = "Done"
             /\ \A a \in DOMAIN bills \ {b} : bills'[a] = bills[a]
             /\ PayWithTransaction(bills[b].amount, payer[p].balance, b)
             /\ payer[p].balance \in Int
<1> DEFINE b == payer[p].bill
           e == [bills[b] EXCEPT !.state = "Done"]
<1>1. b \in DOMAIN bills  BY DEF TypeInv, PayersOK, PayCommit
<1>2. /\ b \in Nat /\ bills[b] \in BillType /\ payer[p].balance \in Int
      /\ bills[b].amount \in Nat
  <2>1. bills \in Seq(BillType) /\ payer[p] \in PayerType  BY DEF TypeInv, PayersOK
  <2>2. b \in 1..Len(bills) /\ b \in Nat  BY <1>1, <2>1, LenProperties
  <2>3. bills[b] \in BillType  BY <2>1, <2>2, ElementOfSeq
  <2>4. bills[b].amount \in Nat  BY <2>3, CreationAssumption DEF BillType
  <2>5. payer[p].balance \in Int  BY <2>1 DEF PayerType
  <2> QED  BY <2>2, <2>3, <2>4, <2>5
<1>3. e \in BillType /\ e.state = "Done" /\ e.hour = bills[b].hour /\ e.amount = bills[b].amount
  BY <1>2, BillWrite
<1>4. bills' = [bills EXCEPT ![b] = e]  BY DEF PayCommit
<1>5. PayWithTransaction(bills[b].amount, payer[p].balance, b)  BY DEF PayCommit
<1> HIDE DEF e, b
<1>6. /\ bills' \in Seq(BillType) /\ DOMAIN bills' = DOMAIN bills /\ Len(bills') = Len(bills)
      /\ bills'[b] = e
      /\ \A a \in DOMAIN bills \ {b} : bills'[a] = bills[a]
  BY <1>1, <1>3, <1>4, BillSet DEF TypeInv
<1>7. /\ b \in DOMAIN bills /\ b \in Nat /\ bills[b] \in BillType /\ bills[b].amount \in Nat
      /\ bills' \in Seq(BillType) /\ DOMAIN bills' = DOMAIN bills /\ Len(bills') = Len(bills)
      /\ bills'[b].hour = bills[b].hour /\ bills'[b].amount = bills[b].amount
      /\ bills'[b].state = "Done"
      /\ \A a \in DOMAIN bills \ {b} : bills'[a] = bills[a]
      /\ PayWithTransaction(bills[b].amount, payer[p].balance, b)
      /\ payer[p].balance \in Int
  BY <1>1, <1>2, <1>3, <1>5, <1>6
<1> QED  BY <1>7 DEF b

LEMMA TypePayCommit ==
  ASSUME TypeInv, NEW p \in Payers, PayCommit(p), PaymentOnly
  PROVE  TypeInv'
<1>1. PayersOK' /\ TxnTyped' /\ WritersOK'
  BY PaidBill, PayerCloses DEF PayCommit
<1>2. bills' \in Seq(BillType)  BY PaidBill
<1>3. account' \in [balance : Int, owed : BOOLEAN] /\ ledger' \in Seq(EntryType)
  BY PaidBill, PayLemma
<1>4. app' \in AppType
  BY AppWrite DEF PayCommit, TypeInv, AppStates
<1> QED  BY <1>1, <1>2, <1>3, <1>4 DEF TypeInv, PayCommit, PaymentOnly, CreatorsOK

LEMMA TypePayerThrow ==
  ASSUME TypeInv, NEW p \in Payers, PayerThrow(p), PaymentOnly
  PROVE  TypeInv'
<1>1. PayersOK' /\ TxnTyped' /\ WritersOK'  BY PayerCloses DEF PayerThrow
<1>2. faults' \in 0..MaxFaults  BY CreationAssumption DEF PayerThrow, TypeInv
<1> QED  BY <1>1, <1>2 DEF TypeInv, PayerThrow, PaymentOnly, CreatorsOK, accountVars

LEMMA TypePayLock ==
  ASSUME TypeInv, NEW b \in DOMAIN bills, PayLockExpires(b), PaymentOnly
  PROVE  TypeInv'
<1> DEFINE e == [bills[b] EXCEPT !.lock = Free]
<1>1. bills[b] \in BillType /\ Free \in Locks
  BY LenProperties, ElementOfSeq DEF TypeInv, Locks
<1>2. e \in BillType  BY <1>1, BillWrite
<1>3. bills' = [bills EXCEPT ![b] = e]  BY DEF PayLockExpires
<1> HIDE DEF e
<1>4. bills' \in Seq(BillType) /\ DOMAIN bills' = DOMAIN bills
  BY <1>2, <1>3, BillSet DEF TypeInv
<1> QED
  BY <1>4, HandlersKept DEF TypeInv, PayLockExpires, PaymentOnly, accountVars, txnVars, TxnTyped

LEMMA TypeOwner ==
  ASSUME TypeInv, Owner
  PROVE  TypeInv'
<1>1. CASE Charge
  <2>1. PICK amount \in ChargeAmounts : ChargeWithTransaction(amount, 0, 0)  BY <1>1 DEF Charge
  <2>2. account' \in [balance : Int, owed : BOOLEAN] /\ ledger' \in Seq(EntryType)
    <3>1. amount \in Nat  BY OwnerAssumption
    <3> QED  BY <2>1, <3>1, ChargeLemma
  <2>3. TxnTyped' /\ writes' = writes  BY <1>1, TxnWriteLemma DEF Charge, TypeInv
  <2>4. done' \in [charges : 0..MaxCharges, requests : 0..MaxRequests]
    BY <1>1, OwnerAssumption DEF Charge, TypeInv
  <2> QED  BY <1>1, <2>2, <2>3, <2>4, HandlersKept DEF Charge, TypeInv
<1>2. CASE Admit
  <2>1. done' \in [charges : 0..MaxCharges, requests : 0..MaxRequests]
    BY <1>2, OwnerAssumption DEF Admit, TypeInv
  <2>2. request' \in AppStates \cup {"none"}  BY <1>2 DEF Admit, AppStates
  <2> QED
    BY <1>2, <2>1, <2>2, HandlersKept DEF Admit, TypeInv, accountVars, txnVars, TxnTyped
<1>3. CASE Serve
  <2>1. TxnTyped' /\ writes' = writes  BY <1>3, TxnWriteLemma DEF Serve, TypeInv
  <2>2. app' \in AppType  BY <1>3, AppWrite DEF Serve, TypeInv
  <2> QED  BY <1>3, <2>1, <2>2, HandlersKept DEF Serve, TypeInv, accountVars
<1>4. CASE Restarted
  <2>1. TxnTyped' /\ writes' = writes  BY <1>4, TxnWriteLemma DEF Restarted, TypeInv
  <2>2. app' \in AppType  BY <1>4, AppWrite DEF Restarted, TypeInv, AppStates
  <2> QED  BY <1>4, <2>1, <2>2, HandlersKept DEF Restarted, TypeInv, accountVars
<1>5. CASE DeleteBundle
  <2>1. TxnTyped' /\ writes' = writes  BY <1>5, TxnWriteLemma DEF DeleteBundle, TypeInv
  <2>2. app' \in AppType  BY <1>5, AppWrite DEF DeleteBundle, TypeInv
  <2> QED  BY <1>5, <2>1, <2>2, HandlersKept DEF DeleteBundle, TypeInv, accountVars
<1>6. CASE DeleteDocument
  <2>1. TxnTyped' /\ writes' = writes  BY <1>6, TxnWriteLemma DEF DeleteDocument, TypeInv
  <2>2. app' \in AppType  BY <1>6, AppWrite DEF DeleteDocument, TypeInv
  <2> QED  BY <1>6, <2>1, <2>2, HandlersKept DEF DeleteDocument, TypeInv, accountVars
<1> QED  BY <1>1, <1>2, <1>3, <1>4, <1>5, <1>6 DEF Owner

LEMMA TypeStutter == ASSUME TypeInv, UNCHANGED vars PROVE TypeInv'
BY HandlersKept DEF TypeInv, vars, txnVars, accountVars, TxnTyped

LEMMA TypeStep == TypeInv /\ [Next]_vars => TypeInv'
<1> SUFFICES ASSUME TypeInv, [Next]_vars PROVE TypeInv'  OBVIOUS
<1>1. CASE CreationNext /\ CreationOnly
  BY <1>1, TypeClaim, TypeMeter, TypeBillBegin, TypeBillCommit, TypeBillAbort, TypeClocks
     DEF CreationNext, CreatorStep
<1>2. CASE PaymentNext /\ PaymentOnly
  BY <1>2, TypePayClaim, TypePayBegin, TypePayCommit, TypePayerThrow, TypePayLock
     DEF PaymentNext, PayerStep
<1>3. CASE Owner  BY <1>3, TypeOwner
<1>4. CASE UNCHANGED vars  BY <1>4, TypeStutter
<1> QED  BY <1>1, <1>2, <1>3, <1>4 DEF Next

\* The documents, handlers, transactions and accounts keep their types (the tasks of
\* billing and the account service), for every bound and however slow the handlers are.
THEOREM TypeCorrect == Spec => []TypeOK
<1>1. Spec => []TypeInv  BY TypeInit, TypeStep, PTL DEF Spec
<1> QED  BY <1>1, TypeInvImplies, PTL
-----------------------------------------------------------------------------
(* The account *)

\* A transaction that will pay and can still commit has read the balance the account has:
\* whoever writes the account in between makes it stale.
SnapshotOK ==
    \A p \in Payers : payer[p].at = "commit" =>
        /\ AccountDoc \subseteq writes[p]
        /\ p \notin stale => payer[p].balance = account.balance

MoneyInv == SnapshotOK /\ LedgerIsTrue /\ OwedIsTrue

\* Steps that leave the account and the payers alone, and close no payer's transaction.
LEMMA MoneyFrame ==
  ASSUME MoneyInv, UNCHANGED <<account, ledger, payer>>,
         \A p \in Payers : writes'[p] = writes[p] /\ (p \in stale => p \in stale')
  PROVE  MoneyInv'
<1>1. SnapshotOK'  BY DEF MoneyInv, SnapshotOK
<1>2. LedgerIsTrue' /\ OwedIsTrue'  BY DEF MoneyInv, LedgerIsTrue, OwedIsTrue
<1> QED  BY <1>1, <1>2 DEF MoneyInv

LEMMA MoneyWrite ==
  ASSUME MoneyInv, TxnTyped, UNCHANGED <<account, ledger, payer>>, NEW docs, TxnWrite(docs)
  PROVE  MoneyInv'
BY MoneyFrame, TxnWriteLemma

LEMMA MoneyCreation ==
  ASSUME MoneyInv, TypeInv, CreationNext, CreationOnly
  PROVE  MoneyInv'
<1>1. UNCHANGED <<account, ledger, payer>> /\ TxnTyped  BY DEF CreationOnly, accountVars, TypeInv
<1>2. ASSUME NEW c \in Creators, BillClaim(c)  PROVE MoneyInv'
  BY <1>1, <1>2, MoneyWrite DEF BillClaim
<1>3. ASSUME NEW c \in Creators, BillBegin(c) \/ BillCommit(c) \/ BillAbort(c) \/ CreatorThrow(c)
      PROVE  MoneyInv'
  <2>1. c \in Handlers /\ c \notin Payers /\ Payers \subseteq Handlers
    BY CreationAssumption, PaymentAssumption
  <2>2. \E docs \in SUBSET Docs : TxnBegin(c, docs) \/ TxnCommit(c) \/ TxnEnd(c)
    <3>1. {} \in SUBSET Docs /\ AppDoc \in SUBSET Docs  BY DocsTyped
    <3> QED  BY <1>3, <3>1 DEF BillBegin, BillCommit, BillAbort, CreatorThrow
  <2>3. \A g \in Handlers \ {c} : writes'[g] = writes[g] /\ (g \in stale => g \in stale')
    BY <1>1, <2>1, <2>2, TxnLemma
  <2> QED  BY <1>1, <2>1, <2>3, MoneyFrame
<1>4. ASSUME NEW c \in Creators, Meter(c) \/ MeterNoBundle(c)  PROVE MoneyInv'
  BY <1>1, <1>4, MoneyFrame DEF Meter, MeterNoBundle, txnVars
<1>5. ASSUME BillLockExpires \/ HourPasses  PROVE MoneyInv'
  BY <1>1, <1>5, MoneyFrame DEF BillLockExpires, HourPasses, txnVars
<1> QED  BY <1>2, <1>3, <1>4, <1>5 DEF CreationNext, CreatorStep

LEMMA MoneyBegin ==
  ASSUME MoneyInv, TypeInv, NEW p \in Payers, PayBegin(p), PaymentOnly
  PROVE  MoneyInv'
<1>1. /\ payer'[p].balance = account.balance /\ AccountDoc \subseteq writes'[p]
      /\ \A q \in Payers \ {p} : payer'[q] = payer[q]
  BY TypePayBegin
<1>2. \A q \in Payers \ {p} : writes'[q] = writes[q] /\ (q \in stale => q \in stale')
  BY PaymentAssumption DEF PayBegin, TxnBegin, TypeInv, TxnTyped
<1>3. account' = account /\ ledger' = ledger  BY DEF PayBegin, accountVars
<1>4. SnapshotOK'  BY <1>1, <1>2, <1>3 DEF MoneyInv, SnapshotOK
<1>5. LedgerIsTrue' /\ OwedIsTrue'  BY <1>3 DEF MoneyInv, LedgerIsTrue, OwedIsTrue
<1> QED  BY <1>4, <1>5 DEF MoneyInv

\* The one that commits has read the true balance; every other open payment becomes stale.
LEMMA MoneyCommit ==
  ASSUME MoneyInv, TypeInv, NEW p \in Payers, PayCommit(p)
  PROVE  MoneyInv'
<1> DEFINE b == payer[p].bill
<1>1. payer[p].at = "commit" /\ p \notin stale /\ TxnCommit(p) /\ PayerEnd(p)
  BY DEF PayCommit, TxnCommit
<1>2. payer[p].balance = account.balance /\ AccountDoc \subseteq writes[p]
  BY <1>1 DEF MoneyInv, SnapshotOK
<1>3. LedgerIsTrue' /\ OwedIsTrue'
  <2>1. /\ bills[b].amount \in Nat /\ b \in Nat /\ payer[p].balance \in Int
        /\ PayWithTransaction(bills[b].amount, payer[p].balance, b)
    BY PaidBill
  <2> HIDE DEF b
  <2> QED  BY <1>2, <2>1, PayLemma DEF MoneyInv
<1>4. /\ payer'[p].at = "idle"
      /\ \A q \in Payers \ {p} : payer'[q] = payer[q]
  BY <1>1, PayerEnds DEF TypeInv, PayersOK
<1>5. ASSUME NEW q \in Payers \ {p}, payer[q].at = "commit"
      PROVE  writes'[q] = writes[q] /\ q \in stale'
  <2>1. AccountDoc \subseteq writes[q]  BY <1>5 DEF MoneyInv, SnapshotOK
  <2>2. writes[q] \cap writes[p] # {}  BY <1>2, <2>1 DEF AccountDoc
  <2> QED  BY <1>1, <2>2, PaymentAssumption DEF TxnCommit, Overtaken, TypeInv, TxnTyped
<1>6. SnapshotOK'  BY <1>4, <1>5 DEF MoneyInv, SnapshotOK
<1> QED  BY <1>3, <1>6 DEF MoneyInv

LEMMA MoneyThrow ==
  ASSUME MoneyInv, TypeInv, NEW p \in Payers, PayerThrow(p)
  PROVE  MoneyInv'
<1>1. /\ payer'[p].at = "idle"
      /\ \A q \in Payers \ {p} : payer'[q] = payer[q]
  BY PayerEnds DEF PayerThrow, TypeInv, PayersOK
<1>2. \A q \in Payers \ {p} : writes'[q] = writes[q] /\ (q \in stale => q \in stale')
  BY PaymentAssumption DEF PayerThrow, TxnEnd, TypeInv, TxnTyped
<1>3. account' = account /\ ledger' = ledger  BY DEF PayerThrow, accountVars
<1>4. SnapshotOK'  BY <1>1, <1>2, <1>3 DEF MoneyInv, SnapshotOK
<1>5. LedgerIsTrue' /\ OwedIsTrue'  BY <1>3 DEF MoneyInv, LedgerIsTrue, OwedIsTrue
<1> QED  BY <1>4, <1>5 DEF MoneyInv

LEMMA MoneyClaim ==
  ASSUME MoneyInv, TypeInv, NEW p \in Payers, NEW b \in DOMAIN bills, PayClaim(p, b)
  PROVE  MoneyInv'
<1>1. payer'[p].at # "commit" /\ \A q \in Payers \ {p} : payer'[q] = payer[q]
  BY DEF PayClaim, PayerIdle, TypeInv, PayersOK
<1>2. writes' = writes /\ stale \subseteq stale'  BY TxnWriteLemma DEF PayClaim, TypeInv
<1>3. account' = account /\ ledger' = ledger  BY DEF PayClaim, accountVars
<1>4. SnapshotOK'  BY <1>1, <1>2, <1>3 DEF MoneyInv, SnapshotOK
<1>5. LedgerIsTrue' /\ OwedIsTrue'  BY <1>3 DEF MoneyInv, LedgerIsTrue, OwedIsTrue
<1> QED  BY <1>4, <1>5 DEF MoneyInv

LEMMA MoneyCharge ==
  ASSUME MoneyInv, TypeInv, Charge
  PROVE  MoneyInv'
<1>1. LedgerIsTrue' /\ OwedIsTrue'
  <2>1. PICK amount \in ChargeAmounts : ChargeWithTransaction(amount, 0, 0)  BY DEF Charge
  <2>2. amount \in Nat  BY OwnerAssumption
  <2> QED  BY <2>1, <2>2, ChargeLemma DEF MoneyInv
<1>2. /\ writes' = writes
      /\ \A h \in Handlers : writes[h] \cap AccountDoc # {} => h \in stale'
  BY TxnWriteLemma DEF Charge, TypeInv
<1>3. payer' = payer  BY DEF Charge
<1>4. SnapshotOK'
  <2> SUFFICES ASSUME NEW p \in Payers, payer[p].at = "commit"
               PROVE  AccountDoc \subseteq writes'[p] /\ p \in stale'
    BY <1>3 DEF SnapshotOK
  <2>1. AccountDoc \subseteq writes[p]  BY DEF MoneyInv, SnapshotOK
  <2>2. writes[p] \cap AccountDoc # {}  BY <2>1 DEF AccountDoc
  <2> QED  BY <1>2, <2>1, <2>2, PaymentAssumption
<1> QED  BY <1>1, <1>4 DEF MoneyInv

LEMMA MoneyOwner ==
  ASSUME MoneyInv, TypeInv, Owner
  PROVE  MoneyInv'
<1>1. CASE Charge  BY <1>1, MoneyCharge
<1>2. CASE Admit  BY <1>2, MoneyFrame DEF Admit, accountVars, txnVars
<1>3. CASE Serve \/ Restarted \/ DeleteBundle \/ DeleteDocument
  <2>1. TxnWrite(AppDoc) /\ UNCHANGED <<account, ledger, payer>>
    BY <1>3 DEF Serve, Restarted, DeleteBundle, DeleteDocument, accountVars
  <2> QED  BY <2>1, MoneyWrite DEF TypeInv
<1> QED  BY <1>1, <1>2, <1>3 DEF Owner

LEMMA MoneyInit == Init => MoneyInv
BY SignupAssumption
   DEF Init, TxnInit, AccountInit, PaymentInit, PayerIdle, MoneyInv, SnapshotOK, LedgerIsTrue, OwedIsTrue

LEMMA MoneyStep == MoneyInv /\ TypeInv /\ [Next]_vars => MoneyInv'
<1> SUFFICES ASSUME MoneyInv, TypeInv, [Next]_vars PROVE MoneyInv'  OBVIOUS
<1>1. CASE CreationNext /\ CreationOnly  BY <1>1, MoneyCreation
<1>2. CASE PaymentNext /\ PaymentOnly
  <2>1. ASSUME NEW b \in DOMAIN bills, PayLockExpires(b)  PROVE MoneyInv'
    BY <2>1, MoneyFrame DEF PayLockExpires, accountVars, txnVars
  <2> QED
    BY <1>2, <2>1, MoneyClaim, MoneyBegin, MoneyCommit, MoneyThrow DEF PaymentNext, PayerStep
<1>3. CASE Owner  BY <1>3, MoneyOwner
<1>4. CASE UNCHANGED vars  BY <1>4, MoneyFrame DEF vars, accountVars, txnVars
<1> QED  BY <1>1, <1>2, <1>3, <1>4 DEF Next

\* The records of an account (AccountTransaction) add up to its balance and each shows the
\* balance it left, however many payments and charges run at once and however slow they are.
THEOREM LedgerKept == Spec => []LedgerIsTrue
<1>1. MoneyInv => LedgerIsTrue  BY DEF MoneyInv
<1> QED  BY <1>1, TypeInit, TypeStep, MoneyInit, MoneyStep, PTL DEF Spec

\* An account in debt is marked as owing, and one in credit is not (owedAt).
THEOREM DebtShown == Spec => []OwedIsTrue
<1>1. MoneyInv => OwedIsTrue  BY DEF MoneyInv
<1> QED  BY <1>1, TypeInit, TypeStep, MoneyInit, MoneyStep, PTL DEF Spec
-----------------------------------------------------------------------------
(* Hours and payments *)

\* Slow handlers may bill an hour twice and even set latestBillingTime back, but a handler
\* only ever goes on from an hour before which all are billed.
HoursInv ==
    /\ NoHourSkipped
    /\ \A c \in Creators : creator[c].at # "idle" =>
           \A h \in 0..(creator[c].hour - 1) : BillsOf(h) # {}

\* No step takes back a bill, nor changes the hour or the amount of one.
BillsKept ==
    \A b \in DOMAIN bills : /\ b \in DOMAIN bills'
                            /\ bills'[b].hour = bills[b].hour
                            /\ bills'[b].amount = bills[b].amount

LEMMA HoursKept == ASSUME BillsKept, NEW h, BillsOf(h) # {} PROVE BillsOf(h)' # {}
BY DEF BillsKept, BillsOf

LEMMA BillsKeptByClaim ==
  ASSUME TypeInv, \E p \in Payers, b \in DOMAIN bills : PayClaim(p, b)
  PROVE  BillsKept /\ \A b \in DOMAIN bills' : b \in DOMAIN bills /\ bills'[b].state = bills[b].state
<1> PICK p \in Payers, b \in DOMAIN bills : PayClaim(p, b)  OBVIOUS
<1> DEFINE e == [bills[b] EXCEPT !.lock = p]
<1>1. bills[b] \in BillType /\ p \in Locks
  BY LenProperties, ElementOfSeq, PaymentAssumption DEF TypeInv, Locks
<1>2. /\ e \in BillType /\ e.hour = bills[b].hour /\ e.amount = bills[b].amount
      /\ e.state = bills[b].state
  BY <1>1, BillWrite
<1>3. bills' = [bills EXCEPT ![b] = e]  BY DEF PayClaim
<1> HIDE DEF e
<1>4. /\ DOMAIN bills' = DOMAIN bills /\ bills'[b] = e
      /\ \A a \in DOMAIN bills \ {b} : bills'[a] = bills[a]
  BY <1>2, <1>3, BillSet DEF TypeInv
<1> QED  BY <1>2, <1>4 DEF BillsKept

LEMMA BillsKeptByLock ==
  ASSUME TypeInv, NEW b \in DOMAIN bills, PayLockExpires(b)
  PROVE  BillsKept /\ \A a \in DOMAIN bills' : a \in DOMAIN bills /\ bills'[a].state = bills[a].state
<1> DEFINE e == [bills[b] EXCEPT !.lock = Free]
<1>1. bills[b] \in BillType /\ Free \in Locks
  BY LenProperties, ElementOfSeq DEF TypeInv, Locks
<1>2. /\ e \in BillType /\ e.hour = bills[b].hour /\ e.amount = bills[b].amount
      /\ e.state = bills[b].state
  BY <1>1, BillWrite
<1>3. bills' = [bills EXCEPT ![b] = e]  BY DEF PayLockExpires
<1> HIDE DEF e
<1>4. /\ DOMAIN bills' = DOMAIN bills /\ bills'[b] = e
      /\ \A a \in DOMAIN bills \ {b} : bills'[a] = bills[a]
  BY <1>2, <1>3, BillSet DEF TypeInv
<1> QED  BY <1>2, <1>4 DEF BillsKept

LEMMA BillsKeptByCommit ==
  ASSUME TypeInv, NEW c \in Creators, BillCommit(c)
  PROVE  /\ BillsKept
         /\ {b \in DOMAIN bills' : bills'[b].hour = creator[c].hour} # {}
         /\ \A b \in DOMAIN bills' : \/ b \in DOMAIN bills /\ bills'[b] = bills[b]
                                     \/ bills'[b].state = "Done" => bills'[b].amount = 0
<1> DEFINE r == NewBill(c)
<1>1. r \in BillType /\ r.hour = creator[c].hour /\ (r.state = "Done" => r.amount = 0)
  BY NewBillTyped DEF BillCommit
<1>2. bills' = Append(bills, r) /\ bills \in Seq(BillType)  BY DEF BillCommit, TypeInv
<1> HIDE DEF r
<1>3. /\ Len(bills) + 1 \in DOMAIN bills' /\ bills'[Len(bills) + 1] = r
      /\ \A b \in DOMAIN bills : b \in DOMAIN bills' /\ bills'[b] = bills[b]
      /\ \A b \in DOMAIN bills' : b \in DOMAIN bills \/ b = Len(bills) + 1
  BY <1>1, <1>2, BillAppend
<1>4. BillsKept  BY <1>3 DEF BillsKept
<1>5. Len(bills) + 1 \in {b \in DOMAIN bills' : bills'[b].hour = creator[c].hour}
  BY <1>1, <1>3
<1>6. \A b \in DOMAIN bills' : \/ b \in DOMAIN bills /\ bills'[b] = bills[b]
                               \/ bills'[b].state = "Done" => bills'[b].amount = 0
  BY <1>1, <1>3
<1> QED  BY <1>4, <1>5, <1>6

\* Every step but the commit of a bill: the hours a handler and the document start from
\* are ones that were there before.
LEMMA HoursFrame ==
  ASSUME HoursInv, BillsKept, app'.latest = app.latest,
         \A c \in Creators : creator'[c].at # "idle" =>
             \/ creator[c].at # "idle" /\ creator'[c].hour = creator[c].hour
             \/ creator'[c].hour = app.latest
  PROVE  HoursInv'
<1>1. \A h : BillsOf(h) # {} => {b \in DOMAIN bills' : bills'[b].hour = h} # {}
  BY HoursKept DEF BillsOf
<1>2. NoHourSkipped'  BY <1>1 DEF HoursInv, NoHourSkipped, BillsOf
<1>3. ASSUME NEW c \in Creators, creator'[c].at # "idle", NEW h \in 0..(creator'[c].hour - 1)
      PROVE  {b \in DOMAIN bills' : bills'[b].hour = h} # {}
  BY <1>1, <1>3 DEF HoursInv, NoHourSkipped
<1> QED  BY <1>2, <1>3 DEF HoursInv, BillsOf

LEMMA HoursCommit ==
  ASSUME HoursInv, TypeInv, NEW c \in Creators, BillCommit(c)
  PROVE  HoursInv'
<1> DEFINE hour == creator[c].hour
<1>1. hour \in Nat /\ creator[c].at = "commit"
  BY NewBillTyped, CreationAssumption DEF BillCommit
<1>2. /\ BillsKept
      /\ {b \in DOMAIN bills' : bills'[b].hour = hour} # {}
  BY BillsKeptByCommit
<1>3. app'.latest = app.latest \/ app'.latest = hour + 1
  BY DEF BillCommit, TypeInv, AppType
<1>4. \A d \in Creators : creator'[d].at # "idle" => d # c /\ creator'[d] = creator[d]
  BY CreatorEnds DEF BillCommit, TypeInv, CreatorsOK
<1>5. \A h \in 0..(hour - 1) : BillsOf(h) # {}  BY <1>1 DEF HoursInv
<1> HIDE DEF hour
<1>6. \A h : BillsOf(h) # {} => {b \in DOMAIN bills' : bills'[b].hour = h} # {}
  BY <1>2, HoursKept DEF BillsOf
<1>7. \A h \in 0..(hour + 1 - 1) : {b \in DOMAIN bills' : bills'[b].hour = h} # {}
  <2> TAKE h \in 0..(hour + 1 - 1)
  <2>1. h \in 0..(hour - 1) \/ h = hour  BY <1>1
  <2> QED  BY <1>2, <1>5, <1>6, <2>1
<1>8. NoHourSkipped'
  <2>1. CASE app'.latest = app.latest
    BY <1>6, <2>1 DEF HoursInv, NoHourSkipped, BillsOf
  <2>2. CASE app'.latest = hour + 1
    <3>1. \A h \in 0..(app'.latest - 1) : {b \in DOMAIN bills' : bills'[b].hour = h} # {}
      BY <1>1, <1>7, <2>2
    <3> QED  BY <3>1 DEF NoHourSkipped, BillsOf
  <2> QED  BY <1>3, <2>1, <2>2
<1>9. ASSUME NEW d \in Creators, creator'[d].at # "idle", NEW h \in 0..(creator'[d].hour - 1)
      PROVE  {b \in DOMAIN bills' : bills'[b].hour = h} # {}
  BY <1>4, <1>6, <1>9 DEF HoursInv
<1> QED  BY <1>8, <1>9 DEF HoursInv, BillsOf

LEMMA HoursCreation ==
  ASSUME HoursInv, TypeInv, CreationNext
  PROVE  HoursInv'
<1>1. ASSUME NEW c \in Creators, BillClaim(c)  PROVE HoursInv'
  <2>1. app'.latest = app.latest /\ BillsKept  BY <1>1 DEF BillClaim, BillsKept, TypeInv, AppType
  <2>2. creator'[c].hour = app.latest /\ \A d \in Creators \ {c} : creator'[d] = creator[d]
    BY <1>1 DEF BillClaim, TypeInv, CreatorsOK
  <2> QED  BY <2>1, <2>2, HoursFrame
<1>2. ASSUME NEW c \in Creators, Meter(c)  PROVE HoursInv'
  <2>1. PICK price \in Prices :
          creator' = [creator EXCEPT ![c].at = "begin", ![c].amount = price]
    BY <1>2 DEF Meter
  <2>2. /\ creator'[c].hour = creator[c].hour /\ creator[c].at = "meter"
        /\ \A d \in Creators \ {c} : creator'[d] = creator[d]
    BY <1>2, <2>1 DEF Meter, TypeInv, CreatorsOK, CreatorType
  <2>3. app'.latest = app.latest /\ BillsKept  BY <1>2 DEF Meter, BillsKept
  <2> QED  BY <2>2, <2>3, HoursFrame
<1>3. ASSUME NEW c \in Creators, BillBegin(c)  PROVE HoursInv'
  <2>1. /\ creator'[c].hour = creator[c].hour /\ creator[c].at = "begin"
        /\ \A d \in Creators \ {c} : creator'[d] = creator[d]
    BY <1>3, CreatorAt DEF BillBegin, TypeInv, CreatorsOK
  <2>2. app'.latest = app.latest /\ BillsKept  BY <1>3 DEF BillBegin, BillsKept
  <2> QED  BY <2>1, <2>2, HoursFrame
<1>4. ASSUME NEW c \in Creators, MeterNoBundle(c) \/ BillAbort(c) \/ CreatorThrow(c)
      PROVE  HoursInv'
  <2>1. CreatorEnd(c)  BY <1>4 DEF MeterNoBundle, BillAbort, CreatorThrow
  <2>2. creator'[c].at = "idle" /\ \A d \in Creators \ {c} : creator'[d] = creator[d]
    BY <2>1, CreatorEnds DEF TypeInv, CreatorsOK
  <2>3. app'.latest = app.latest /\ BillsKept
    BY <1>4 DEF MeterNoBundle, BillAbort, CreatorThrow, BillsKept
  <2> QED  BY <2>2, <2>3, HoursFrame
<1>5. ASSUME BillLockExpires \/ HourPasses  PROVE HoursInv'
  <2>1. app'.latest = app.latest /\ creator' = creator /\ BillsKept
    BY <1>5 DEF BillLockExpires, HourPasses, BillsKept, TypeInv, AppType
  <2> QED  BY <2>1, HoursFrame
<1> QED  BY <1>1, <1>2, <1>3, <1>4, <1>5, HoursCommit DEF CreationNext, CreatorStep

LEMMA HoursPayment ==
  ASSUME HoursInv, TypeInv, PaymentNext
  PROVE  HoursInv'
<1>1. creator' = creator
  BY DEF PaymentNext, PayerStep, PayBegin, PayCommit, PayerThrow, PayClaim, PayLockExpires
<1>2. app'.latest = app.latest
  BY DEF PaymentNext, PayerStep, PayBegin, PayCommit, PayerThrow, PayClaim, PayLockExpires,
         TypeInv, AppType
<1>3. ASSUME NEW p \in Payers, PayCommit(p)  PROVE BillsKept
  BY <1>3, PaidBill DEF BillsKept
<1>4. ASSUME NEW p \in Payers, PayBegin(p) \/ PayerThrow(p)  PROVE BillsKept
  BY <1>4 DEF PayBegin, PayerThrow, BillsKept
<1>5. BillsKept
  BY <1>3, <1>4, BillsKeptByClaim, BillsKeptByLock DEF PaymentNext, PayerStep
<1> QED  BY <1>1, <1>2, <1>5, HoursFrame

LEMMA HoursStep == HoursInv /\ TypeInv /\ [Next]_vars => HoursInv'
<1> SUFFICES ASSUME HoursInv, TypeInv, [Next]_vars PROVE HoursInv'  OBVIOUS
<1>1. ASSUME Owner \/ UNCHANGED vars  PROVE HoursInv'
  <2>1. app'.latest = app.latest
    BY <1>1 DEF Owner, Charge, Admit, Serve, Restarted, DeleteBundle, DeleteDocument, vars,
                TypeInv, AppType
  <2>2. creator' = creator /\ bills' = bills
    BY <1>1 DEF Owner, Charge, Admit, Serve, Restarted, DeleteBundle, DeleteDocument, vars
  <2> QED  BY <2>1, <2>2, HoursFrame DEF BillsKept
<1> QED  BY <1>1, HoursCreation, HoursPayment DEF Next

LEMMA HoursInit == Init => HoursInv
BY DEF Init, CreationInit, CreatorIdle, HoursInv, NoHourSkipped

\* billing-creation never skips an hour: every hour before latestBillingTime has a bill,
\* although handlers that outlive their locks may bill an hour twice.
THEOREM NoHourLost == Spec => []NoHourSkipped
<1>1. HoursInv => NoHourSkipped  BY DEF HoursInv
<1> QED  BY <1>1, TypeInit, TypeStep, HoursInit, HoursStep, PTL DEF Spec
-----------------------------------------------------------------------------

\* A bill that was not Done before costs nothing or has a payment by now.
LEMMA DoneFrame ==
  ASSUME DoneIsPaid, BillsKept, DOMAIN ledger \subseteq DOMAIN ledger',
         \A i \in DOMAIN ledger : ledger'[i] = ledger[i],
         \A b \in DOMAIN bills' :
             \/ b \in DOMAIN bills /\ bills'[b].state = bills[b].state
             \/ bills'[b].state = "Done" => bills'[b].amount = 0
             \/ \E i \in DOMAIN ledger' : ledger'[i].ref = b
  PROVE  DoneIsPaid'
<1>1. ASSUME NEW b \in DOMAIN bills', bills'[b].state = "Done", bills'[b].amount > 0
      PROVE  {i \in DOMAIN ledger' : ledger'[i].ref = b} # {}
  <2>1. CASE b \in DOMAIN bills /\ bills'[b].state = bills[b].state
    <3>1. {i \in DOMAIN ledger : ledger[i].ref = b} # {}
      BY <1>1, <2>1 DEF DoneIsPaid, BillsKept, PaymentsOf
    <3> QED  BY <3>1
  <2>2. CASE \E i \in DOMAIN ledger' : ledger'[i].ref = b  BY <2>2
  <2> QED  BY <1>1, <2>1, <2>2
<1> QED  BY <1>1 DEF DoneIsPaid, PaymentsOf

LEMMA DoneStep == DoneIsPaid /\ TypeInv /\ [Next]_vars => DoneIsPaid'
<1> SUFFICES ASSUME DoneIsPaid, TypeInv, [Next]_vars PROVE DoneIsPaid'  OBVIOUS
<1>1. ASSUME UNCHANGED <<bills, ledger>>  PROVE DoneIsPaid'
  BY <1>1, DoneFrame DEF BillsKept
<1>2. ASSUME NEW c \in Creators, BillCommit(c), ledger' = ledger  PROVE DoneIsPaid'
  BY <1>2, BillsKeptByCommit, DoneFrame
<1>3. CASE CreationNext /\ CreationOnly
  BY <1>1, <1>2, <1>3
     DEF CreationNext, CreatorStep, CreationOnly, accountVars, BillClaim, Meter, MeterNoBundle,
         BillBegin, BillAbort, CreatorThrow, BillLockExpires, HourPasses
<1>4. ASSUME NEW p \in Payers, PayCommit(p)  PROVE DoneIsPaid'
  <2> DEFINE b == payer[p].bill
  <2>1. /\ bills[b].amount \in Nat /\ b \in Nat /\ payer[p].balance \in Int
        /\ PayWithTransaction(bills[b].amount, payer[p].balance, b)
        /\ DOMAIN bills' = DOMAIN bills /\ BillsKept
        /\ \A a \in DOMAIN bills \ {b} : bills'[a] = bills[a]
    BY <1>4, PaidBill DEF BillsKept
  <2> HIDE DEF b
  <2>2. DOMAIN ledger' = 1..(Len(ledger) + 1) /\ ledger'[Len(ledger) + 1].ref = b
    BY <2>1, PayLemma
  <2>3. /\ DOMAIN ledger = 1..Len(ledger) /\ Len(ledger) \in Nat
        /\ \A i \in 1..Len(ledger) : ledger'[i] = ledger[i]
    BY <2>1, LenProperties, AppendProperties DEF TypeInv, PayWithTransaction, EntryType
  <2>4. \E i \in DOMAIN ledger' : ledger'[i].ref = b  BY <2>2, <2>3
  <2> QED  BY <2>1, <2>2, <2>3, <2>4, DoneFrame
<1>5. ASSUME \/ \E p \in Payers, b \in DOMAIN bills : PayClaim(p, b)
             \/ \E b \in DOMAIN bills : PayLockExpires(b)
      PROVE  DoneIsPaid'
  <2>1. ledger' = ledger  BY <1>5 DEF PayClaim, PayLockExpires, accountVars
  <2> QED  BY <1>5, <2>1, BillsKeptByClaim, BillsKeptByLock, DoneFrame
<1>6. CASE PaymentNext /\ PaymentOnly
  BY <1>1, <1>4, <1>5, <1>6 DEF PaymentNext, PayerStep, PayBegin, PayerThrow, accountVars
<1>7. CASE Charge
  <2>1. ledger \in Seq(EntryType) /\ bills' = bills /\ account.balance \in Int
    BY <1>7 DEF Charge, TypeInv
  <2>2. PICK amount \in ChargeAmounts : ChargeWithTransaction(amount, 0, 0)  BY <1>7 DEF Charge
  <2>3. /\ DOMAIN ledger \subseteq DOMAIN ledger'
        /\ \A i \in DOMAIN ledger : ledger'[i] = ledger[i]
    <3> DEFINE r == [ref |-> 0, amount |-> amount, reward |-> 0,
                     balance |-> account.balance + amount + 0]
    <3>1. r \in EntryType  BY <2>1, OwnerAssumption DEF EntryType
    <3>2. ledger' = Append(ledger, r)  BY <2>2 DEF ChargeWithTransaction
    <3> HIDE DEF r
    <3>3. /\ DOMAIN ledger = 1..Len(ledger) /\ Len(ledger) \in Nat
          /\ DOMAIN ledger' = 1..(Len(ledger) + 1)
          /\ \A i \in 1..Len(ledger) : ledger'[i] = ledger[i]
      BY <2>1, <3>1, <3>2, LedgerAppend
    <3> QED  BY <3>3
  <2> QED  BY <2>1, <2>3, DoneFrame DEF BillsKept
<1>8. CASE Admit \/ Serve \/ Restarted \/ DeleteBundle \/ DeleteDocument
  BY <1>1, <1>8 DEF Admit, Serve, Restarted, DeleteBundle, DeleteDocument, accountVars
<1>9. CASE UNCHANGED vars  BY <1>1, <1>9 DEF vars, accountVars
<1> QED  BY <1>3, <1>6, <1>7, <1>8, <1>9 DEF Next, Owner

\* billing-payment never marks a bill Done that has not been paid, although handlers that
\* outlive their locks may pay it twice.
THEOREM DoneWasPaid == Spec => []DoneIsPaid
<1>1. Init => DoneIsPaid  BY DEF Init, CreationInit, DoneIsPaid
<1> QED  BY <1>1, TypeInit, TypeStep, DoneStep, PTL DEF Spec
-----------------------------------------------------------------------------
(* Once, if handlers end before their locks time out *)

\* The handler that bills holds the lock, works on the hour the document is at, and that
\* hour has no bill yet; an application that has lost its document may keep a bill of it.
OnceInv ==
    /\ \A c \in Creators : creator[c].at # "idle" =>
           /\ app.lock = c /\ creator[c].hour = app.latest
           /\ \A b \in DOMAIN bills : bills[b].hour # app.latest
    /\ \A a, b \in DOMAIN bills : bills[a].hour = bills[b].hour => a = b
    /\ \A b \in DOMAIN bills : /\ bills[b].hour <= app.latest
                               /\ app.kept # "none" => bills[b].hour < app.latest

LEMMA OnceFrame ==
  ASSUME OnceInv, BillsKept, DOMAIN bills' \subseteq DOMAIN bills,
         app'.latest = app.latest, app'.lock = app.lock,
         app'.kept # "none" => app.kept # "none",
         \A c \in Creators : creator'[c].at # "idle" =>
             creator[c].at # "idle" /\ creator'[c].hour = creator[c].hour
  PROVE  OnceInv'
BY DEF OnceInv, BillsKept

LEMMA BillsTyped ==
  ASSUME TypeInv
  PROVE  /\ app.latest \in Nat
         /\ \A b \in DOMAIN bills : /\ b \in Nat \ {0} /\ bills[b] \in BillType
                                    /\ bills[b].hour \in Nat /\ bills[b].amount \in Nat
                                    /\ bills[b].state \in {"Pending", "Done"}
<1>1. bills \in Seq(BillType) /\ app.latest \in Nat  BY DEF TypeInv, AppType
<1>2. ASSUME NEW b \in DOMAIN bills
      PROVE  /\ b \in Nat \ {0} /\ bills[b] \in BillType
             /\ bills[b].hour \in Nat /\ bills[b].amount \in Nat
             /\ bills[b].state \in {"Pending", "Done"}
  <2>1. b \in 1..Len(bills)  BY <1>1, <1>2, LenProperties
  <2>2. bills[b] \in BillType  BY <1>1, <2>1, ElementOfSeq
  <2>3. Len(bills) \in Nat  BY <1>1, LenProperties
  <2>4. b \in Nat \ {0}  BY <2>1, <2>3
  <2>5. /\ bills[b].hour \in 0..MaxHour /\ bills[b].amount \in Prices
        /\ bills[b].state \in {"Pending", "Done"}
    BY <2>2 DEF BillType
  <2>6. 0..MaxHour \subseteq Nat /\ Prices \subseteq Nat  BY CreationAssumption
  <2> QED  BY <2>2, <2>4, <2>5, <2>6
<1> QED  BY <1>1, <1>2

LEMMA OnceClaim ==
  ASSUME OnceInv, TypeInv, NEW c \in Creators, BillClaim(c)
  PROVE  OnceInv'
<1> DEFINE r == [at |-> "meter", hour |-> app.latest, amount |-> 0]
<1>1. app.lock = Free /\ app.kept # "none" /\ bills' = bills  BY DEF BillClaim
<1>2. \A d \in Creators : d # Free  BY CreationAssumption
<1>3. \A d \in Creators : creator[d].at = "idle"  BY <1>1, <1>2 DEF OnceInv
<1>4. /\ creator'[c].hour = app.latest
      /\ \A d \in Creators \ {c} : creator'[d].at = "idle"
  BY <1>3 DEF BillClaim, TypeInv, CreatorsOK
<1>5. app'.latest = app.latest /\ app'.lock = c /\ app'.kept = app.kept
  BY DEF BillClaim, TypeInv, AppType
<1>6. /\ app.latest \in Nat
      /\ \A b \in DOMAIN bills : bills[b].hour \in Nat /\ bills[b].hour < app.latest
  BY <1>1, BillsTyped DEF OnceInv
<1>7. \A b \in DOMAIN bills : bills[b].hour # app.latest  BY <1>6
<1> QED  BY <1>1, <1>4, <1>5, <1>7 DEF OnceInv

\* A new bill is the first of its hour, and the next hour has none.
LEMMA OnceCommit ==
  ASSUME OnceInv, TypeInv, NEW c \in Creators, BillCommit(c)
  PROVE  OnceInv'
<1> DEFINE r == NewBill(c)
           n == Len(bills) + 1
<1>1. /\ creator[c].at = "commit" /\ creator[c].hour = app.latest /\ app.lock = c
      /\ \A b \in DOMAIN bills : bills[b].hour # app.latest
  BY DEF BillCommit, OnceInv
<1>2. r \in BillType /\ r.hour = app.latest  BY <1>1, NewBillTyped
<1>3. bills' = Append(bills, r) /\ bills \in Seq(BillType)  BY DEF BillCommit, TypeInv
<1>4. CASE app.kept = "none"  \* the update finds nothing
  <2>1. app' = app  BY <1>4 DEF BillCommit
  <2> HIDE DEF r
  <2>2. /\ n \in DOMAIN bills' /\ bills'[n] = r
        /\ \A b \in DOMAIN bills : b \in DOMAIN bills' /\ bills'[b] = bills[b]
        /\ \A b \in DOMAIN bills' : b \in DOMAIN bills \/ b = n
    BY <1>2, <1>3, BillAppend
  <2> HIDE DEF n
  <2>3. \A d \in Creators : creator'[d].at = "idle"
    <3>1. /\ creator'[c].at = "idle"
          /\ \A d \in Creators \ {c} : creator'[d] = creator[d]
      BY CreatorEnds DEF BillCommit, TypeInv, CreatorsOK
    <3>2. \A d \in Creators \ {c} : creator[d].at = "idle"  BY <1>1 DEF OnceInv
    <3> QED  BY <3>1, <3>2
  <2>4. \A a, b \in DOMAIN bills' : bills'[a].hour = bills'[b].hour => a = b
    BY <1>1, <1>2, <2>2 DEF OnceInv
  <2>5. app.latest \in Nat  BY DEF TypeInv, AppType
  <2>6. \A b \in DOMAIN bills' : bills'[b].hour <= app.latest
    BY <1>2, <2>2, <2>5 DEF OnceInv
  <2> QED  BY <1>4, <2>1, <2>3, <2>4, <2>6 DEF OnceInv
<1>5. CASE app.kept # "none"
  <2>1. app'.latest = app.latest + 1 /\ app'.kept = app.kept
    BY <1>1, <1>5 DEF BillCommit, TypeInv, AppType
  <2> HIDE DEF r
  <2>2. /\ n \in DOMAIN bills' /\ bills'[n] = r
        /\ \A b \in DOMAIN bills : b \in DOMAIN bills' /\ bills'[b] = bills[b]
        /\ \A b \in DOMAIN bills' : b \in DOMAIN bills \/ b = n
    BY <1>2, <1>3, BillAppend
  <2> HIDE DEF n
  <2>3. \A d \in Creators : creator'[d].at = "idle"
    <3>1. /\ creator'[c].at = "idle"
          /\ \A d \in Creators \ {c} : creator'[d] = creator[d]
      BY CreatorEnds DEF BillCommit, TypeInv, CreatorsOK
    <3>2. \A d \in Creators \ {c} : creator[d].at = "idle"  BY <1>1 DEF OnceInv
    <3> QED  BY <3>1, <3>2
  <2>4. \A a, b \in DOMAIN bills' : bills'[a].hour = bills'[b].hour => a = b
    BY <1>1, <1>2, <2>2 DEF OnceInv
  <2>5. app.latest \in Nat /\ \A b \in DOMAIN bills : bills[b].hour \in Nat
    BY BillsTyped
  <2>6. \A b \in DOMAIN bills : bills[b].hour <= app.latest  BY DEF OnceInv
  <2>7. \A b \in DOMAIN bills' : bills'[b].hour <= app.latest
    BY <1>2, <2>2, <2>5, <2>6
  <2>8. \A b \in DOMAIN bills' : bills'[b].hour \in Nat  BY <1>2, <2>2, <2>5
  <2>9. \A b \in DOMAIN bills' : bills'[b].hour <= app'.latest /\ bills'[b].hour < app'.latest
    BY <2>1, <2>5, <2>7, <2>8
  <2> QED  BY <2>3, <2>4, <2>9 DEF OnceInv
<1> QED  BY <1>4, <1>5

LEMMA OnceCreation ==
  ASSUME ~SlowHandlers, OnceInv, TypeInv, CreationNext
  PROVE  OnceInv'
<1>1. ASSUME NEW c \in Creators, Meter(c)  PROVE OnceInv'
  <2>1. PICK price \in Prices :
          creator' = [creator EXCEPT ![c].at = "begin", ![c].amount = price]
    BY <1>1 DEF Meter
  <2>2. /\ creator'[c].hour = creator[c].hour /\ creator[c].at = "meter"
        /\ \A d \in Creators \ {c} : creator'[d] = creator[d]
    BY <1>1, <2>1 DEF Meter, TypeInv, CreatorsOK, CreatorType
  <2>3. app' = app /\ BillsKept /\ bills' = bills  BY <1>1 DEF Meter, BillsKept
  <2> QED  BY <2>2, <2>3, OnceFrame
<1>2. ASSUME NEW c \in Creators, BillBegin(c)  PROVE OnceInv'
  <2>1. /\ creator'[c].hour = creator[c].hour /\ creator[c].at = "begin"
        /\ \A d \in Creators \ {c} : creator'[d] = creator[d]
    BY <1>2, CreatorAt DEF BillBegin, TypeInv, CreatorsOK
  <2>2. app' = app /\ BillsKept /\ bills' = bills  BY <1>2 DEF BillBegin, BillsKept
  <2> QED  BY <2>1, <2>2, OnceFrame
<1>3. ASSUME NEW c \in Creators, MeterNoBundle(c) \/ BillAbort(c) \/ CreatorThrow(c)
      PROVE  OnceInv'
  <2>1. CreatorEnd(c)  BY <1>3 DEF MeterNoBundle, BillAbort, CreatorThrow
  <2>2. creator'[c].at = "idle" /\ \A d \in Creators \ {c} : creator'[d] = creator[d]
    BY <2>1, CreatorEnds DEF TypeInv, CreatorsOK
  <2>3. app' = app /\ BillsKept /\ bills' = bills
    BY <1>3 DEF MeterNoBundle, BillAbort, CreatorThrow, BillsKept
  <2> QED  BY <2>2, <2>3, OnceFrame
<1>4. ASSUME BillLockExpires  PROVE OnceInv'
  <2>1. /\ app'.latest = app.latest /\ app'.kept = app.kept
        /\ creator' = creator /\ bills' = bills
    BY <1>4 DEF BillLockExpires, TypeInv, AppType
  <2>2. \A c \in Creators : creator[c].at = "idle"  BY <1>4 DEF BillLockExpires, OnceInv
  <2> QED  BY <2>1, <2>2 DEF OnceInv
<1>5. ASSUME HourPasses  PROVE OnceInv'
  BY <1>5, OnceFrame DEF HourPasses, BillsKept
<1> QED  BY <1>1, <1>2, <1>3, <1>4, <1>5, OnceClaim, OnceCommit DEF CreationNext, CreatorStep

LEMMA OncePayment ==
  ASSUME OnceInv, TypeInv, PaymentNext
  PROVE  OnceInv'
<1>1. creator' = creator
  BY DEF PaymentNext, PayerStep, PayBegin, PayCommit, PayerThrow, PayClaim, PayLockExpires
<1>2. app'.latest = app.latest /\ app'.kept = app.kept /\ app'.lock = app.lock
  BY DEF PaymentNext, PayerStep, PayBegin, PayCommit, PayerThrow, PayClaim, PayLockExpires,
         TypeInv, AppType
<1>3. ASSUME NEW p \in Payers, PayCommit(p)
      PROVE  BillsKept /\ DOMAIN bills' \subseteq DOMAIN bills
  BY <1>3, PaidBill DEF BillsKept
<1>4. ASSUME NEW p \in Payers, PayBegin(p) \/ PayerThrow(p)
      PROVE  BillsKept /\ DOMAIN bills' \subseteq DOMAIN bills
  BY <1>4 DEF PayBegin, PayerThrow, BillsKept
<1>5. BillsKept /\ DOMAIN bills' \subseteq DOMAIN bills
  BY <1>3, <1>4, BillsKeptByClaim, BillsKeptByLock DEF PaymentNext, PayerStep
<1> QED  BY <1>1, <1>2, <1>5, OnceFrame

LEMMA OnceStep == ~SlowHandlers /\ OnceInv /\ TypeInv /\ [Next]_vars => OnceInv'
<1> SUFFICES ASSUME ~SlowHandlers, OnceInv, TypeInv, [Next]_vars PROVE OnceInv'  OBVIOUS
<1>1. ASSUME Owner \/ UNCHANGED vars  PROVE OnceInv'
  <2>1. /\ app'.latest = app.latest /\ app'.lock = app.lock
        /\ app'.kept # "none" => app.kept # "none"
    BY <1>1 DEF Owner, Charge, Admit, Serve, Restarted, DeleteBundle, DeleteDocument, vars,
                TypeInv, AppType
  <2>2. creator' = creator /\ bills' = bills
    BY <1>1 DEF Owner, Charge, Admit, Serve, Restarted, DeleteBundle, DeleteDocument, vars
  <2> QED  BY <2>1, <2>2, OnceFrame DEF BillsKept
<1> QED  BY <1>1, OnceCreation, OncePayment DEF Next

LEMMA OnceInit == Init => OnceInv
BY DEF Init, CreationInit, CreatorIdle, OnceInv

\* Sets of at most one element have a cardinality of at most 1.
LEMMA AtMostOne ==
  ASSUME NEW S, \A x, y \in S : x = y
  PROVE  /\ S = {} => Cardinality(S) = 0
         /\ S # {} => Cardinality(S) = 1
         /\ Cardinality(S) \in {0, 1}
<1>1. S = {} => Cardinality(S) = 0  BY FS_EmptySet
<1>2. ASSUME S # {}  PROVE Cardinality(S) = 1
  <2>1. PICK x : S = {x}  BY <1>2
  <2> QED  BY <2>1, FS_Singleton
<1> QED  BY <1>1, <1>2

\* billing-creation bills every hour before latestBillingTime exactly once and no hour
\* from it on, as long as no handler outlives its lock of 15 seconds.
THEOREM HoursBilledOnce == ASSUME ~SlowHandlers PROVE Spec => []HoursOnce
<1>1. TypeInv /\ HoursInv /\ OnceInv => HoursOnce
  <2> SUFFICES ASSUME TypeInv, HoursInv, OnceInv, NEW h \in 0..MaxHour
               PROVE  Cardinality(BillsOf(h)) \in
                          (IF h < app.latest THEN {1}
                           ELSE IF app.kept = "none" THEN {0, 1} ELSE {0})
    BY DEF HoursOnce
  <2>1. \A a, b \in BillsOf(h) : a = b  BY DEF BillsOf, OnceInv
  <2>2. app.latest \in Nat /\ h \in Nat  BY DEF TypeInv, AppType
  <2>3. CASE h < app.latest
    <3>1. BillsOf(h) # {}  BY <2>2, <2>3 DEF HoursInv, NoHourSkipped
    <3>2. Cardinality(BillsOf(h)) = 1  BY <2>1, <3>1, AtMostOne
    <3> QED  BY <2>3, <3>2
  <2>4. CASE ~(h < app.latest) /\ app.kept = "none"
    <3>1. Cardinality(BillsOf(h)) \in {0, 1}  BY <2>1, AtMostOne
    <3> QED  BY <2>4, <3>1
  <2>5. CASE ~(h < app.latest) /\ app.kept # "none"
    <3>1. BillsOf(h) = {}  BY <2>5 DEF BillsOf, OnceInv
    <3>2. Cardinality(BillsOf(h)) = 0  BY <3>1, FS_EmptySet
    <3> QED  BY <2>5, <3>2
  <2> QED  BY <2>3, <2>4, <2>5
<1>2. OnceInv /\ TypeInv /\ [Next]_vars => OnceInv'  BY OnceStep
<1> QED
  BY <1>1, <1>2, TypeInit, TypeStep, HoursInit, HoursStep, OnceInit, PTL DEF Spec

\* The handler that pays holds the lock of a pending bill; a payment is of a bill that is
\* Done and cost something, and no two payments are of one bill.
PayOnceInv ==
    /\ \A p \in Payers : payer[p].at # "idle" =>
           bills[payer[p].bill].lock = p /\ bills[payer[p].bill].state = "Pending"
    /\ \A b \in DOMAIN bills : bills[b].state = "Pending" => bills[b].amount > 0
    /\ \A i \in DOMAIN ledger : ledger[i].ref # 0 =>
           /\ ledger[i].ref \in DOMAIN bills
           /\ bills[ledger[i].ref].state = "Done" /\ bills[ledger[i].ref].amount > 0
    /\ \A i, j \in DOMAIN ledger : ledger[i].ref = ledger[j].ref /\ ledger[i].ref # 0 => i = j

\* A step that pays nothing: bills keep their state, pending ones are still known to those
\* who pay them, and what the ledger gets has no bill.
LEMMA PayOnceFrame ==
  ASSUME PayOnceInv, BillsKept,
         \A b \in DOMAIN bills : bills'[b].state = bills[b].state,
         \A b \in DOMAIN bills' : b \in DOMAIN bills
                                  \/ (bills'[b].state = "Pending" => bills'[b].amount > 0),
         \A i \in DOMAIN ledger : ledger'[i].ref = ledger[i].ref,
         \A i \in DOMAIN ledger' : ledger'[i].ref # 0 => i \in DOMAIN ledger,
         \A p \in Payers : payer'[p].at # "idle" =>
             bills'[payer'[p].bill].lock = p /\ bills'[payer'[p].bill].state = "Pending"
  PROVE  PayOnceInv'
<1>1. \A b \in DOMAIN bills' : bills'[b].state = "Pending" => bills'[b].amount > 0
  BY DEF PayOnceInv, BillsKept
<1>2. \A i \in DOMAIN ledger' : ledger'[i].ref # 0 =>
          /\ ledger'[i].ref \in DOMAIN bills'
          /\ bills'[ledger'[i].ref].state = "Done" /\ bills'[ledger'[i].ref].amount > 0
  BY DEF PayOnceInv, BillsKept
<1>3. \A i, j \in DOMAIN ledger' : ledger'[i].ref = ledger'[j].ref /\ ledger'[i].ref # 0 => i = j
  BY DEF PayOnceInv
<1> QED  BY <1>1, <1>2, <1>3 DEF PayOnceInv

\* What is left to show when the bills and the ledger do not change: those who pay.
LEMMA PayOnceSame ==
  ASSUME PayOnceInv, UNCHANGED <<bills, ledger>>,
         \A p \in Payers : payer'[p].at # "idle" =>
             payer[p].at # "idle" /\ payer'[p].bill = payer[p].bill
  PROVE  PayOnceInv'
BY DEF PayOnceInv

LEMMA PayOnceClaim ==
  ASSUME PayOnceInv, TypeInv, NEW p \in Payers, NEW b \in DOMAIN bills, PayClaim(p, b)
  PROVE  PayOnceInv'
<1> DEFINE e == [bills[b] EXCEPT !.lock = p]
<1>1. bills[b].lock = Free /\ bills[b].state = "Pending" /\ ledger' = ledger
  BY DEF PayClaim, accountVars
<1>2. e \in BillType /\ e.lock = p /\ e.state = bills[b].state
  <2>1. bills[b] \in BillType /\ p \in Locks
    BY BillsTyped, PaymentAssumption DEF Locks
  <2> QED  BY <2>1, BillWrite DEF BillType
<1>3. bills' = [bills EXCEPT ![b] = e]  BY DEF PayClaim
<1> HIDE DEF e
<1>4. /\ bills'[b] = e /\ DOMAIN bills' = DOMAIN bills
      /\ \A a \in DOMAIN bills \ {b} : bills'[a] = bills[a]
  BY <1>2, <1>3, BillSet DEF TypeInv
<1>5. /\ payer'[p].bill = b
      /\ \A q \in Payers \ {p} : payer'[q] = payer[q]
  BY DEF PayClaim, PayerIdle, TypeInv, PayersOK
<1>6. \A q \in Payers \ {p} : payer[q].at # "idle" =>
          payer[q].bill \in DOMAIN bills /\ bills[payer[q].bill].lock = q /\ q # Free
  BY PaymentAssumption, CreationAssumption DEF PayOnceInv, TypeInv, PayersOK
<1>7. \A q \in Payers : payer'[q].at # "idle" =>
          bills'[payer'[q].bill].lock = q /\ bills'[payer'[q].bill].state = "Pending"
  <2>1. ASSUME NEW q \in Payers \ {p}, payer'[q].at # "idle"
        PROVE  bills'[payer'[q].bill].lock = q /\ bills'[payer'[q].bill].state = "Pending"
    BY <1>1, <1>4, <1>5, <1>6, <2>1 DEF PayOnceInv
  <2> QED  BY <1>1, <1>2, <1>4, <1>5, <2>1
<1>8. BillsKept /\ \A a \in DOMAIN bills' : a \in DOMAIN bills /\ bills'[a].state = bills[a].state
  BY BillsKeptByClaim
<1> QED  BY <1>1, <1>4, <1>7, <1>8, PayOnceFrame

LEMMA PayOnceLock ==
  ASSUME ~SlowHandlers, PayOnceInv, TypeInv, NEW b \in DOMAIN bills, PayLockExpires(b)
  PROVE  PayOnceInv'
<1> DEFINE e == [bills[b] EXCEPT !.lock = Free]
<1>1. ~PayerHolds(b) /\ ledger' = ledger /\ payer' = payer
  BY DEF PayLockExpires, accountVars
<1>2. e \in BillType
  <2>1. bills[b] \in BillType /\ Free \in Locks  BY BillsTyped DEF Locks
  <2> QED  BY <2>1, BillWrite
<1>3. bills' = [bills EXCEPT ![b] = e]  BY DEF PayLockExpires
<1> HIDE DEF e
<1>4. \A a \in DOMAIN bills \ {b} : bills'[a] = bills[a]
  BY <1>2, <1>3, BillSet DEF TypeInv
<1>5. \A q \in Payers : payer[q].at # "idle" =>
          payer[q].bill \in DOMAIN bills /\ payer[q].bill # b
  BY <1>1 DEF PayOnceInv, PayerHolds, TypeInv, PayersOK
<1>6. \A q \in Payers : payer'[q].at # "idle" =>
          bills'[payer'[q].bill].lock = q /\ bills'[payer'[q].bill].state = "Pending"
  BY <1>1, <1>4, <1>5 DEF PayOnceInv
<1>7. BillsKept /\ \A a \in DOMAIN bills' : a \in DOMAIN bills /\ bills'[a].state = bills[a].state
  BY BillsKeptByLock
<1> QED  BY <1>1, <1>6, <1>7, PayOnceFrame DEF BillsKept

\* The bill was pending, so the ledger had no payment of it; now it has one.
LEMMA PayOnceCommit ==
  ASSUME PayOnceInv, TypeInv, NEW p \in Payers, PayCommit(p)
  PROVE  PayOnceInv'
<1> DEFINE b == payer[p].bill
           n == Len(ledger) + 1
<1>1. /\ b \in DOMAIN bills /\ b \in Nat /\ bills[b].amount \in Nat
      /\ DOMAIN bills' = DOMAIN bills
      /\ bills'[b].amount = bills[b].amount /\ bills'[b].state = "Done"
      /\ \A a \in DOMAIN bills \ {b} : bills'[a] = bills[a]
      /\ PayWithTransaction(bills[b].amount, payer[p].balance, b)
      /\ payer[p].balance \in Int
  BY PaidBill
<1>2. /\ payer[p].at # "idle"
      /\ bills[b].lock = p /\ bills[b].state = "Pending" /\ bills[b].amount > 0
  BY <1>1 DEF PayCommit, PayOnceInv
<1> HIDE DEF b
<1>3. DOMAIN ledger' = 1..n /\ ledger'[n].ref = b
  BY <1>1, PayLemma
<1>4. /\ DOMAIN ledger = 1..Len(ledger) /\ Len(ledger) \in Nat
      /\ \A i \in 1..Len(ledger) : ledger'[i] = ledger[i]
  BY <1>1, LenProperties, AppendProperties DEF TypeInv, PayWithTransaction, EntryType
<1>5. /\ \A i \in DOMAIN ledger' : i \in DOMAIN ledger \/ i = n
      /\ \A i \in DOMAIN ledger : ledger'[i] = ledger[i]
  BY <1>3, <1>4
<1> HIDE DEF n
<1>6. \A i \in DOMAIN ledger : ledger[i].ref # 0 => ledger[i].ref # b
  BY <1>2 DEF PayOnceInv
<1>7. /\ payer'[p].at = "idle"
      /\ \A q \in Payers \ {p} : payer'[q] = payer[q]
  BY PayerEnds DEF PayCommit, TypeInv, PayersOK
<1>8. \A q \in Payers : payer'[q].at # "idle" =>
          bills'[payer'[q].bill].lock = q /\ bills'[payer'[q].bill].state = "Pending"
  <2> SUFFICES ASSUME NEW q \in Payers \ {p}, payer[q].at # "idle"
               PROVE  bills'[payer[q].bill].lock = q /\ bills'[payer[q].bill].state = "Pending"
    BY <1>7
  <2>1. bills[payer[q].bill].lock = q /\ bills[payer[q].bill].state = "Pending"
    BY DEF PayOnceInv
  <2>2. payer[q].bill \in DOMAIN bills  BY DEF TypeInv, PayersOK
  <2> QED  BY <1>1, <1>2, <2>1, <2>2
<1>9. \A a \in DOMAIN bills' : bills'[a].state = "Pending" => bills'[a].amount > 0
  BY <1>1 DEF PayOnceInv
<1>10. \A i \in DOMAIN ledger' : ledger'[i].ref # 0 =>
           /\ ledger'[i].ref \in DOMAIN bills'
           /\ bills'[ledger'[i].ref].state = "Done" /\ bills'[ledger'[i].ref].amount > 0
  BY <1>1, <1>2, <1>3, <1>5, <1>6 DEF PayOnceInv
<1>11. \A i, j \in DOMAIN ledger' : ledger'[i].ref = ledger'[j].ref /\ ledger'[i].ref # 0 => i = j
  BY <1>3, <1>5, <1>6 DEF PayOnceInv
<1> QED  BY <1>8, <1>9, <1>10, <1>11 DEF PayOnceInv

LEMMA PayOncePayment ==
  ASSUME ~SlowHandlers, PayOnceInv, TypeInv, PaymentNext
  PROVE  PayOnceInv'
<1>1. ASSUME NEW p \in Payers, PayBegin(p)  PROVE PayOnceInv'
  <2>1. payer[p].at # "idle" /\ UNCHANGED <<bills, ledger>>  BY <1>1 DEF PayBegin, accountVars
  <2>2. \A q \in Payers : payer'[q].bill = payer[q].bill /\ (q # p => payer'[q] = payer[q])
    BY <1>1 DEF PayBegin, TypeInv, PayersOK, PayerType
  <2> QED  BY <2>1, <2>2, PayOnceSame
<1>2. ASSUME NEW p \in Payers, PayerThrow(p)  PROVE PayOnceInv'
  <2>1. /\ payer'[p].at = "idle" /\ UNCHANGED <<bills, ledger>>
        /\ \A q \in Payers \ {p} : payer'[q] = payer[q]
    BY <1>2, PayerEnds DEF PayerThrow, TypeInv, PayersOK, accountVars
  <2> QED  BY <2>1, PayOnceSame
<1> QED
  BY <1>1, <1>2, PayOnceClaim, PayOnceLock, PayOnceCommit DEF PaymentNext, PayerStep

LEMMA PayOnceCreation ==
  ASSUME PayOnceInv, TypeInv, CreationNext, CreationOnly
  PROVE  PayOnceInv'
<1>1. ledger' = ledger /\ payer' = payer  BY DEF CreationOnly, accountVars
<1>2. ASSUME NEW c \in Creators, BillCommit(c)  PROVE PayOnceInv'
  <2> DEFINE r == NewBill(c)
             n == Len(bills) + 1
  <2>1. /\ r \in BillType
        /\ r.state = "Pending" => r.amount # 0
    BY <1>2, NewBillTyped DEF BillCommit, NewBill
  <2>2. r.amount \in Nat  BY <2>1, CreationAssumption DEF BillType
  <2>3. bills' = Append(bills, r) /\ bills \in Seq(BillType)  BY <1>2 DEF BillCommit, TypeInv
  <2> HIDE DEF r
  <2>4. /\ bills'[n] = r
        /\ \A b \in DOMAIN bills : b \in DOMAIN bills' /\ bills'[b] = bills[b]
        /\ \A b \in DOMAIN bills' : b \in DOMAIN bills \/ b = n
    BY <2>1, <2>3, BillAppend
  <2> HIDE DEF n
  <2>5. \A b \in DOMAIN bills' :
            b \in DOMAIN bills \/ (bills'[b].state = "Pending" => bills'[b].amount > 0)
    BY <2>1, <2>2, <2>4
  <2>6. \A p \in Payers : payer[p].at # "idle" => payer[p].bill \in DOMAIN bills
    BY DEF TypeInv, PayersOK
  <2>7. \A p \in Payers : payer'[p].at # "idle" =>
            bills'[payer'[p].bill].lock = p /\ bills'[payer'[p].bill].state = "Pending"
    BY <1>1, <2>4, <2>6 DEF PayOnceInv
  <2>8. BillsKept  BY <2>4 DEF BillsKept
  <2> QED  BY <1>1, <2>4, <2>5, <2>7, <2>8, PayOnceFrame
<1>3. CASE bills' = bills  BY <1>1, <1>3, PayOnceSame
<1> QED
  BY <1>2, <1>3 DEF CreationNext, CreatorStep, BillClaim, Meter, MeterNoBundle, BillBegin,
                    BillAbort, CreatorThrow, BillLockExpires, HourPasses

LEMMA PayOnceCharge ==
  ASSUME PayOnceInv, TypeInv, Charge
  PROVE  PayOnceInv'
<1>1. bills' = bills /\ payer' = payer  BY DEF Charge
<1>2. PICK amount \in ChargeAmounts : ChargeWithTransaction(amount, 0, 0)  BY DEF Charge
<1> DEFINE r == [ref |-> 0, amount |-> amount, reward |-> 0,
                 balance |-> account.balance + amount + 0]
<1>3. r \in EntryType /\ r.ref = 0  BY OwnerAssumption DEF EntryType, TypeInv
<1>4. ledger' = Append(ledger, r)  BY <1>2 DEF ChargeWithTransaction
<1> HIDE DEF r
<1>5. /\ DOMAIN ledger = 1..Len(ledger) /\ Len(ledger) \in Nat
      /\ DOMAIN ledger' = 1..(Len(ledger) + 1)
      /\ ledger'[Len(ledger) + 1] = r
      /\ \A i \in 1..Len(ledger) : ledger'[i] = ledger[i]
  BY <1>3, <1>4, LedgerAppend DEF TypeInv
<1>6. /\ \A i \in DOMAIN ledger : ledger'[i].ref = ledger[i].ref
      /\ \A i \in DOMAIN ledger' : ledger'[i].ref # 0 => i \in DOMAIN ledger
  BY <1>3, <1>5
<1> QED  BY <1>1, <1>6, PayOnceFrame DEF BillsKept, PayOnceInv

LEMMA PayOnceStep == ~SlowHandlers /\ PayOnceInv /\ TypeInv /\ [Next]_vars => PayOnceInv'
<1> SUFFICES ASSUME ~SlowHandlers, PayOnceInv, TypeInv, [Next]_vars PROVE PayOnceInv'
  OBVIOUS
<1>1. ASSUME \/ Admit \/ Serve \/ Restarted \/ DeleteBundle \/ DeleteDocument
             \/ UNCHANGED vars
      PROVE  PayOnceInv'
  <2>1. UNCHANGED <<bills, ledger, payer>>
    BY <1>1 DEF Admit, Serve, Restarted, DeleteBundle, DeleteDocument, vars, accountVars
  <2> QED  BY <2>1, PayOnceSame
<1> QED  BY <1>1, PayOnceCreation, PayOncePayment, PayOnceCharge DEF Next, Owner

LEMMA PayOnceInit == Init => PayOnceInv
<1> SUFFICES ASSUME Init PROVE PayOnceInv  OBVIOUS
<1>1. \A p \in Payers : payer[p].at = "idle"  BY DEF Init, PaymentInit, PayerIdle
<1>2. DOMAIN bills = {} /\ DOMAIN ledger = {}  BY DEF Init, CreationInit, AccountInit
<1> QED  BY <1>1, <1>2 DEF PayOnceInv

\* billing-payment takes the price of a bill from the account exactly once, in the step
\* that marks the bill Done, as long as no handler outlives its lock of an hour.
THEOREM BillsPaidOnce == ASSUME ~SlowHandlers PROVE Spec => []PaidOnce
<1>1. TypeInv /\ DoneIsPaid /\ PayOnceInv => PaidOnce
  <2> SUFFICES ASSUME TypeInv, DoneIsPaid, PayOnceInv, NEW b \in DOMAIN bills
               PROVE  Cardinality(PaymentsOf(b)) =
                          IF bills[b].state = "Done" /\ bills[b].amount > 0 THEN 1 ELSE 0
    BY DEF PaidOnce
  <2>1. b # 0  BY BillsTyped
  <2>2. \A i, j \in PaymentsOf(b) : i = j  BY <2>1 DEF PaymentsOf, PayOnceInv
  <2>3. CASE bills[b].state = "Done" /\ bills[b].amount > 0
    <3>1. PaymentsOf(b) # {}  BY <2>3 DEF DoneIsPaid
    <3>2. Cardinality(PaymentsOf(b)) = 1  BY <2>2, <3>1, AtMostOne
    <3> QED  BY <2>3, <3>2
  <2>4. CASE ~(bills[b].state = "Done" /\ bills[b].amount > 0)
    <3>1. PaymentsOf(b) = {}  BY <2>1, <2>4 DEF PaymentsOf, PayOnceInv
    <3>2. Cardinality(PaymentsOf(b)) = 0  BY <3>1, FS_EmptySet
    <3> QED  BY <2>4, <3>2
  <2> QED  BY <2>3, <2>4
<1>2. Init => DoneIsPaid  BY DEF Init, CreationInit, DoneIsPaid
<1>3. PayOnceInv /\ TypeInv /\ [Next]_vars => PayOnceInv'  BY PayOnceStep
<1> QED
  BY <1>1, <1>2, <1>3, TypeInit, TypeStep, DoneStep, PayOnceInit, PTL DEF Spec
=============================================================================
