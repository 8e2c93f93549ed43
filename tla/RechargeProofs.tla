--------------------------- MODULE RechargeProofs ---------------------------
(***************************************************************************)
(* Orders are credited at most once and with their reward, for any number  *)
(* of orders, codes, tiers and notifications, in any order.                *)
(***************************************************************************)
EXTENDS Recharge, FiniteSetTheorems, TLAPS

Record == [ref : Orders \cup Codes \cup {Nothing}, amount : Int, reward : Nat, balance : Int]

-----------------------------------------------------------------------------
(* The reward *)

\* Of numbers that have a bound there is a greatest.
LEMMA GreatestExists ==
  ASSUME NEW S \in SUBSET Nat, S # {}, NEW b \in Nat, \A s \in S : s <= b
  PROVE  \E s \in S : \A r \in S : r <= s
<1> DEFINE Bounds == {n \in Nat : \A s \in S : s <= n}
<1>1. IsWellFoundedOn(OpToRel(<, Nat), Nat) /\ Bounds \subseteq Nat /\ Bounds # {}
  BY NatLessThanWellFounded
<1> HIDE DEF Bounds
<1>2. PICK n \in Bounds : \A m \in Bounds : <<m, n>> \notin OpToRel(<, Nat)
  BY <1>1, WFMin
<1>3. n \in Nat /\ \A s \in S : s <= n
  BY <1>2 DEF Bounds
<1>4. \A m \in Bounds : ~(m < n)
  BY <1>2, <1>3 DEF OpToRel, Bounds
<1>5. n \in S
  <2> SUFFICES ASSUME n \notin S PROVE FALSE
    OBVIOUS
  <2>1. \A s \in S : s \in Nat /\ s <= n /\ s # n
    BY <1>3
  <2>2. PICK s \in S : s \in Nat /\ s <= n /\ s # n
    BY <2>1
  <2>3. n > 0
    BY <1>3, <2>2
  <2>4. n - 1 \in Nat /\ (\A t \in S : t <= n - 1) /\ n - 1 < n
    BY <1>3, <2>1, <2>3
  <2> QED  BY <1>3, <1>4, <2>4 DEF Bounds
<1> QED  BY <1>3, <1>5

\* The reward is one of a tier, or none.
LEMMA RewardType == ASSUME NEW amount \in Nat PROVE Reward(amount) \in Nat
<1> DEFINE reached == {t \in Tiers : t.amount <= amount}
           amounts == {t.amount : t \in reached}
<1>1. CASE reached = {}
  BY <1>1 DEF Reward
<1>2. CASE reached # {}
  <2>1. amounts \in SUBSET Nat /\ amounts # {} /\ \A a \in amounts : a <= amount
    BY <1>2, RechargeAssumption
  <2>2. PICK a \in amounts : \A b \in amounts : b <= a
    <3> HIDE DEF amounts
    <3> QED  BY <2>1, GreatestExists
  <2>3. PICK best \in reached : \A u \in reached : u.amount <= best.amount
    BY <2>2
  <2>4. (CHOOSE t \in reached : \A u \in reached : u.amount <= t.amount) \in reached
    BY <2>3
  <2> QED  BY <1>2, <2>4, RechargeAssumption DEF Reward
<1> QED  BY <1>1, <1>2

-----------------------------------------------------------------------------
(* The invariant *)

\* What has been credited has left the phase in which it is credited, and success is only
\* notified of what is paid.
RechargeInv ==
    /\ TypeOK
    /\ OwedIsTrue
    /\ LedgerIsTrue
    /\ ChargedOnce
    /\ \A o \in Orders : order[o].phase \in {"none", "Pending"} => CreditsOf(o) = {}
    /\ \A o \in Orders : [order |-> o, success |-> TRUE] \in sent => trade[o] = "paid"

LEMMA InitInv == Init => RechargeInv
<1> SUFFICES ASSUME Init PROVE RechargeInv
  OBVIOUS
<1>1. ledger = << >> /\ \A o \in Orders : CreditsOf(o) = {}
  BY DEF Init, AccountInit, CreditsOf
<1>2. TypeOK
  BY <1>1, SignupAssumption, RechargeAssumption DEF Init, AccountInit, TypeOK
<1>3. OwedIsTrue /\ LedgerIsTrue
  BY <1>1, SignupAssumption DEF Init, AccountInit, OwedIsTrue, LedgerIsTrue
<1>4. ChargedOnce
  BY <1>1, FS_EmptySet DEF Init, ChargedOnce
<1> QED  BY <1>1, <1>2, <1>3, <1>4 DEF RechargeInv, Init

\* A record is appended to the ledger.
LEMMA Appended ==
  ASSUME TypeOK, NEW r \in Record, ledger' = Append(ledger, r)
  PROVE  /\ ledger' \in Seq(Record)
         /\ \A x : CreditsOf(x)' = IF x = r.ref THEN CreditsOf(x) \cup {Len(ledger) + 1}
                                                ELSE CreditsOf(x)
         /\ \A i \in DOMAIN ledger : ledger'[i] = ledger[i]
         /\ ledger'[Len(ledger) + 1] = r
         /\ \A x : Len(ledger) + 1 \notin CreditsOf(x) /\ CreditsOf(x) \subseteq DOMAIN ledger
<1>1. ledger \in Seq(Record) /\ Len(ledger) \in Nat
  BY DEF TypeOK, Record
<1>2. ledger' \in Seq(Record) /\ Len(ledger') = Len(ledger) + 1
      /\ \A i \in 1..Len(ledger) : ledger'[i] = ledger[i]
      /\ ledger'[Len(ledger) + 1] = r
  BY <1>1
<1>3. DOMAIN ledger = 1..Len(ledger) /\ DOMAIN ledger' = 1..(Len(ledger) + 1)
  BY <1>1, <1>2
<1>4. DOMAIN ledger' = DOMAIN ledger \cup {Len(ledger) + 1} /\ Len(ledger) + 1 \notin DOMAIN ledger
  BY <1>1, <1>3
<1>5. ASSUME NEW x
      PROVE CreditsOf(x)' = IF x = r.ref THEN CreditsOf(x) \cup {Len(ledger) + 1}
                                          ELSE CreditsOf(x)
  BY <1>2, <1>3, <1>4 DEF CreditsOf
<1>6. \A x : Len(ledger) + 1 \notin CreditsOf(x) /\ CreditsOf(x) \subseteq DOMAIN ledger
  BY <1>4 DEF CreditsOf
<1> QED  BY <1>2, <1>3, <1>5, <1>6

\* A record that shows the balance it leaves keeps the ledger true.
LEMMA LedgerExtends ==
  ASSUME TypeOK, LedgerIsTrue, NEW r \in Record, ledger' = Append(ledger, r),
         r.balance = account.balance + r.amount + r.reward, account'.balance = r.balance
  PROVE  LedgerIsTrue'
<1> DEFINE n == Len(ledger)
<1>1. /\ DOMAIN ledger = 1..n /\ n \in Nat
      /\ Len(ledger') = n + 1 /\ DOMAIN ledger' = 1..(n + 1)
      /\ ledger'[n + 1] = r
      /\ \A i \in 1..n : ledger'[i] = ledger[i]
  <2>1. ledger \in Seq(Record)
    BY DEF TypeOK, Record
  <2>2. ledger' \in Seq(Record) /\ Len(ledger') = n + 1
    BY <2>1
  <2> QED  BY <2>1, <2>2
<1> HIDE DEF n
<1>2. /\ \A i \in 1..n : ledger[i].balance = (IF i = 1 THEN SignupBonus ELSE ledger[i - 1].balance)
                                               + ledger[i].amount + ledger[i].reward
      /\ account.balance = IF n + 1 = 1 THEN SignupBonus ELSE ledger[n].balance
  BY <1>1 DEF LedgerIsTrue, n
<1>3. ASSUME NEW i \in 1..(n + 1)
      PROVE  ledger'[i].balance = (IF i = 1 THEN SignupBonus ELSE ledger'[i - 1].balance)
                                    + ledger'[i].amount + ledger'[i].reward
  <2>1. CASE i \in 1..n
    <3>1. i = 1 \/ i - 1 \in 1..n
      BY <1>1, <2>1
    <3> QED  BY <1>1, <1>2, <2>1, <3>1
  <2>2. CASE i = n + 1
    <3>1. ledger'[i] = r
      BY <1>1, <2>2
    <3>2. account.balance = IF i = 1 THEN SignupBonus ELSE ledger'[i - 1].balance
      BY <1>1, <1>2, <2>2
    <3> QED  BY <3>1, <3>2
  <2> QED  BY <1>1, <2>1, <2>2
<1>4. account'.balance = IF Len(ledger') + 1 = 1 THEN SignupBonus
                         ELSE ledger'[Len(ledger') + 1 - 1].balance
  BY <1>1
<1> QED  BY <1>1, <1>3, <1>4 DEF LedgerIsTrue

\* What a charge does to the account and its records.
LEMMA ChargeKeeps ==
  ASSUME TypeOK, OwedIsTrue, LedgerIsTrue,
         NEW amount \in Nat, NEW reward \in Nat, NEW ref \in Orders \cup Codes \cup {Nothing},
         ChargeWithTransaction(amount, reward, ref)
  PROVE  /\ account' \in [balance : Int, owed : BOOLEAN]
         /\ OwedIsTrue' /\ LedgerIsTrue'
         /\ \E r \in Record : /\ ledger' = Append(ledger, r)
                              /\ r.ref = ref /\ r.amount = amount /\ r.reward = reward
<1> DEFINE balance == account.balance + amount + reward
           r == [ref |-> ref, amount |-> amount, reward |-> reward, balance |-> balance]
<1>1. account.balance \in Int /\ account.owed \in BOOLEAN
  BY DEF TypeOK
<1>2. r \in Record
  BY <1>1 DEF Record
<1>3. /\ account' = [balance |-> balance, owed |-> account.owed /\ balance <= 0]
      /\ ledger' = Append(ledger, r)
  BY DEF ChargeWithTransaction
<1>4. account' \in [balance : Int, owed : BOOLEAN]
  BY <1>1, <1>3
<1>5. account'.balance = balance /\ (account'.owed <=> account.owed /\ balance <= 0)
  BY <1>3
<1>6. r.amount = amount /\ r.reward = reward /\ r.balance = balance /\ r.ref = ref
  OBVIOUS
<1>7. LedgerIsTrue'
  <2> HIDE DEF r
  <2> QED  BY <1>1, <1>2, <1>3, <1>5, <1>6, LedgerExtends
<1>8. OwedIsTrue'
  BY <1>1, <1>5 DEF OwedIsTrue
<1> HIDE DEF r
<1> QED  BY <1>2, <1>3, <1>4, <1>6, <1>7, <1>8

\* What a payment does to the account and its records, when it has read the true balance.
LEMMA PayKeeps ==
  ASSUME TypeOK, OwedIsTrue, LedgerIsTrue,
         NEW amount \in Nat, NEW ref \in Orders \cup Codes \cup {Nothing},
         PayWithTransaction(amount, account.balance, ref)
  PROVE  /\ account' \in [balance : Int, owed : BOOLEAN]
         /\ OwedIsTrue' /\ LedgerIsTrue'
         /\ \E r \in Record : ledger' = Append(ledger, r) /\ r.ref = ref
<1> DEFINE balance == account.balance - amount
           r == [ref |-> ref, amount |-> -amount, reward |-> 0, balance |-> balance]
<1>1. account.balance \in Int /\ account.owed \in BOOLEAN
  BY DEF TypeOK
<1>2. r \in Record
  BY <1>1 DEF Record
<1>3. /\ account' = [balance |-> balance, owed |-> account.owed \/ balance < 0]
      /\ ledger' = Append(ledger, r)
  BY DEF PayWithTransaction
<1>4. account' \in [balance : Int, owed : BOOLEAN]
  BY <1>1, <1>3
<1>5. account'.balance = balance /\ (account'.owed <=> account.owed \/ balance < 0)
  BY <1>3
<1>6. r.amount = -amount /\ r.reward = 0 /\ r.balance = balance /\ r.ref = ref
  OBVIOUS
<1>7. LedgerIsTrue'
  <2> HIDE DEF r
  <2> QED  BY <1>1, <1>2, <1>3, <1>5, <1>6, LedgerExtends
<1>8. OwedIsTrue'
  BY <1>1, <1>5 DEF OwedIsTrue
<1> HIDE DEF r
<1> QED  BY <1>2, <1>3, <1>4, <1>6, <1>7, <1>8

-----------------------------------------------------------------------------
(* The steps *)

Phases == {"none", "Pending", "Paid", "Failed"}

\* The credits and the orders of a step that leaves the account alone.
LEMMA AccountAlone ==
  ASSUME UNCHANGED accountVars
  PROVE  /\ \A x : CreditsOf(x)' = CreditsOf(x)
         /\ LedgerIsTrue => LedgerIsTrue'
         /\ OwedIsTrue => OwedIsTrue'
BY DEF accountVars, CreditsOf, LedgerIsTrue, OwedIsTrue

\* What ChargedOnce says of one order.
ChargedOf(o) ==
    /\ Cardinality(CreditsOf(o)) <= 1
    /\ \A i \in CreditsOf(o) : /\ trade[o] = "paid"
                               /\ ledger[i].amount = order[o].amount
                               /\ ledger[i].reward = Reward(order[o].amount)
    /\ order[o].phase = "Paid" => CreditsOf(o) # {}

LEMMA Charges == /\ ChargedOnce <=> \A o \in Orders : ChargedOf(o)
                 /\ ChargedOnce' <=> \A o \in Orders : ChargedOf(o)'
BY DEF ChargedOnce, ChargedOf

\* The phase of one order changes, and the amount of none.
LEMMA PhaseSet ==
  ASSUME TypeOK, NEW o \in Orders, NEW p \in Phases, order' = [order EXCEPT ![o].phase = p]
  PROVE  /\ order' \in [Orders -> [phase : Phases, amount : Amounts]]
         /\ order'[o].phase = p
         /\ \A q \in Orders : order'[q].amount = order[q].amount
         /\ \A q \in Orders \ {o} : order'[q] = order[q]
<1>1. order \in [Orders -> [phase : Phases, amount : Amounts]]
  BY DEF TypeOK, Phases
<1>2. order[o] \in [phase : Phases, amount : Amounts]
  BY <1>1
<1> DEFINE entry == [order[o] EXCEPT !.phase = p]
<1>3. entry \in [phase : Phases, amount : Amounts] /\ entry.phase = p
      /\ entry.amount = order[o].amount
  BY <1>2
<1>4. order' = [order EXCEPT ![o] = entry]
  OBVIOUS
<1> HIDE DEF entry
<1> QED  BY <1>1, <1>3, <1>4

\* A step that leaves the account alone keeps what is credited, if an order that becomes
\* Paid was so before, none is unpaid again, and none leaves the phases after the credit.
LEMMA AloneKeeps ==
  ASSUME RechargeInv, UNCHANGED accountVars,
         \A o \in Orders : order'[o].amount = order[o].amount,
         \A o \in Orders : order'[o].phase = "Paid" => order[o].phase = "Paid",
         \A o \in Orders : order'[o].phase \in {"none", "Pending"}
                             => order[o].phase \in {"none", "Pending"},
         \A o \in Orders : trade[o] = "paid" => trade'[o] = "paid",
         \A o \in Orders : [order |-> o, success |-> TRUE] \in sent' => trade'[o] = "paid",
         TypeOK'
  PROVE  RechargeInv'
<1>1. /\ \A x : CreditsOf(x)' = CreditsOf(x)
      /\ LedgerIsTrue' /\ OwedIsTrue' /\ ledger' = ledger
  BY AccountAlone DEF RechargeInv, accountVars
<1>2. ChargedOnce'
  <2> SUFFICES ASSUME NEW o \in Orders PROVE ChargedOf(o)'
    BY Charges
  <2>1. ChargedOf(o)
    BY Charges DEF RechargeInv
  <2>2. CreditsOf(o)' = CreditsOf(o) /\ ledger' = ledger /\ order'[o].amount = order[o].amount
    BY <1>1
  <2> QED  BY <2>1, <2>2 DEF ChargedOf
<1>3. \A o \in Orders : order'[o].phase \in {"none", "Pending"} => CreditsOf(o)' = {}
  BY <1>1 DEF RechargeInv
<1> QED  BY <1>1, <1>2, <1>3 DEF RechargeInv

LEMMA CreateKeeps ==
  ASSUME RechargeInv, NEW o \in Orders, CreateChargeOrder(o) PROVE RechargeInv'
<1>1. TypeOK /\ order' = [order EXCEPT ![o].phase = "Pending"] /\ "Pending" \in Phases
      /\ UNCHANGED <<account, ledger, trade, sent, used, redeem, spent>>
      /\ order[o].phase = "none"
  BY DEF RechargeInv, CreateChargeOrder, Phases, accountVars
<1>2. /\ order' \in [Orders -> [phase : Phases, amount : Amounts]]
      /\ order'[o].phase = "Pending"
      /\ \A q \in Orders : order'[q].amount = order[q].amount
      /\ \A q \in Orders \ {o} : order'[q] = order[q]
  BY <1>1, PhaseSet
<1>3. TypeOK'
  BY <1>1, <1>2 DEF TypeOK, Phases
<1>4. \A q \in Orders : order'[q].phase = "Paid" => order[q].phase = "Paid"
  BY <1>2
<1>5. \A q \in Orders : order'[q].phase \in {"none", "Pending"} => order[q].phase \in {"none", "Pending"}
  BY <1>1, <1>2
<1>6. \A q \in Orders : [order |-> q, success |-> TRUE] \in sent' => trade'[q] = "paid"
  BY <1>1 DEF RechargeInv
<1> QED  BY <1>1, <1>2, <1>3, <1>4, <1>5, <1>6, AloneKeeps DEF accountVars

LEMMA TradeFailsKeeps ==
  ASSUME RechargeInv, NEW o \in Orders, TradeFails(o) PROVE RechargeInv'
<1>1. TypeOK /\ UNCHANGED <<account, ledger, order, trade, used, redeem, spent>>
      /\ sent' = sent \cup {[order |-> o, success |-> FALSE]}
  BY DEF RechargeInv, TradeFails, accountVars
<1>2. TypeOK'
  <2>1. [order |-> o, success |-> FALSE] \in [order : Orders, success : BOOLEAN]
    OBVIOUS
  <2>2. sent' \subseteq [order : Orders, success : BOOLEAN]
    BY <1>1, <2>1 DEF TypeOK
  <2> QED  BY <1>1, <2>2 DEF TypeOK
<1>3. \A q \in Orders : [order |-> q, success |-> TRUE] \in sent' => trade'[q] = "paid"
  <2> SUFFICES ASSUME NEW q \in Orders, [order |-> q, success |-> TRUE] \in sent'
               PROVE  [order |-> q, success |-> TRUE] \in sent
    BY <1>1 DEF RechargeInv
  <2>1. [order |-> q, success |-> TRUE].success # [order |-> o, success |-> FALSE].success
    OBVIOUS
  <2> QED  BY <1>1, <2>1
<1> QED  BY <1>1, <1>2, <1>3, AloneKeeps DEF accountVars

LEMMA TradePaidKeeps ==
  ASSUME RechargeInv, NEW o \in Orders, TradePaid(o) PROVE RechargeInv'
<1>1. TypeOK /\ UNCHANGED <<account, ledger, order, used, redeem, spent>>
      /\ sent' = sent \cup {[order |-> o, success |-> TRUE]}
      /\ trade' = [trade EXCEPT ![o] = "paid"]
  BY DEF RechargeInv, TradePaid, accountVars
<1>2. trade \in [Orders -> {"open", "paid"}]
  BY <1>1 DEF TypeOK
<1>3. /\ trade' \in [Orders -> {"open", "paid"}] /\ trade'[o] = "paid"
      /\ \A q \in Orders : trade[q] = "paid" => trade'[q] = "paid"
  BY <1>1, <1>2
<1>4. TypeOK'
  <2>1. [order |-> o, success |-> TRUE] \in [order : Orders, success : BOOLEAN]
    OBVIOUS
  <2>2. sent' \subseteq [order : Orders, success : BOOLEAN]
    BY <1>1, <2>1 DEF TypeOK
  <2> QED  BY <1>1, <1>3, <2>2 DEF TypeOK
<1>5. \A q \in Orders : [order |-> q, success |-> TRUE] \in sent' => trade'[q] = "paid"
  <2> SUFFICES ASSUME NEW q \in Orders, [order |-> q, success |-> TRUE] \in sent', q # o
               PROVE  trade[q] = "paid"
    BY <1>3
  <2>1. [order |-> q, success |-> TRUE].order # [order |-> o, success |-> TRUE].order
    OBVIOUS
  <2>2. [order |-> q, success |-> TRUE] \in sent
    BY <1>1, <2>1
  <2> QED  BY <2>2 DEF RechargeInv
<1> QED  BY <1>1, <1>3, <1>4, <1>5, AloneKeeps DEF accountVars

LEMMA NotifyFailedKeeps ==
  ASSUME RechargeInv, NEW o \in Orders, NotifyFailed(o) PROVE RechargeInv'
<1>1. TypeOK /\ order' = [order EXCEPT ![o].phase = "Failed"] /\ "Failed" \in Phases
      /\ UNCHANGED <<account, ledger, trade, sent, used, redeem, spent>>
  BY DEF RechargeInv, NotifyFailed, Phases, accountVars
<1>2. /\ order' \in [Orders -> [phase : Phases, amount : Amounts]]
      /\ order'[o].phase = "Failed"
      /\ \A q \in Orders : order'[q].amount = order[q].amount
      /\ \A q \in Orders \ {o} : order'[q] = order[q]
  BY <1>1, PhaseSet
<1>3. TypeOK'
  BY <1>1, <1>2 DEF TypeOK, Phases
<1>4. \A q \in Orders : order'[q].phase \in {"none", "Pending", "Paid"} => order'[q] = order[q]
  BY <1>2
<1>5. \A q \in Orders : [order |-> q, success |-> TRUE] \in sent' => trade'[q] = "paid"
  BY <1>1 DEF RechargeInv
<1> QED  BY <1>1, <1>2, <1>3, <1>4, <1>5, AloneKeeps DEF accountVars

\* The one step that credits an order.
LEMMA CreditKeeps ==
  ASSUME RechargeInv, NEW o \in Orders, NotifySuccess(o), order[o].phase = "Pending"
  PROVE  RechargeInv'
<1>1. /\ TypeOK /\ OwedIsTrue /\ LedgerIsTrue /\ ChargedOnce
      /\ order' = [order EXCEPT ![o].phase = "Paid"] /\ "Paid" \in Phases
      /\ ChargeWithTransaction(order[o].amount, Reward(order[o].amount), o)
      /\ UNCHANGED <<trade, sent, used, redeem, spent>>
      /\ trade[o] = "paid" /\ CreditsOf(o) = {}
  BY DEF RechargeInv, NotifySuccess, Phases
<1>2. order[o].amount \in Nat /\ Reward(order[o].amount) \in Nat
  BY <1>1, RechargeAssumption, RewardType DEF TypeOK
<1>3. /\ order' \in [Orders -> [phase : Phases, amount : Amounts]]
      /\ order'[o].phase = "Paid"
      /\ \A q \in Orders : order'[q].amount = order[q].amount
      /\ \A q \in Orders \ {o} : order'[q] = order[q]
  BY <1>1, PhaseSet
<1>4. /\ account' \in [balance : Int, owed : BOOLEAN] /\ OwedIsTrue' /\ LedgerIsTrue'
      /\ \E r \in Record : /\ ledger' = Append(ledger, r) /\ r.ref = o
                           /\ r.amount = order[o].amount /\ r.reward = Reward(order[o].amount)
  BY <1>1, <1>2, ChargeKeeps
<1>5. PICK r \in Record : /\ ledger' = Append(ledger, r) /\ r.ref = o
                          /\ r.amount = order[o].amount /\ r.reward = Reward(order[o].amount)
  BY <1>4
<1> DEFINE n == Len(ledger) + 1
<1>6. /\ ledger' \in Seq(Record)
      /\ \A x : CreditsOf(x)' = IF x = o THEN CreditsOf(x) \cup {n} ELSE CreditsOf(x)
      /\ \A i \in DOMAIN ledger : ledger'[i] = ledger[i]
      /\ ledger'[n] = r
      /\ \A x : CreditsOf(x) \subseteq DOMAIN ledger
  BY <1>1, <1>5, Appended
<1> HIDE DEF n
<1>7. TypeOK'
  BY <1>1, <1>3, <1>4, <1>6 DEF TypeOK, Phases, Record
<1>8. CreditsOf(o)' = {n} /\ Cardinality({n}) <= 1
  <2>1. CreditsOf(o)' = {n}
    BY <1>1, <1>6
  <2>2. Cardinality({n}) = 1
    BY FS_Singleton
  <2> QED  BY <2>1, <2>2
<1>9. ChargedOnce'
  <2> SUFFICES ASSUME NEW q \in Orders PROVE ChargedOf(q)'
    BY Charges
  <2>1. CASE q = o
    BY <1>1, <1>3, <1>5, <1>6, <1>8, <2>1 DEF ChargedOf
  <2>2. CASE q # o
    <3>1. CreditsOf(q)' = CreditsOf(q) /\ order'[q] = order[q] /\ trade'[q] = trade[q]
          /\ \A i \in CreditsOf(q) : ledger'[i] = ledger[i]
      BY <1>1, <1>3, <1>6, <2>2
    <3>2. ChargedOf(q)
      BY <1>1, Charges
    <3> QED  BY <3>1, <3>2 DEF ChargedOf
  <2> QED  BY <2>1, <2>2
<1>10. \A q \in Orders : order'[q].phase \in {"none", "Pending"} => CreditsOf(q)' = {}
  BY <1>3, <1>6 DEF RechargeInv
<1>11. \A q \in Orders : [order |-> q, success |-> TRUE] \in sent' => trade'[q] = "paid"
  BY <1>1 DEF RechargeInv
<1> QED  BY <1>4, <1>7, <1>9, <1>10, <1>11 DEF RechargeInv

\* A charge or a payment that is not for an order leaves the orders as they are.
LEMMA OtherKeeps ==
  ASSUME RechargeInv, NEW r \in Record, r.ref \notin Orders, ledger' = Append(ledger, r),
         UNCHANGED <<order, trade, sent>>
  PROVE  /\ ledger' \in Seq(Record) /\ ChargedOnce'
         /\ \A o \in Orders : order'[o].phase \in {"none", "Pending"} => CreditsOf(o)' = {}
         /\ \A o \in Orders : [order |-> o, success |-> TRUE] \in sent' => trade'[o] = "paid"
<1>1. TypeOK /\ ChargedOnce
  BY DEF RechargeInv
<1>2. /\ ledger' \in Seq(Record)
      /\ \A o \in Orders : CreditsOf(o)' = CreditsOf(o) /\ CreditsOf(o) \subseteq DOMAIN ledger
      /\ \A i \in DOMAIN ledger : ledger'[i] = ledger[i]
  BY <1>1, Appended
<1>3. ChargedOnce'
  <2> SUFFICES ASSUME NEW o \in Orders PROVE ChargedOf(o)'
    BY Charges
  <2>1. CreditsOf(o)' = CreditsOf(o) /\ \A i \in CreditsOf(o) : ledger'[i] = ledger[i]
    BY <1>2
  <2>2. ChargedOf(o)
    BY <1>1, Charges
  <2> QED  BY <2>1, <2>2 DEF ChargedOf
<1> QED  BY <1>2, <1>3 DEF RechargeInv

LEMMA RedeemKeeps ==
  ASSUME RechargeInv, NEW r \in Redeemers, GiftRedeem(r) PROVE RechargeInv'
<1>1. /\ TypeOK /\ OwedIsTrue /\ LedgerIsTrue
      /\ redeem[r] \in Codes /\ redeem[r] \notin Orders
      /\ used' = used \cup {redeem[r]} /\ redeem' = [redeem EXCEPT ![r] = Nothing]
      /\ UNCHANGED <<order, trade, sent, spent>>
  BY RechargeAssumption DEF RechargeInv, GiftRedeem, TypeOK
<1>2. PICK amount \in Amounts : ChargeWithTransaction(amount, 0, redeem[r])
  BY DEF GiftRedeem
<1>3. /\ account' \in [balance : Int, owed : BOOLEAN] /\ OwedIsTrue' /\ LedgerIsTrue'
      /\ \E e \in Record : ledger' = Append(ledger, e) /\ e.ref = redeem[r]
  <2>1. amount \in Nat /\ 0 \in Nat /\ redeem[r] \in Orders \cup Codes \cup {Nothing}
    BY <1>1, RechargeAssumption
  <2> QED  BY <1>1, <1>2, <2>1, ChargeKeeps
<1>4. /\ ledger' \in Seq(Record) /\ ChargedOnce'
      /\ \A o \in Orders : order'[o].phase \in {"none", "Pending"} => CreditsOf(o)' = {}
      /\ \A o \in Orders : [order |-> o, success |-> TRUE] \in sent' => trade'[o] = "paid"
  BY <1>1, <1>3, OtherKeeps
<1>5. TypeOK'
  BY <1>1, <1>3, <1>4 DEF TypeOK, Record
<1> QED  BY <1>3, <1>4, <1>5 DEF RechargeInv

LEMMA SpendKeeps ==
  ASSUME RechargeInv, Spend PROVE RechargeInv'
<1>1. /\ TypeOK /\ OwedIsTrue /\ LedgerIsTrue
      /\ spent < MaxSpent /\ spent' = spent + 1
      /\ UNCHANGED <<order, trade, sent, used, redeem>>
  BY DEF RechargeInv, Spend
<1>2. PICK amount \in Amounts : PayWithTransaction(amount, account.balance, Nothing)
  BY DEF Spend
<1>3. /\ account' \in [balance : Int, owed : BOOLEAN] /\ OwedIsTrue' /\ LedgerIsTrue'
      /\ \E e \in Record : ledger' = Append(ledger, e) /\ e.ref = Nothing
  <2>1. amount \in Nat /\ Nothing \in Orders \cup Codes \cup {Nothing}
    BY RechargeAssumption
  <2> QED  BY <1>1, <1>2, <2>1, PayKeeps
<1>4. /\ ledger' \in Seq(Record) /\ ChargedOnce'
      /\ \A o \in Orders : order'[o].phase \in {"none", "Pending"} => CreditsOf(o)' = {}
      /\ \A o \in Orders : [order |-> o, success |-> TRUE] \in sent' => trade'[o] = "paid"
  BY <1>1, <1>3, OtherKeeps, RechargeAssumption
<1>5. spent' \in 0..MaxSpent
  BY <1>1, RechargeAssumption DEF TypeOK
<1>6. TypeOK'
  BY <1>1, <1>3, <1>4, <1>5 DEF TypeOK, Record
<1> QED  BY <1>3, <1>4, <1>6 DEF RechargeInv

\* The steps that change nothing but the codes that the requests have in hand.
LEMMA RedeemersKeep ==
  ASSUME RechargeInv, UNCHANGED <<accountVars, order, trade, sent, used, spent>>,
         redeem' \in [Redeemers -> Codes \cup {Nothing}]
  PROVE  RechargeInv'
<1>1. TypeOK'
  BY DEF RechargeInv, TypeOK, accountVars
<1>2. \A o \in Orders : [order |-> o, success |-> TRUE] \in sent' => trade'[o] = "paid"
  BY DEF RechargeInv
<1> QED  BY <1>1, <1>2, AloneKeeps

LEMMA StepKeeps == RechargeInv /\ [Next]_vars => RechargeInv'
<1> SUFFICES ASSUME RechargeInv, [Next]_vars PROVE RechargeInv'
  OBVIOUS
<1>0. TypeOK /\ redeem \in [Redeemers -> Codes \cup {Nothing}]
  BY DEF RechargeInv, TypeOK
<1>1. CASE \E o \in Orders : CreateChargeOrder(o)
  BY <1>1, CreateKeeps
<1>2. CASE \E o \in Orders : TradeFails(o)
  BY <1>2, TradeFailsKeeps
<1>3. CASE \E o \in Orders : TradePaid(o)
  BY <1>3, TradePaidKeeps
<1>4. CASE \E o \in Orders : NotifyFailed(o)
  BY <1>4, NotifyFailedKeeps
<1>5. ASSUME NEW o \in Orders, NotifySuccess(o) PROVE RechargeInv'
  <2>1. CASE order[o].phase = "Pending"
    BY <1>5, <2>1, CreditKeeps
  <2>2. CASE order[o].phase # "Pending"
    BY <1>0, <1>5, <2>2, RedeemersKeep DEF NotifySuccess
  <2> QED  BY <2>1, <2>2
<1>6. CASE \E r \in Redeemers : GiftRedeem(r)
  BY <1>6, RedeemKeeps
<1>7. CASE \E r \in Redeemers : GiftFails(r)
  BY <1>0, <1>7, RedeemersKeep DEF GiftFails
<1>8. CASE \E r \in Redeemers : \E c \in Codes : GiftCheck(r, c)
  BY <1>0, <1>8, RedeemersKeep DEF GiftCheck
<1>9. CASE Spend
  BY <1>9, SpendKeeps
<1>10. CASE UNCHANGED vars
  BY <1>0, <1>10, RedeemersKeep DEF vars
<1> QED  BY <1>1, <1>2, <1>3, <1>4, <1>5, <1>6, <1>7, <1>8, <1>9, <1>10 DEF Next

-----------------------------------------------------------------------------
(* The theorems *)

\* The invariant holds in every behaviour.
LEMMA InvariantHolds == Spec => []RechargeInv
BY InitInv, StepKeeps, PTL DEF Spec

\* Every variable of the charging of an account has its type.
THEOREM TypeCorrect == Spec => []TypeOK
<1>1. RechargeInv => TypeOK
  BY DEF RechargeInv
<1> QED  BY <1>1, InvariantHolds, PTL

\* Notifications in any order, repeated or late, credit an order at most once, with the
\* reward of its tier, and only when its trade is paid.
THEOREM ChargeOnce == Spec => []ChargedOnce
<1>1. RechargeInv => ChargedOnce
  BY DEF RechargeInv
<1> QED  BY <1>1, InvariantHolds, PTL

\* owedAt is set in debt and never in credit, however charges, codes and payments mix.
THEOREM DebtShown == Spec => []OwedIsTrue
<1>1. RechargeInv => OwedIsTrue
  BY DEF RechargeInv
<1> QED  BY <1>1, InvariantHolds, PTL

\* The transactions of the account add up to its balance, with the credits as well.
THEOREM LedgerKept == Spec => []LedgerIsTrue
<1>1. RechargeInv => LedgerIsTrue
  BY DEF RechargeInv
<1> QED  BY <1>1, InvariantHolds, PTL
=============================================================================
