-------------------------- MODULE AtomicBankProofs --------------------------
(***************************************************************************)
(* The promises of the tables hold in every behaviour of the atomic bank,  *)
(* for any accounts, requests, amounts and width of the columns.           *)
(***************************************************************************)
EXTENDS AtomicBank, SequenceTheorems, Sums

\* Whole amounts stay whole.
LEMMA WholeSum ==
    ASSUME NEW x \in Column, NEW y \in Int, IsWhole(y),
           x + y \in (-MaxNumeric)..MaxNumeric
    PROVE  x + y \in Column
BY MaxNumericAssumption DEF Column, IsWhole, Quantum

LEMMA WholeDifference ==
    ASSUME NEW x \in Column, NEW y \in Int, IsWhole(y),
           x - y \in (-MaxNumeric)..MaxNumeric
    PROVE  x - y \in Column
BY MaxNumericAssumption DEF Column, IsWhole, Quantum

LEMMA ColumnIsInt == Column \subseteq Int
BY MaxNumericAssumption DEF Column

\* Balances are column values whether or not the row exists.
LEMMA RowBalances ==
    ASSUME NEW r \in Row \cup {NoRow}
    PROVE  /\ r.available \in Column /\ r.available \in Int
           /\ r.ledger \in Column /\ r.ledger \in Int
<1>1. 0 \in Column
  BY MaxNumericAssumption DEF Column, IsWhole, Quantum
<1>2. CASE r \in Row
  BY <1>2, ColumnIsInt DEF Row
<1>3. CASE r = NoRow
  BY <1>1, <1>3 DEF NoRow
<1> QED
  BY <1>2, <1>3

\* What appending an entry to the ledger of an account leaves and adds.
LEMMA AppendEntry ==
    ASSUME NEW s \in Seq(Entry), NEW e \in Entry
    PROVE  /\ Append(s, e) \in Seq(Entry)
           /\ Append(s, e) # <<>>
           /\ Len(s) \in Nat
           /\ Len(Append(s, e)) = Len(s) + 1
           /\ Append(s, e)[Len(s) + 1] = e
           /\ \A i \in 1..Len(s) : Append(s, e)[i] = s[i]
BY AppendProperties, LenProperties

LEMMA BankInit == TablesInit => BankInv
<1> SUFFICES ASSUME TablesInit PROVE BankInv
  OBVIOUS
<1> USE DEF TablesInit
<1>1. \A a \in Accounts : Opening[a] \in Row \cup {NoRow}
  BY TablesAssumption
<1>2. \A a \in Accounts : Opening[a] # NoRow => OpeningEntry(a) \in Entry
  BY <1>1, TablesAssumption DEF Row, Entry, OpeningEntry
<1>3. \A a \in Accounts : ledger[a] = IF Opening[a] = NoRow THEN <<>> ELSE <<OpeningEntry(a)>>
  OBVIOUS
<1>4. TablesTypeOK
  <2>1. \A a \in Accounts : ledger[a] \in Seq(Entry)
    BY <1>2, <1>3
  <2> QED
    BY <2>1, TablesAssumption DEF TablesTypeOK
<1>5. \A a \in Accounts : \A i \in 1..Len(ledger[a]) : i = 1 /\ ledger[a][i] = OpeningEntry(a)
  BY <1>3
<1>6. BalanceMatchesLedger
  BY <1>1, <1>3, TablesAssumption DEF BalanceMatchesLedger, LastBalance, OpeningEntry, NoRow
<1>7. LedgerChain
  <2>1. \A a \in Accounts : Opening[a].available \in Int
    BY <1>1, RowBalances
  <2>2. ASSUME NEW a \in Accounts, NEW i \in 1..Len(ledger[a])
        PROVE  /\ ledger[a][i].type = "CREDIT"
               /\ ledger[a][i].balance_after = 0 + ledger[a][i].amount
               /\ BalanceBefore(a, i) = 0
    BY <1>5, <2>1 DEF OpeningEntry, BalanceBefore
  <2> QED
    BY <2>2 DEF LedgerChain
<1>8. NoOverdraft
  BY TablesAssumption DEF NoOverdraft
<1>9. DoubleEntry
  BY <1>5 DEF DoubleEntry, OpeningEntry
<1> QED
  BY <1>4, <1>6, <1>7, <1>8, <1>9 DEF BankInv, UniqueReference, AuditAgreesWithLedger

\* Posting an entry to an account: the newest balance is the entry's, and the
\* balances before the older entries stand.
LEMMA Posting ==
    ASSUME TablesTypeOK, NEW a \in Accounts, NEW e \in Entry,
           ledger'[a] = Append(ledger[a], e),
           LastBalance(a) = accounts[a].available
    PROVE  /\ LastBalance(a)' = e.balance_after
           /\ Len(ledger[a]) \in Nat
           /\ Len(ledger'[a]) = Len(ledger[a]) + 1
           /\ ledger'[a][Len(ledger[a]) + 1] = e
           /\ \A n \in Nat : n = Len(ledger[a]) + 1 =>
                 BalanceBefore(a, n)' = accounts[a].available
           /\ \A i \in 1..Len(ledger[a]) : ledger'[a][i] = ledger[a][i]
           /\ \A i \in 1..Len(ledger[a]) : BalanceBefore(a, i)' = BalanceBefore(a, i)
<1>1. ledger[a] \in Seq(Entry)
  BY DEF TablesTypeOK
<1>2. /\ ledger'[a] # <<>>
      /\ Len(ledger[a]) \in Nat
      /\ Len(ledger'[a]) = Len(ledger[a]) + 1
      /\ ledger'[a][Len(ledger[a]) + 1] = e
      /\ \A i \in 1..Len(ledger[a]) : ledger'[a][i] = ledger[a][i]
  BY <1>1, AppendEntry
<1>3. LastBalance(a)' = e.balance_after
  BY <1>2 DEF LastBalance
<1>4. \A i \in 1..Len(ledger[a]) : BalanceBefore(a, i)' = BalanceBefore(a, i)
  <2> SUFFICES ASSUME NEW i \in 1..Len(ledger[a])
               PROVE  BalanceBefore(a, i)' = BalanceBefore(a, i)
    OBVIOUS
  <2>1. i # 1 => i - 1 \in 1..Len(ledger[a])
    BY <1>2
  <2> QED
    BY <1>2, <2>1 DEF BalanceBefore
<1>5. ASSUME NEW n \in Nat, n = Len(ledger[a]) + 1
      PROVE  BalanceBefore(a, n)' = accounts[a].available
  <2>1. CASE ledger[a] = <<>>
    BY <2>1, <1>2, <1>5, EmptySeq DEF BalanceBefore, LastBalance
  <2>2. CASE ledger[a] # <<>>
    <3>1. Len(ledger[a]) \in 1..Len(ledger[a])
      BY <2>2, <1>1, <1>2, EmptySeq
    <3>2. n # 1 /\ n - 1 = Len(ledger[a])
      BY <3>1, <1>2, <1>5
    <3>3. BalanceBefore(a, n)' = ledger'[a][n - 1].balance_after
      BY <3>2 DEF BalanceBefore
    <3>4. accounts[a].available = ledger[a][Len(ledger[a])].balance_after
      BY <2>2 DEF LastBalance
    <3> QED
      BY <3>1, <3>2, <3>3, <3>4, <1>2
  <2> QED
    BY <2>1, <2>2
<1> QED
  BY <1>2, <1>3, <1>4, <1>5

LEMMA NoPosting ==
    ASSUME NEW a \in Accounts, ledger'[a] = ledger[a]
    PROVE  /\ LastBalance(a)' = LastBalance(a)
           /\ \A i \in 1..Len(ledger[a]) : BalanceBefore(a, i)' = BalanceBefore(a, i)
BY DEF LastBalance, BalanceBefore
-----------------------------------------------------------------------------
LEMMA MoveStep ==
    ASSUME BankInv, NEW id \in Sessions, NEW o \in Order, Move(id, o)
    PROVE  BankInv'
<1> DEFINE s == o.source
           d == o.destination
           paid == accounts[s].available - o.amount
           received == accounts[d].available + o.amount
           debit == [transfer |-> id, type |-> "DEBIT", amount |-> o.amount,
                     balance_after |-> paid]
           credit == [transfer |-> id, type |-> "CREDIT", amount |-> o.amount,
                      balance_after |-> received]
           row == [id |-> id, reference |-> o.reference, source |-> s, destination |-> d,
                   amount |-> o.amount, currency |-> o.currency]
           trail == [transfer |-> id,
                     source_before |-> accounts[s].available, source_after |-> paid,
                     dest_before |-> accounts[d].available, dest_after |-> received]
<1>1. /\ s \in Accounts /\ d \in Accounts /\ s # d
      /\ o.amount \in Nat \ {0} /\ IsWhole(o.amount)
      /\ o.currency \in Currencies /\ o.reference \in References
  BY BankAssumption DEF Order, Amount, Move, RulesAllow
<1>2. \A a \in Accounts : accounts[a] \in Row \cup {NoRow}
  BY DEF BankInv, TablesTypeOK
<1>3. /\ accounts[s].available = LastBalance(s) /\ accounts[s].ledger = LastBalance(s)
      /\ accounts[d].available = LastBalance(d) /\ accounts[d].ledger = LastBalance(d)
  BY <1>1 DEF BankInv, BalanceMatchesLedger
<1>4. /\ accounts[s].available \in Column /\ accounts[s].available \in Int
      /\ accounts[d].available \in Column /\ accounts[d].available \in Int
  BY <1>1, <1>2, RowBalances
<1>5. paid \in 0..MaxNumeric /\ received \in 0..MaxNumeric
  <2>1. accounts[s].available >= o.amount /\ accounts[d].available >= 0
    BY <1>1 DEF Move, RulesAllow, BankInv, NoOverdraft
  <2>2. /\ accounts[s].available + (-o.amount) \in (-MaxNumeric)..MaxNumeric
        /\ accounts[d].available + o.amount \in (-MaxNumeric)..MaxNumeric
    BY DEF Move, RulesAllow, Holds
  <2> QED
    BY <2>1, <2>2, <1>1, <1>4, MaxNumericAssumption
<1>6. paid \in Column /\ received \in Column /\ o.amount \in Column
  <2>1. paid \in Column
    BY <1>1, <1>4, <1>5, WholeDifference, MaxNumericAssumption
  <2>2. received \in Column
    BY <1>1, <1>4, <1>5, WholeSum, MaxNumericAssumption
  <2>3. accounts[d].available >= 0
    BY <1>1 DEF BankInv, NoOverdraft
  <2>4. o.amount \in (-MaxNumeric)..MaxNumeric
    BY <1>1, <1>4, <1>5, <2>3, MaxNumericAssumption
  <2> QED
    BY <2>1, <2>2, <2>4, <1>1 DEF Column
<1>7. debit \in Entry /\ credit \in Entry /\ row \in Transfer /\ trail \in AuditRow
  BY <1>1, <1>4, <1>6 DEF Entry, Transfer, AuditRow
<1>8. /\ ledger \in [Accounts -> Seq(Entry)]
      /\ ledger' = [ledger EXCEPT ![s] = Append(@, debit), ![d] = Append(@, credit)]
  BY DEF BankInv, TablesTypeOK, Move, RulesAllow
<1>9. /\ ledger'[s] = Append(ledger[s], debit)
      /\ ledger'[d] = Append(ledger[d], credit)
      /\ \A a \in Accounts \ {s, d} : ledger'[a] = ledger[a]
  BY <1>1, <1>8
<1>10. /\ accounts \in [Accounts -> Row \cup {NoRow}]
       /\ accounts' = [accounts EXCEPT ![s] = Adjusted(s, -o.amount),
                                       ![d] = Adjusted(d, o.amount)]
  BY DEF BankInv, TablesTypeOK, Move, RulesAllow
<1>11. /\ accounts'[s] = [accounts[s] EXCEPT !.available = paid, !.ledger = paid]
       /\ accounts'[d] = [accounts[d] EXCEPT !.available = received, !.ledger = received]
       /\ \A a \in Accounts \ {s, d} : accounts'[a] = accounts[a]
  <2>1. /\ accounts[s].available + (-o.amount) = paid
        /\ accounts[s].ledger + (-o.amount) = paid
        /\ accounts[d].available + o.amount = received
        /\ accounts[d].ledger + o.amount = received
    BY <1>1, <1>3, <1>4
  <2> QED
    BY <1>1, <1>10, <2>1 DEF Adjusted
<1>12. accounts[s] \in Row /\ accounts[d] \in Row
  BY <1>1, <1>2 DEF Move, RulesAllow, NoRow
<1>13. accounts'[s] \in Row /\ accounts'[d] \in Row
  BY <1>6, <1>11, <1>12 DEF Row
<1>14. /\ accounts'[s].available = paid /\ accounts'[s].ledger = paid
       /\ accounts'[d].available = received /\ accounts'[d].ledger = received
  BY <1>11, <1>12 DEF Row
<1>15. transfers' = transfers \cup {row} /\ audit' = audit \cup {trail}
  BY DEF Move, RulesAllow
<1>16. \A t \in transfers : t.id # id /\ t.reference # o.reference
  BY DEF Move, RulesAllow
<1>17. TablesTypeOK'
  <2>1. accounts' \in [Accounts -> Row \cup {NoRow}]
    BY <1>10, <1>11, <1>13
  <2>2. ledger' \in [Accounts -> Seq(Entry)]
    <3>1. Append(ledger[s], debit) \in Seq(Entry) /\ Append(ledger[d], credit) \in Seq(Entry)
      BY <1>1, <1>7, <1>8, AppendEntry
    <3> QED
      BY <1>8, <3>1
  <2> QED
    BY <2>1, <2>2, <1>7, <1>15 DEF BankInv, TablesTypeOK
<1>18. TablesTypeOK
  BY DEF BankInv
<1> HIDE DEF paid, received, debit, credit, row, trail
<1>19. /\ debit.transfer = id /\ debit.type = "DEBIT" /\ debit.amount = o.amount
       /\ debit.balance_after = paid
       /\ credit.transfer = id /\ credit.type = "CREDIT" /\ credit.amount = o.amount
       /\ credit.balance_after = received
       /\ paid = accounts[s].available - o.amount
       /\ received = accounts[d].available + o.amount
  BY DEF debit, credit, paid, received
<1>20. /\ row.id = id /\ row.reference = o.reference /\ row.source = s /\ row.destination = d
       /\ row.amount = o.amount
       /\ trail.transfer = id
       /\ trail.source_before = accounts[s].available /\ trail.source_after = paid
       /\ trail.dest_before = accounts[d].available /\ trail.dest_after = received
  BY DEF row, trail
<1>21. /\ LastBalance(s)' = paid
       /\ Len(ledger[s]) \in Nat
       /\ Len(ledger'[s]) = Len(ledger[s]) + 1
       /\ ledger'[s][Len(ledger[s]) + 1] = debit
       /\ \A n \in Nat : n = Len(ledger[s]) + 1 => BalanceBefore(s, n)' = accounts[s].available
       /\ \A i \in 1..Len(ledger[s]) : ledger'[s][i] = ledger[s][i]
       /\ \A i \in 1..Len(ledger[s]) : BalanceBefore(s, i)' = BalanceBefore(s, i)
  BY <1>1, <1>3, <1>7, <1>9, <1>18, <1>19, Posting
<1>22. /\ LastBalance(d)' = received
       /\ Len(ledger[d]) \in Nat
       /\ Len(ledger'[d]) = Len(ledger[d]) + 1
       /\ ledger'[d][Len(ledger[d]) + 1] = credit
       /\ \A n \in Nat : n = Len(ledger[d]) + 1 => BalanceBefore(d, n)' = accounts[d].available
       /\ \A i \in 1..Len(ledger[d]) : ledger'[d][i] = ledger[d][i]
       /\ \A i \in 1..Len(ledger[d]) : BalanceBefore(d, i)' = BalanceBefore(d, i)
  BY <1>1, <1>3, <1>7, <1>9, <1>18, <1>19, Posting
<1>23. \A a \in Accounts \ {s, d} :
          /\ LastBalance(a)' = LastBalance(a)
          /\ \A i \in 1..Len(ledger[a]) : BalanceBefore(a, i)' = BalanceBefore(a, i)
  BY <1>9, NoPosting
<1> HIDE DEF s, d
<1>24. BalanceMatchesLedger'
  <2> SUFFICES ASSUME NEW a \in Accounts
               PROVE  accounts'[a].available = LastBalance(a)' /\ accounts'[a].ledger = LastBalance(a)'
    BY DEF BalanceMatchesLedger
  <2>1. CASE a = s
    BY <2>1, <1>14, <1>21
  <2>2. CASE a = d
    BY <2>2, <1>14, <1>22
  <2>3. CASE a \notin {s, d}
    BY <2>3, <1>11, <1>23 DEF BankInv, BalanceMatchesLedger
  <2> QED
    BY <2>1, <2>2, <2>3
<1>25. NoOverdraft'
  <2> SUFFICES ASSUME NEW a \in Accounts PROVE accounts'[a].available >= 0
    BY DEF NoOverdraft
  <2>1. CASE a \in {s, d}
    BY <2>1, <1>5, <1>14, MaxNumericAssumption
  <2>2. CASE a \notin {s, d}
    BY <2>2, <1>11 DEF BankInv, NoOverdraft
  <2> QED
    BY <2>1, <2>2
<1>26. UniqueReference' /\ (\A t, u \in transfers : t.id = u.id => t = u)'
       /\ (\A t \in transfers : t.source # t.destination)'
  BY <1>1, <1>15, <1>16, <1>20 DEF BankInv, UniqueReference

\* The old entries stay where they are; an entry of the new ledger is one of
\* them or one of the two.
<1>26a. ASSUME NEW a \in Accounts, NEW i \in 1..Len(ledger[a])
       PROVE  i \in 1..Len(ledger'[a]) /\ ledger'[a][i] = ledger[a][i]
  <2>1. CASE a = s
    BY <2>1, <1>21
  <2>2. CASE a = d
    BY <2>2, <1>22
  <2>3. CASE a \notin {s, d}
    BY <2>3, <1>9
  <2> QED
    BY <2>1, <2>2, <2>3
<1>27. ASSUME NEW a \in Accounts, NEW i \in 1..Len(ledger'[a])
       PROVE  \/ /\ i \in 1..Len(ledger[a])
                 /\ ledger'[a][i] = ledger[a][i]
                 /\ BalanceBefore(a, i)' = BalanceBefore(a, i)
              \/ /\ a = s /\ i = Len(ledger[s]) + 1
                 /\ ledger'[a][i] = debit
                 /\ BalanceBefore(a, i)' = accounts[s].available
              \/ /\ a = d /\ i = Len(ledger[d]) + 1
                 /\ ledger'[a][i] = credit
                 /\ BalanceBefore(a, i)' = accounts[d].available
  <2>1. CASE a = s
    BY <2>1, <1>21
  <2>2. CASE a = d
    BY <2>2, <1>22
  <2>3. CASE a \notin {s, d}
    BY <2>3, <1>9, <1>23
  <2> QED
    BY <2>1, <2>2, <2>3
<1>28. LedgerChain'
  <2> SUFFICES ASSUME NEW a \in Accounts, NEW i \in 1..Len(ledger'[a])
               PROVE  ledger'[a][i].balance_after =
                         IF ledger'[a][i].type = "CREDIT"
                         THEN BalanceBefore(a, i)' + ledger'[a][i].amount
                         ELSE BalanceBefore(a, i)' - ledger'[a][i].amount
    BY DEF LedgerChain
  <2> QED
    BY <1>19, <1>27 DEF BankInv, LedgerChain
\* No entry and no audit row of the old tables is of this transfer.
<1>29. /\ \A a \in Accounts : \A i \in 1..Len(ledger[a]) : ledger[a][i].transfer # id
       /\ \A w \in audit : w.transfer # id
       /\ id # None
  BY <1>16, TablesAssumption DEF BankInv, DoubleEntry, AuditAgreesWithLedger
<1>30. DoubleEntry'
  <2>1. ASSUME NEW t \in transfers'
        PROVE  HasEntry(t.source, t.id, "DEBIT")' /\ HasEntry(t.destination, t.id, "CREDIT")'
    <3>1. CASE t = row
      <4>1. HasEntry(s, id, "DEBIT")'
        BY <1>19, <1>21 DEF HasEntry
      <4>2. HasEntry(d, id, "CREDIT")'
        BY <1>19, <1>22 DEF HasEntry
      <4> QED
        BY <3>1, <4>1, <4>2, <1>20
    <3>2. CASE t \in transfers
      <4>1. t.source \in Accounts /\ t.destination \in Accounts
        BY <3>2, <1>18 DEF TablesTypeOK, Transfer
      <4>2. HasEntry(t.source, t.id, "DEBIT") /\ HasEntry(t.destination, t.id, "CREDIT")
        BY <3>2 DEF BankInv, DoubleEntry
      <4>3. ASSUME NEW a \in Accounts, NEW type, HasEntry(a, t.id, type)
            PROVE  \E i \in 1..Len(ledger'[a]) : ledger'[a][i].transfer = t.id
                                                 /\ ledger'[a][i].type = type
        <5>1. PICK i \in 1..Len(ledger[a]) : ledger[a][i].transfer = t.id
                                             /\ ledger[a][i].type = type
          BY <4>3 DEF HasEntry
        <5>2. i \in 1..Len(ledger'[a]) /\ ledger'[a][i] = ledger[a][i]
          BY <1>26a
        <5> QED
          BY <5>1, <5>2
      <4>4. HasEntry(t.source, t.id, "DEBIT")'
        BY <4>1, <4>2, <4>3 DEF HasEntry
      <4>5. HasEntry(t.destination, t.id, "CREDIT")'
        BY <4>1, <4>2, <4>3 DEF HasEntry
      <4> QED
        BY <4>4, <4>5
    <3> QED
      BY <3>1, <3>2, <1>15
  <2>2. ASSUME NEW a \in Accounts, NEW i \in 1..Len(ledger'[a]), ledger'[a][i].transfer # None
        PROVE  \E t \in transfers' : /\ t.id = ledger'[a][i].transfer
                                     /\ t.amount = ledger'[a][i].amount
                                     /\ a = IF ledger'[a][i].type = "DEBIT" THEN t.source
                                                                           ELSE t.destination
    <3>1. CASE i \in 1..Len(ledger[a]) /\ ledger'[a][i] = ledger[a][i]
      <4>1. PICK t \in transfers : /\ t.id = ledger[a][i].transfer
                                   /\ t.amount = ledger[a][i].amount
                                   /\ a = IF ledger[a][i].type = "DEBIT" THEN t.source
                                                                        ELSE t.destination
        BY <2>2, <3>1 DEF BankInv, DoubleEntry
      <4> QED
        BY <3>1, <4>1, <1>15
    <3>2. CASE a = s /\ ledger'[a][i] = debit
      BY <3>2, <1>15, <1>19, <1>20
    <3>3. CASE a = d /\ ledger'[a][i] = credit
      BY <3>3, <1>15, <1>19, <1>20
    <3> QED
      BY <1>27, <3>1, <3>2, <3>3
  <2>3. ASSUME NEW a \in Accounts, NEW i \in 1..Len(ledger'[a]), ledger'[a][i].transfer # None,
               NEW j \in 1..Len(ledger'[a]),
               ledger'[a][j].transfer = ledger'[a][i].transfer,
               ledger'[a][j].type = ledger'[a][i].type
        PROVE  j = i
    <3>1. CASE i \in 1..Len(ledger[a]) /\ j \in 1..Len(ledger[a])
      BY <2>3, <3>1, <1>26a DEF BankInv, DoubleEntry
    <3>2. ASSUME NEW k \in 1..Len(ledger'[a])
          PROVE  k = Len(ledger[a]) + 1 <=> ledger'[a][k].transfer = id
      <4>1. CASE k \in 1..Len(ledger[a]) /\ ledger'[a][k] = ledger[a][k]
        <5>1. Len(ledger[a]) \in Nat
          BY <1>18, LenProperties DEF TablesTypeOK
        <5>2. k # Len(ledger[a]) + 1
          BY <4>1, <5>1
        <5> QED
          BY <4>1, <5>2, <1>29
      <4>2. CASE a = s /\ k = Len(ledger[s]) + 1 /\ ledger'[a][k] = debit
        BY <4>2, <1>19
      <4>3. CASE a = d /\ k = Len(ledger[d]) + 1 /\ ledger'[a][k] = credit
        BY <4>3, <1>19
      <4> QED
        BY <1>27, <4>1, <4>2, <4>3
    <3>3. CASE ledger'[a][i].transfer = id
      BY <2>3, <3>2, <3>3
    <3>4. CASE ledger'[a][i].transfer # id
      <4>1. i \in 1..Len(ledger[a]) /\ j \in 1..Len(ledger[a])
        BY <2>3, <3>2, <3>4, <1>27
      <4> QED
        BY <4>1, <3>1
    <3> QED
      BY <3>3, <3>4
  <2> QED
    BY <2>1, <2>2, <2>3 DEF DoubleEntry
<1>31. AuditAgreesWithLedger'
  <2>1. \A t \in transfers' : \E w \in audit' : w.transfer = t.id
    BY <1>15, <1>20 DEF BankInv, AuditAgreesWithLedger
  <2>2. \A w, x \in audit' : w.transfer = x.transfer => w = x
    BY <1>15, <1>20, <1>29 DEF BankInv, AuditAgreesWithLedger
  <2>3. \A w \in audit' : \E t \in transfers' : t.id = w.transfer
    BY <1>15, <1>20 DEF BankInv, AuditAgreesWithLedger
  <2>4. ASSUME NEW w \in audit', NEW a \in Accounts, NEW i \in 1..Len(ledger'[a]),
               ledger'[a][i].transfer = w.transfer
        PROVE  IF ledger'[a][i].type = "DEBIT"
               THEN /\ w.source_before = BalanceBefore(a, i)'
                    /\ w.source_after = ledger'[a][i].balance_after
               ELSE /\ w.dest_before = BalanceBefore(a, i)'
                    /\ w.dest_after = ledger'[a][i].balance_after
    <3>1. CASE w = trail
      BY <2>4, <3>1, <1>19, <1>20, <1>27, <1>29
    <3>2. CASE w \in audit
      BY <2>4, <3>2, <1>19, <1>27, <1>29 DEF BankInv, AuditAgreesWithLedger
    <3> QED
      BY <3>1, <3>2, <1>15
  <2> QED
    BY <2>1, <2>2, <2>3, <2>4 DEF AuditAgreesWithLedger
<1> QED
  BY <1>17, <1>24, <1>25, <1>26, <1>28, <1>30, <1>31 DEF BankInv
-----------------------------------------------------------------------------
LEMMA TopUpStep ==
    ASSUME BankInv, NEW u \in TopUpOrders, TopUp(u)
    PROVE  BankInv'
<1> DEFINE b == u.account
           received == accounts[b].available + u.amount
           entry == [transfer |-> None, type |-> "CREDIT", amount |-> u.amount,
                     balance_after |-> received]
<1>1. b \in Accounts /\ u.amount \in Nat \ {0} /\ IsWhole(u.amount)
  BY BankAssumption DEF Amount
<1>2. \A a \in Accounts : accounts[a] \in Row \cup {NoRow}
  BY DEF BankInv, TablesTypeOK
<1>3. /\ accounts[b].available = LastBalance(b) /\ accounts[b].ledger = LastBalance(b)
      /\ accounts[b].available >= 0
  BY <1>1 DEF BankInv, BalanceMatchesLedger, NoOverdraft
<1>4. accounts[b].available \in Column /\ accounts[b].available \in Int
  BY <1>1, <1>2, RowBalances
<1>5. received \in 0..MaxNumeric
  BY <1>1, <1>3, <1>4, MaxNumericAssumption DEF TopUp, Holds
<1>6. received \in Column /\ u.amount \in Column
  <2>1. received \in Column
    BY <1>1, <1>4, <1>5, WholeSum, MaxNumericAssumption
  <2>2. u.amount \in (-MaxNumeric)..MaxNumeric
    BY <1>1, <1>3, <1>4, <1>5, MaxNumericAssumption
  <2> QED
    BY <2>1, <2>2, <1>1 DEF Column
<1>7. entry \in Entry
  BY <1>6 DEF Entry
<1>8. ledger \in [Accounts -> Seq(Entry)] /\ accounts \in [Accounts -> Row \cup {NoRow}]
  BY DEF BankInv, TablesTypeOK
<1>9. /\ ledger' = [ledger EXCEPT ![b] = Append(@, entry)]
      /\ accounts' = [accounts EXCEPT ![b] = Adjusted(b, u.amount)]
      /\ transfers' = transfers /\ audit' = audit
  BY DEF TopUp
<1>10. ledger'[b] = Append(ledger[b], entry) /\ \A a \in Accounts \ {b} : ledger'[a] = ledger[a]
  BY <1>1, <1>8, <1>9
<1>11. accounts[b] \in Row
  BY <1>1, <1>2 DEF TopUp, NoRow
<1>12. /\ accounts'[b] = [accounts[b] EXCEPT !.available = received, !.ledger = received]
       /\ \A a \in Accounts \ {b} : accounts'[a] = accounts[a]
  BY <1>1, <1>3, <1>8, <1>9 DEF Adjusted
<1>13. accounts'[b] \in Row /\ accounts'[b].available = received /\ accounts'[b].ledger = received
  BY <1>6, <1>11, <1>12 DEF Row
<1>14. TablesTypeOK'
  <2>1. Append(ledger[b], entry) \in Seq(Entry)
    BY <1>1, <1>7, <1>8, AppendEntry
  <2>2. ledger' \in [Accounts -> Seq(Entry)]
    BY <1>8, <1>9, <2>1
  <2>3. accounts' \in [Accounts -> Row \cup {NoRow}]
    BY <1>8, <1>9, <1>12, <1>13
  <2> QED
    BY <2>2, <2>3, <1>9 DEF BankInv, TablesTypeOK
<1>15. TablesTypeOK
  BY DEF BankInv
<1> HIDE DEF entry
<1>16. /\ entry.transfer = None /\ entry.type = "CREDIT" /\ entry.amount = u.amount
       /\ entry.balance_after = received /\ received = accounts[b].available + u.amount
  BY DEF entry
<1> HIDE DEF b, received
<1>17. /\ LastBalance(b)' = received
       /\ Len(ledger[b]) \in Nat
       /\ Len(ledger'[b]) = Len(ledger[b]) + 1
       /\ ledger'[b][Len(ledger[b]) + 1] = entry
       /\ \A n \in Nat : n = Len(ledger[b]) + 1 => BalanceBefore(b, n)' = accounts[b].available
       /\ \A i \in 1..Len(ledger[b]) : ledger'[b][i] = ledger[b][i]
       /\ \A i \in 1..Len(ledger[b]) : BalanceBefore(b, i)' = BalanceBefore(b, i)
  BY <1>1, <1>3, <1>7, <1>10, <1>15, <1>16, Posting
<1>18. \A a \in Accounts \ {b} :
          /\ LastBalance(a)' = LastBalance(a)
          /\ \A i \in 1..Len(ledger[a]) : BalanceBefore(a, i)' = BalanceBefore(a, i)
  BY <1>10, NoPosting
<1>19. BalanceMatchesLedger'
  <2> SUFFICES ASSUME NEW a \in Accounts
               PROVE  accounts'[a].available = LastBalance(a)' /\ accounts'[a].ledger = LastBalance(a)'
    BY DEF BalanceMatchesLedger
  <2>1. CASE a = b
    BY <2>1, <1>13, <1>17
  <2>2. CASE a # b
    BY <2>2, <1>12, <1>18 DEF BankInv, BalanceMatchesLedger
  <2> QED
    BY <2>1, <2>2
<1>20. NoOverdraft'
  <2> SUFFICES ASSUME NEW a \in Accounts PROVE accounts'[a].available >= 0
    BY DEF NoOverdraft
  <2>1. CASE a = b
    BY <2>1, <1>5, <1>13, MaxNumericAssumption
  <2>2. CASE a # b
    BY <2>2, <1>12 DEF BankInv, NoOverdraft
  <2> QED
    BY <2>1, <2>2
<1>21. ASSUME NEW a \in Accounts, NEW i \in 1..Len(ledger[a])
       PROVE  i \in 1..Len(ledger'[a]) /\ ledger'[a][i] = ledger[a][i]
  <2>1. CASE a = b
    BY <2>1, <1>17
  <2>2. CASE a # b
    BY <2>2, <1>10
  <2> QED
    BY <2>1, <2>2
<1>22. ASSUME NEW a \in Accounts, NEW i \in 1..Len(ledger'[a])
       PROVE  \/ /\ i \in 1..Len(ledger[a])
                 /\ ledger'[a][i] = ledger[a][i]
                 /\ BalanceBefore(a, i)' = BalanceBefore(a, i)
              \/ /\ a = b /\ i = Len(ledger[b]) + 1
                 /\ ledger'[a][i] = entry
                 /\ BalanceBefore(a, i)' = accounts[b].available
  <2>1. CASE a = b
    BY <2>1, <1>17
  <2>2. CASE a # b
    BY <2>2, <1>10, <1>18
  <2> QED
    BY <2>1, <2>2
<1>23. LedgerChain'
  <2> SUFFICES ASSUME NEW a \in Accounts, NEW i \in 1..Len(ledger'[a])
               PROVE  ledger'[a][i].balance_after =
                         IF ledger'[a][i].type = "CREDIT"
                         THEN BalanceBefore(a, i)' + ledger'[a][i].amount
                         ELSE BalanceBefore(a, i)' - ledger'[a][i].amount
    BY DEF LedgerChain
  <2> QED
    BY <1>16, <1>22 DEF BankInv, LedgerChain
<1>24. DoubleEntry'
  <2>1. ASSUME NEW t \in transfers
        PROVE  HasEntry(t.source, t.id, "DEBIT")' /\ HasEntry(t.destination, t.id, "CREDIT")'
    <3>1. t.source \in Accounts /\ t.destination \in Accounts
      BY <1>15 DEF TablesTypeOK, Transfer
    <3>2. HasEntry(t.source, t.id, "DEBIT") /\ HasEntry(t.destination, t.id, "CREDIT")
      BY DEF BankInv, DoubleEntry
    <3> QED
      BY <3>1, <3>2, <1>21 DEF HasEntry
  <2>2. ASSUME NEW a \in Accounts, NEW i \in 1..Len(ledger'[a]), ledger'[a][i].transfer # None
        PROVE  i \in 1..Len(ledger[a]) /\ ledger'[a][i] = ledger[a][i]
    BY <2>2, <1>16, <1>22
  <2> QED
    BY <2>1, <2>2, <1>9 DEF BankInv, DoubleEntry
<1>25. AuditAgreesWithLedger'
  <2>1. ASSUME NEW w \in audit, NEW a \in Accounts, NEW i \in 1..Len(ledger'[a]),
               ledger'[a][i].transfer = w.transfer
        PROVE  IF ledger'[a][i].type = "DEBIT"
               THEN /\ w.source_before = BalanceBefore(a, i)'
                    /\ w.source_after = ledger'[a][i].balance_after
               ELSE /\ w.dest_before = BalanceBefore(a, i)'
                    /\ w.dest_after = ledger'[a][i].balance_after
    <3>1. w.transfer # None
      BY <1>15, TablesAssumption DEF TablesTypeOK, AuditRow
    <3> QED
      BY <2>1, <3>1, <1>16, <1>22 DEF BankInv, AuditAgreesWithLedger
  <2> QED
    BY <2>1, <1>9 DEF BankInv, AuditAgreesWithLedger
<1> QED
  BY <1>9, <1>14, <1>19, <1>20, <1>23, <1>24, <1>25 DEF BankInv, UniqueReference

\* A step that leaves balances, transfers, ledger and audit alone.
LEMMA BalancesUntouched ==
    ASSUME BankInv, TablesTypeOK', UNCHANGED <<transfers, ledger, audit>>,
           \A a \in Accounts : /\ accounts'[a].available = accounts[a].available
                               /\ accounts'[a].ledger = accounts[a].ledger
    PROVE  BankInv'
<1>1. BalanceMatchesLedger' /\ NoOverdraft'
  BY DEF BankInv, BalanceMatchesLedger, NoOverdraft, LastBalance
<1>2. LedgerChain' /\ UniqueReference' /\ DoubleEntry' /\ AuditAgreesWithLedger'
  BY DEF BankInv, LedgerChain, UniqueReference, DoubleEntry, AuditAgreesWithLedger,
         BalanceBefore, HasEntry
<1> QED
  BY <1>1, <1>2 DEF BankInv

LEMMA SetStatusStep ==
    ASSUME BankInv, NEW b \in Accounts, NEW status \in Statuses, SetStatus(b, status)
    PROVE  BankInv'
<1>1. /\ accounts \in [Accounts -> Row \cup {NoRow}]
      /\ accounts[b] \in Row
      /\ accounts' = [accounts EXCEPT ![b] = [@ EXCEPT !.status = status]]
  BY DEF BankInv, TablesTypeOK, SetStatus
<1>2. /\ accounts'[b] = [accounts[b] EXCEPT !.status = status]
      /\ \A a \in Accounts \ {b} : accounts'[a] = accounts[a]
  BY <1>1
<1>3. /\ accounts'[b] \in Row
      /\ accounts'[b].available = accounts[b].available
      /\ accounts'[b].ledger = accounts[b].ledger
  BY <1>1, <1>2 DEF Row
<1>4. TablesTypeOK'
  BY <1>1, <1>2, <1>3 DEF BankInv, TablesTypeOK, SetStatus
<1> QED
  BY <1>2, <1>3, <1>4, BalancesUntouched DEF SetStatus

LEMMA OpenStep ==
    ASSUME BankInv, NEW b \in Accounts, NEW currency \in Currencies, Open(b, currency)
    PROVE  BankInv'
<1> DEFINE row == [available |-> 0, ledger |-> 0, currency |-> currency, status |-> "ACTIVE"]
<1>1. /\ accounts \in [Accounts -> Row \cup {NoRow}]
      /\ accounts' = [accounts EXCEPT ![b] = row]
      /\ accounts[b].available = 0 /\ accounts[b].ledger = 0
  BY DEF BankInv, TablesTypeOK, Open, NoRow
<1>2. accounts'[b] = row /\ \A a \in Accounts \ {b} : accounts'[a] = accounts[a]
  BY <1>1
<1>3. 0 \in Column
  BY MaxNumericAssumption DEF Column, IsWhole, Quantum
<1>4. row \in Row
  BY <1>3 DEF Row, Statuses
<1>5. TablesTypeOK'
  BY <1>1, <1>2, <1>4 DEF BankInv, TablesTypeOK, Open
<1> QED
  BY <1>1, <1>2, <1>5, BalancesUntouched DEF Open
-----------------------------------------------------------------------------
LEMMA StatusOrdersTyped == \A r \in StatusOrders : r.account \in Accounts /\ r.status \in Statuses
  BY BankAssumption

LEMMA BankStep == BankInv /\ [BankNext]_tables => BankInv'
<1> SUFFICES ASSUME BankInv, [BankNext]_tables PROVE BankInv'
  OBVIOUS
<1>1. ASSUME NEW id \in Sessions, NEW o \in Orders, Move(id, o) PROVE BankInv'
  BY <1>1, MoveStep, BankAssumption
<1>2. ASSUME NEW u \in TopUpOrders, TopUp(u) PROVE BankInv'
  BY <1>2, TopUpStep
<1>3. ASSUME NEW r \in StatusOrders, SetStatus(r.account, r.status) PROVE BankInv'
  BY <1>3, SetStatusStep, StatusOrdersTyped
<1>4. ASSUME NEW a \in Accounts, NEW currency \in Currencies, Open(a, currency) PROVE BankInv'
  BY <1>4, OpenStep
<1>5. CASE UNCHANGED tables
  <2>1. UNCHANGED <<accounts, transfers, ledger, audit>>
    BY <1>5 DEF tables
  <2>2. TablesTypeOK'
    BY <2>1 DEF BankInv, TablesTypeOK
  <2> QED
    BY <2>1, <2>2, BalancesUntouched
<1> QED
  BY <1>1, <1>2, <1>3, <1>4, <1>5 DEF BankNext

\* Everything the tables promise holds in every state of the atomic bank.
THEOREM BankCorrect == BankSpec => []BankInv
<1>1. TablesInit => BankInv
  BY BankInit
<1>2. BankInv /\ [BankNext]_tables => BankInv'
  BY BankStep
<1> QED
  BY <1>1, <1>2, PTL DEF BankSpec

LEMMA AppendPrefix ==
    ASSUME NEW s \in Seq(Entry), NEW e
    PROVE  /\ Len(s) <= Len(Append(s, e))
           /\ \A i \in 1..Len(s) : Append(s, e)[i] = s[i]
<1>1. s \in Seq(Entry \cup {e})
  BY SeqMonotonic
<1>2. /\ Len(Append(s, e)) = Len(s) + 1
      /\ \A i \in 1..Len(s) : Append(s, e)[i] = s[i]
  BY <1>1, AppendProperties
<1> QED
  BY <1>2, LenProperties

\* A step leaves the ledger of an account alone, or appends one entry to that
\* of an account which is ACTIVE before and after.
OneEntry(a) ==
    \/ ledger'[a] = ledger[a]
    \/ /\ \E e : ledger'[a] = Append(ledger[a], e)
       /\ accounts[a].status = "ACTIVE" /\ accounts'[a].status = "ACTIVE"

Stays(a) == accounts[a] # NoRow => accounts'[a] # NoRow

LEMMA AdjustedStatus ==
    ASSUME NEW a \in Accounts, accounts[a] \in Row, NEW delta \in Int
    PROVE  Adjusted(a, delta).status = accounts[a].status
BY DEF Adjusted, Row

LEMMA MoveAppends ==
    ASSUME TablesTypeOK, NEW id \in Sessions, NEW o \in Order, Move(id, o), NEW a \in Accounts
    PROVE  OneEntry(a) /\ Stays(a)
<1>1. accounts \in [Accounts -> Row \cup {NoRow}] /\ ledger \in [Accounts -> Seq(Entry)]
  BY DEF TablesTypeOK
<1>2. o.source \in Accounts /\ o.destination \in Accounts /\ o.source # o.destination
      /\ o.amount \in Int
  BY BankAssumption DEF Order, Amount, Move, RulesAllow
<1>3. CASE a \notin {o.source, o.destination}
  BY <1>1, <1>2, <1>3 DEF Move, RulesAllow, OneEntry, Stays
<1>4. CASE a \in {o.source, o.destination}
  <2>1. accounts[a].status = "ACTIVE" /\ accounts[a] \in Row
    BY <1>1, <1>4 DEF Move, RulesAllow, NoRow
  <2>2. accounts'[a] \in {Adjusted(a, -o.amount), Adjusted(a, o.amount)}
    BY <1>1, <1>2, <1>4 DEF Move, RulesAllow
  <2>3. accounts'[a].status = "ACTIVE"
    BY <2>1, <2>2, <1>2, AdjustedStatus
  <2>4. \E e : ledger'[a] = Append(ledger[a], e)
    <3>1. CASE a = o.source
      <4>1. ledger'[a] = Append(ledger[a],
                [transfer |-> id, type |-> "DEBIT", amount |-> o.amount,
                 balance_after |-> accounts[o.source].available - o.amount])
        BY <1>1, <1>2, <3>1 DEF Move, RulesAllow
      <4> QED
        BY <4>1
    <3>2. CASE a = o.destination
      <4>1. ledger'[a] = Append(ledger[a],
                [transfer |-> id, type |-> "CREDIT", amount |-> o.amount,
                 balance_after |-> accounts[o.destination].available + o.amount])
        BY <1>1, <1>2, <3>2 DEF Move, RulesAllow
      <4> QED
        BY <4>1
    <3> QED
      BY <1>4, <3>1, <3>2
  <2> QED
    BY <2>1, <2>3, <2>4 DEF OneEntry, Stays, NoRow
<1> QED
  BY <1>3, <1>4

LEMMA TopUpAppends ==
    ASSUME TablesTypeOK, NEW u \in TopUpOrders, TopUp(u), NEW a \in Accounts
    PROVE  OneEntry(a) /\ Stays(a)
<1>1. accounts \in [Accounts -> Row \cup {NoRow}] /\ ledger \in [Accounts -> Seq(Entry)]
  BY DEF TablesTypeOK
<1>2. u.account \in Accounts /\ u.amount \in Int
  BY BankAssumption DEF Amount
<1>3. CASE a # u.account
  BY <1>1, <1>2, <1>3 DEF TopUp, OneEntry, Stays
<1>4. CASE a = u.account
  <2>1. accounts[a].status = "ACTIVE" /\ accounts[a] \in Row
    BY <1>1, <1>4 DEF TopUp, NoRow
  <2>2. accounts'[a] = Adjusted(a, u.amount)
    BY <1>1, <1>2, <1>4 DEF TopUp
  <2>3. accounts'[a].status = "ACTIVE"
    BY <2>1, <2>2, <1>2, AdjustedStatus
  <2>4. ledger'[a] = Append(ledger[a],
            [transfer |-> None, type |-> "CREDIT", amount |-> u.amount,
             balance_after |-> accounts[u.account].available + u.amount])
    BY <1>1, <1>2, <1>4 DEF TopUp
  <2> QED
    BY <2>1, <2>3, <2>4 DEF OneEntry, Stays, NoRow
<1> QED
  BY <1>3, <1>4

LEMMA StepAppends ==
    ASSUME TablesTypeOK, [BankNext]_tables, NEW a \in Accounts
    PROVE  OneEntry(a) /\ Stays(a)
<1>1. accounts \in [Accounts -> Row \cup {NoRow}]
  BY DEF TablesTypeOK
<1>2. \A r \in Row : r # NoRow
  BY DEF Row, NoRow, Statuses
<1>3. ASSUME NEW b \in Accounts, NEW status \in Statuses, SetStatus(b, status)
      PROVE  OneEntry(a) /\ Stays(a)
  <2>1. a # b => accounts'[a] = accounts[a]
    BY <1>1, <1>3 DEF SetStatus
  <2>2. a = b => accounts'[a] \in Row
    BY <1>1, <1>3 DEF SetStatus, Row
  <2> QED
    BY <2>1, <2>2, <1>2, <1>3 DEF OneEntry, Stays, SetStatus
<1>4. ASSUME NEW b \in Accounts, NEW currency \in Currencies, Open(b, currency)
      PROVE  OneEntry(a) /\ Stays(a)
  BY <1>1, <1>4 DEF OneEntry, Stays, Open
<1>5. CASE UNCHANGED tables
  BY <1>5 DEF tables, OneEntry, Stays
<1> QED
  BY <1>3, <1>4, <1>5, MoveAppends, TopUpAppends, StatusOrdersTyped, BankAssumption DEF BankNext

\* Nothing that is recorded is ever changed or removed.
THEOREM BankAppendOnly == BankSpec => AppendOnly
<1> DEFINE A == /\ transfers \subseteq transfers'
                /\ audit \subseteq audit'
                /\ \A a \in Accounts :
                      /\ Len(ledger[a]) <= Len(ledger'[a])
                      /\ \A i \in 1..Len(ledger[a]) : ledger'[a][i] = ledger[a][i]
                      /\ accounts[a] # NoRow => accounts'[a] # NoRow
<1>1. ASSUME BankInv, BankNext PROVE A
  <2>1. TablesTypeOK /\ \A a \in Accounts : ledger[a] \in Seq(Entry)
    BY <1>1 DEF BankInv, TablesTypeOK
  <2>2. \A a \in Accounts : OneEntry(a) /\ Stays(a)
    BY <2>1, <1>1, StepAppends
  <2>3. ASSUME NEW a \in Accounts
        PROVE  /\ Len(ledger[a]) <= Len(ledger'[a])
               /\ \A i \in 1..Len(ledger[a]) : ledger'[a][i] = ledger[a][i]
    BY <2>1, <2>2, AppendPrefix, LenProperties DEF OneEntry
  <2>4. transfers \subseteq transfers' /\ audit \subseteq audit'
    BY <1>1 DEF BankNext, Move, RulesAllow, TopUp, SetStatus, Open
  <2> QED
    BY <2>2, <2>3, <2>4 DEF Stays
<1>2. BankInv /\ [BankNext]_tables => [A]_tables
  BY <1>1
<1> QED
  BY <1>2, BankCorrect, PTL DEF BankSpec, AppendOnly

\* Money moves only on accounts that are ACTIVE when it does.
THEOREM BankMovesActiveAccounts == BankSpec => OnlyActiveAccountsMove
<1> DEFINE A == \A a \in Accounts : ledger'[a] # ledger[a] =>
                    accounts[a].status = "ACTIVE" /\ accounts'[a].status = "ACTIVE"
<1>1. ASSUME BankInv, BankNext PROVE A
  BY <1>1, StepAppends DEF BankInv, OneEntry
<1>2. BankInv /\ [BankNext]_tables => [A]_tables
  BY <1>1
<1> QED
  BY <1>2, BankCorrect, PTL DEF BankSpec, OnlyActiveAccountsMove
-----------------------------------------------------------------------------
\* Accounts no transfer names may be taken away, or given their seeded row and
\* entry: the promises about the others do not change.
LEMMA AccountsReset ==
    ASSUME BankInv, UNCHANGED <<transfers, audit>>, NEW D \in SUBSET Accounts,
           \A t \in transfers : t.source \notin D /\ t.destination \notin D,
           accounts' = [a \in Accounts |-> accounts'[a]],
           ledger' = [a \in Accounts |-> ledger'[a]],
           \A a \in Accounts \ D : accounts'[a] = accounts[a] /\ ledger'[a] = ledger[a],
           \A a \in D : \/ accounts'[a] = NoRow /\ ledger'[a] = <<>>
                        \/ /\ Opening[a] # NoRow /\ accounts'[a] = Opening[a]
                           /\ ledger'[a] = <<OpeningEntry(a)>>
    PROVE  BankInv'
<1>1. \A a \in D : /\ Opening[a] \in Row \cup {NoRow} /\ Opening[a].available \in Int
                   /\ Opening[a].available = Opening[a].ledger /\ Opening[a].available >= 0
  BY TablesAssumption, RowBalances
<1>2. ASSUME NEW a \in D
      PROVE  /\ accounts'[a] \in Row \cup {NoRow}
             /\ ledger'[a] \in Seq(Entry)
             /\ \A i \in 1..Len(ledger'[a]) : i = 1 /\ ledger'[a][i] = OpeningEntry(a)
  <2>1. CASE accounts'[a] = NoRow /\ ledger'[a] = <<>>
    BY <2>1
  <2>2. CASE Opening[a] # NoRow /\ accounts'[a] = Opening[a] /\ ledger'[a] = <<OpeningEntry(a)>>
    <3>1. OpeningEntry(a) \in Entry
      BY <1>1, <2>2 DEF Row, Entry, OpeningEntry
    <3>2. Len(<<OpeningEntry(a)>>) = 1 /\ <<OpeningEntry(a)>>[1] = OpeningEntry(a)
      OBVIOUS
    <3> QED
      BY <1>1, <2>2, <3>1, <3>2
  <2> QED
    BY <2>1, <2>2
<1>3. ASSUME NEW a \in Accounts \ D
      PROVE  /\ LastBalance(a)' = LastBalance(a)
             /\ \A i : BalanceBefore(a, i)' = BalanceBefore(a, i)
             /\ \A id, type : HasEntry(a, id, type)' <=> HasEntry(a, id, type)
  BY <1>3 DEF LastBalance, BalanceBefore, HasEntry
<1>4. TablesTypeOK'
  <2>1. \A a \in Accounts : accounts'[a] \in Row \cup {NoRow} /\ ledger'[a] \in Seq(Entry)
    BY <1>2 DEF BankInv, TablesTypeOK
  <2> QED
    BY <2>1 DEF BankInv, TablesTypeOK
<1>5. ASSUME NEW a \in D
      PROVE  /\ accounts'[a].available = LastBalance(a)' /\ accounts'[a].ledger = LastBalance(a)'
             /\ accounts'[a].available >= 0
  <2>1. CASE accounts'[a] = NoRow /\ ledger'[a] = <<>>
    BY <2>1 DEF LastBalance, NoRow
  <2>2. CASE Opening[a] # NoRow /\ accounts'[a] = Opening[a] /\ ledger'[a] = <<OpeningEntry(a)>>
    <3>1. LastBalance(a)' = OpeningEntry(a).balance_after
      BY <2>2 DEF LastBalance
    <3> QED
      BY <1>1, <2>2, <3>1 DEF OpeningEntry
  <2> QED
    BY <2>1, <2>2
<1>6. BalanceMatchesLedger' /\ NoOverdraft'
  BY <1>3, <1>5 DEF BankInv, BalanceMatchesLedger, NoOverdraft
<1>7. LedgerChain'
  <2>1. ASSUME NEW a \in D, NEW i \in 1..Len(ledger'[a])
        PROVE  /\ ledger'[a][i].type = "CREDIT" /\ BalanceBefore(a, i)' = 0
               /\ ledger'[a][i].balance_after = 0 + ledger'[a][i].amount
    <3>1. i = 1 /\ ledger'[a][i] = OpeningEntry(a)
      BY <1>2
    <3>2. Opening[a].available \in Int
      BY <1>1
    <3>3. /\ OpeningEntry(a).type = "CREDIT"
          /\ OpeningEntry(a).balance_after = 0 + OpeningEntry(a).amount
      BY <3>2 DEF OpeningEntry
    <3> QED
      BY <3>1, <3>3 DEF BalanceBefore
  <2> QED
    BY <1>3, <2>1 DEF BankInv, LedgerChain
<1>8. \A a \in D : \A i \in 1..Len(ledger'[a]) : ledger'[a][i].transfer = None
  <2>1. \A a \in D : OpeningEntry(a).transfer = None
    BY DEF OpeningEntry
  <2> QED
    BY <1>2, <2>1
<1>9. DoubleEntry'
  <2>1. \A t \in transfers : /\ t.source \in Accounts \ D /\ t.destination \in Accounts \ D
    BY DEF BankInv, TablesTypeOK, Transfer
  <2>2. \A t \in transfers : HasEntry(t.source, t.id, "DEBIT")'
                             /\ HasEntry(t.destination, t.id, "CREDIT")'
    BY <1>3, <2>1 DEF BankInv, DoubleEntry
  <2>3. ASSUME NEW a \in Accounts \ D
        PROVE  \A i \in 1..Len(ledger'[a]) : ledger'[a][i].transfer # None =>
                  /\ \E t \in transfers : /\ t.id = ledger'[a][i].transfer
                                          /\ t.amount = ledger'[a][i].amount
                                          /\ a = IF ledger'[a][i].type = "DEBIT"
                                                 THEN t.source ELSE t.destination
                  /\ \A j \in 1..Len(ledger'[a]) :
                        (/\ ledger'[a][j].transfer = ledger'[a][i].transfer
                         /\ ledger'[a][j].type = ledger'[a][i].type) => j = i
    BY <2>3 DEF BankInv, DoubleEntry
  <2> QED
    BY <1>8, <2>2, <2>3 DEF DoubleEntry
<1>10. AuditAgreesWithLedger'
  <2>1. \A w \in audit : w.transfer # None
    BY TablesAssumption DEF BankInv, TablesTypeOK, AuditRow
  <2>2. ASSUME NEW w \in audit, NEW a \in Accounts, NEW i \in 1..Len(ledger'[a]),
               ledger'[a][i].transfer = w.transfer
        PROVE  a \notin D
    BY <1>8, <2>1, <2>2
  <2> QED
    BY <1>3, <2>2 DEF BankInv, AuditAgreesWithLedger
<1> QED
  BY <1>4, <1>6, <1>7, <1>9, <1>10 DEF BankInv, UniqueReference
-----------------------------------------------------------------------------
(***************************************************************************)
(* The money there is.                                                     *)
(***************************************************************************)

\* What an entry adds to the money an account has been given.
Given(e) == IF e.transfer = None THEN e.amount ELSE 0

LEMMA IssuedAppends ==
    ASSUME NEW s \in Seq(Entry), NEW e \in Entry
    PROVE  /\ Issued(s) \in Int
           /\ Issued(Append(s, e)) = Issued(s) + Given(e)
<1> DEFINE t == Append(s, e)
           n == Len(s)
           f == [i \in DOMAIN s |-> s[i].amount]
           g == [i \in DOMAIN t |-> t[i].amount]
           S == {i \in DOMAIN s : s[i].transfer = None}
           T == {i \in DOMAIN t : t[i].transfer = None}
<1>1. /\ n \in Nat /\ DOMAIN s = 1..n /\ DOMAIN t = 1..(n + 1)
      /\ t[n + 1] = e /\ \A i \in 1..n : t[i] = s[i]
  BY AppendProperties, LenProperties
<1>2. \A i \in 1..n : s[i] \in Entry
  BY <1>1, ElementOfSeq
<1>3. e.amount \in Int /\ \A i \in 1..n : s[i].amount \in Int
  BY <1>2, ColumnIsInt DEF Entry
<1>4. IsFiniteSet(S)
  <2>1. IsFiniteSet(1..n)
    BY <1>1, FS_Interval
  <2> QED
    BY <1>1, <2>1, FS_Subset
<1>5. \A i \in S : f[i] = g[i] /\ f[i] \in Int
  BY <1>1, <1>3
<1>6. SumFunctionOnSet(g, S) = SumFunctionOnSet(f, S) /\ SumFunctionOnSet(f, S) \in Int
  <2> HIDE DEF f, g, S
  <2> QED
    BY <1>4, <1>5, SumSame, SumInt
<1>7. SumFunctionOnSet(g, T) = SumFunctionOnSet(g, S) + Given(e)
  <2>1. CASE e.transfer = None
    <3>1. T = S \cup {n + 1} /\ n + 1 \notin S /\ g[n + 1] = e.amount
      BY <1>1, <2>1
    <3>2. \A i \in S \cup {n + 1} : g[i] \in Int
      BY <1>3, <1>5, <3>1
    <3> HIDE DEF f, g, S, T
    <3>3. SumFunctionOnSet(g, S \cup {n + 1}) = g[n + 1] + SumFunctionOnSet(g, S)
      BY <1>4, <3>1, <3>2, SumAdd
    <3> QED
      BY <1>3, <1>6, <2>1, <3>1, <3>3 DEF Given
  <2>2. CASE e.transfer # None
    <3>1. T = S
      BY <1>1, <2>2
    <3> HIDE DEF f, g, S, T
    <3> QED
      BY <1>6, <2>2, <3>1 DEF Given
  <2> QED
    BY <2>1, <2>2
<1> QED
  BY <1>6, <1>7 DEF Issued

LEMMA AppendedIsTyped ==
    ASSUME NEW s \in Seq(Entry), NEW e, Append(s, e) \in Seq(Entry)
    PROVE  e \in Entry
<1>1. s \in Seq(Entry \cup {e})
  BY SeqMonotonic
<1>2. /\ Append(s, e)[Len(s) + 1] = e
      /\ Len(Append(s, e)) = Len(s) + 1 /\ Len(s) \in Nat
  BY <1>1, AppendProperties, LenProperties
<1>3. Len(s) + 1 \in 1..Len(Append(s, e))
  BY <1>2
<1> QED
  BY <1>2, <1>3, ElementOfSeq

\* The money issued to all accounts.
IssuedTo(book) == SumFunction([a \in Accounts |-> Issued(book[a])])

Available(rows) == [a \in Accounts |-> rows[a].available]
GivenBy(book) == [a \in Accounts |-> Issued(book[a])]

LEMMA WhatTheSumsAre ==
    /\ \A rows : Deposits(rows) = SumFunctionOnSet(Available(rows), Accounts)
    /\ \A book : IssuedTo(book) = SumFunctionOnSet(GivenBy(book), Accounts)
BY DEF Deposits, IssuedTo, SumFunction, Available, GivenBy

LEMMA SumsTyped ==
    /\ \A rows \in [Accounts -> Row \cup {NoRow}] : \A a \in Accounts :
          Available(rows)[a] = rows[a].available /\ Available(rows)[a] \in Int
    /\ \A book \in [Accounts -> Seq(Entry)] : \A a \in Accounts :
          GivenBy(book)[a] = Issued(book[a]) /\ GivenBy(book)[a] \in Int
<1>1. \A rows \in [Accounts -> Row \cup {NoRow}] : \A a \in Accounts : rows[a].available \in Int
  BY RowBalances
<1>2. Entry # {}
  <2>1. 0 \in Column
    BY MaxNumericAssumption DEF Column, IsWhole, Quantum
  <2>2. [transfer |-> None, type |-> "DEBIT", amount |-> 0, balance_after |-> 0] \in Entry
    BY <2>1 DEF Entry
  <2> QED
    BY <2>2
<1>3. \A book \in [Accounts -> Seq(Entry)] : \A a \in Accounts : Issued(book[a]) \in Int
  BY <1>2, IssuedAppends
<1> QED
  BY <1>1, <1>3 DEF Available, GivenBy

LEMMA DepositsInt == \A rows \in [Accounts -> Row \cup {NoRow}] : Deposits(rows) \in Int
BY WhatTheSumsAre, SumsTyped, SumInt, TablesAssumption

\* Equal balances add up to the same.
LEMMA DepositsSame ==
    ASSUME NEW rows \in [Accounts -> Row \cup {NoRow}], NEW next \in [Accounts -> Row \cup {NoRow}],
           \A a \in Accounts : next[a].available = rows[a].available
    PROVE  Deposits(next) = Deposits(rows)
<1>1. \A a \in Accounts : Available(next)[a] = Available(rows)[a]
  BY SumsTyped
<1> QED
  BY <1>1, SumSame, WhatTheSumsAre, TablesAssumption

\* One balance changes.
LEMMA DepositsShift ==
    ASSUME NEW rows \in [Accounts -> Row \cup {NoRow}], NEW next \in [Accounts -> Row \cup {NoRow}],
           NEW b \in Accounts,
           \A a \in Accounts : a # b => next[a] = rows[a]
    PROVE  Deposits(next) = Deposits(rows) + (next[b].available - rows[b].available)
<1> DEFINE f == Available(rows)
           g == Available(next)
<1>1. /\ \A a \in Accounts : f[a] = rows[a].available /\ f[a] \in Int
      /\ \A a \in Accounts : g[a] = next[a].available /\ g[a] \in Int
  BY SumsTyped
<1>2. Deposits(rows) = SumFunctionOnSet(f, Accounts) /\ Deposits(next) = SumFunctionOnSet(g, Accounts)
  BY WhatTheSumsAre
<1> HIDE DEF f, g
<1>3. \A a \in Accounts : a # b => g[a] = f[a]
  BY <1>1
<1>4. SumFunctionOnSet(g, Accounts) = SumFunctionOnSet(f, Accounts) + (g[b] - f[b])
  <2>1. (\A a \in Accounts : f[a] \in Int) /\ (\A a \in Accounts : g[a] \in Int)
    BY <1>1
  <2> QED
    BY <1>3, <2>1, SumShifts, TablesAssumption
<1> QED
  BY <1>1, <1>2, <1>4

\* Two balances change.
LEMMA DepositsShiftTwo ==
    ASSUME NEW rows \in [Accounts -> Row \cup {NoRow}], NEW next \in [Accounts -> Row \cup {NoRow}],
           NEW b \in Accounts, NEW c \in Accounts, b # c,
           \A a \in Accounts : a # b /\ a # c => next[a] = rows[a]
    PROVE  Deposits(next) = Deposits(rows) + (next[b].available - rows[b].available)
                                           + (next[c].available - rows[c].available)
<1> DEFINE f == Available(rows)
           g == Available(next)
<1>1. /\ \A a \in Accounts : f[a] = rows[a].available /\ f[a] \in Int
      /\ \A a \in Accounts : g[a] = next[a].available /\ g[a] \in Int
  BY SumsTyped
<1>2. Deposits(rows) = SumFunctionOnSet(f, Accounts) /\ Deposits(next) = SumFunctionOnSet(g, Accounts)
  BY WhatTheSumsAre
<1> HIDE DEF f, g
<1>3. \A a \in Accounts : a # b /\ a # c => g[a] = f[a]
  BY <1>1
<1>4. SumFunctionOnSet(g, Accounts)
         = SumFunctionOnSet(f, Accounts) + (g[b] - f[b]) + (g[c] - f[c])
  <2>1. (\A a \in Accounts : f[a] \in Int) /\ (\A a \in Accounts : g[a] \in Int)
    BY <1>1
  <2> QED
    BY <1>3, <2>1, SumShiftsTwo, TablesAssumption
<1> QED
  BY <1>1, <1>2, <1>4

LEMMA IssuedSame ==
    ASSUME NEW book \in [Accounts -> Seq(Entry)], NEW next \in [Accounts -> Seq(Entry)],
           \A a \in Accounts : Issued(next[a]) = Issued(book[a])
    PROVE  IssuedTo(next) = IssuedTo(book)
<1>1. \A a \in Accounts : GivenBy(next)[a] = GivenBy(book)[a]
  BY SumsTyped
<1> QED
  BY <1>1, SumSame, WhatTheSumsAre, TablesAssumption

\* One account is given an entry.
LEMMA IssuedShift ==
    ASSUME NEW book \in [Accounts -> Seq(Entry)], NEW next \in [Accounts -> Seq(Entry)],
           NEW b \in Accounts, NEW e \in Entry, next[b] = Append(book[b], e),
           \A a \in Accounts : a # b => next[a] = book[a]
    PROVE  IssuedTo(next) = IssuedTo(book) + Given(e)
<1> DEFINE f == GivenBy(book)
           g == GivenBy(next)
<1>1. /\ \A a \in Accounts : f[a] = Issued(book[a]) /\ f[a] \in Int
      /\ \A a \in Accounts : g[a] = Issued(next[a]) /\ g[a] \in Int
  BY SumsTyped
<1>2. IssuedTo(book) = SumFunctionOnSet(f, Accounts) /\ IssuedTo(next) = SumFunctionOnSet(g, Accounts)
  BY WhatTheSumsAre
<1> HIDE DEF f, g
<1>3. \A a \in Accounts : a # b => g[a] = f[a]
  BY <1>1
<1>4. g[b] = f[b] + Given(e)
  <2>1. book[b] \in Seq(Entry)
    OBVIOUS
  <2> QED
    BY <1>1, <2>1, IssuedAppends
<1>5. SumFunctionOnSet(g, Accounts) = SumFunctionOnSet(f, Accounts) + (g[b] - f[b])
  <2>1. (\A a \in Accounts : f[a] \in Int) /\ (\A a \in Accounts : g[a] \in Int)
    BY <1>1
  <2>2. \A a \in Accounts : a # b => g[a] = f[a]
    BY <1>3
  <2>3. IsFiniteSet(Accounts) /\ b \in Accounts
    BY TablesAssumption
  <2> QED
    BY ONLY <2>1, <2>2, <2>3, SumShifts
<1>6. Given(e) \in Int
  <2>1. e.amount \in Int
    BY ColumnIsInt DEF Entry
  <2> QED
    BY <2>1 DEF Given
<1> QED
  BY <1>1, <1>2, <1>4, <1>5, <1>6
-----------------------------------------------------------------------------
LEMMA AdjustedBalance ==
    ASSUME NEW a \in Accounts, accounts[a] \in Row, NEW delta \in Int
    PROVE  Adjusted(a, delta).available = accounts[a].available + delta
BY DEF Adjusted, Row

\* What a typed step leaves typed.
LEMMA TablesAreTyped ==
    ASSUME TablesTypeOK
    PROVE  accounts \in [Accounts -> Row \cup {NoRow}] /\ ledger \in [Accounts -> Seq(Entry)]
BY DEF TablesTypeOK

\* A move takes from one account what it gives another, and issues nothing.
LEMMA MoveKeepsMoney ==
    ASSUME BankInv, NEW id \in Sessions, NEW o \in Order, Move(id, o)
    PROVE  Deposits(accounts') = Deposits(accounts) /\ IssuedTo(ledger') = IssuedTo(ledger)
<1> DEFINE s == o.source
           d == o.destination
<1>1. s \in Accounts /\ d \in Accounts /\ s # d /\ o.amount \in Int
  BY DEF Order, Amount, Move, RulesAllow
<1>2. /\ accounts \in [Accounts -> Row \cup {NoRow}] /\ accounts' \in [Accounts -> Row \cup {NoRow}]
      /\ ledger \in [Accounts -> Seq(Entry)] /\ ledger' \in [Accounts -> Seq(Entry)]
  BY MoveStep DEF BankInv, TablesTypeOK
<1>3. /\ accounts[s] \in Row /\ accounts[d] \in Row
      /\ accounts' = [accounts EXCEPT ![s] = Adjusted(s, -o.amount),
                                      ![d] = Adjusted(d, o.amount)]
  BY <1>1, <1>2 DEF Move, RulesAllow, NoRow
<1>4. /\ accounts'[s] = Adjusted(s, -o.amount)
      /\ accounts'[d] = Adjusted(d, o.amount)
      /\ \A a \in Accounts : a # s /\ a # d => accounts'[a] = accounts[a]
  BY <1>1, <1>2, <1>3
<1>5. /\ accounts'[s].available = accounts[s].available + (-o.amount)
      /\ accounts'[d].available = accounts[d].available + o.amount
  BY <1>1, <1>3, <1>4, AdjustedBalance
<1>6. accounts[s].available \in Int /\ accounts[d].available \in Int
  BY <1>3, RowBalances
<1>7. Deposits(accounts') = Deposits(accounts)
  <2>1. Deposits(accounts') = Deposits(accounts)
            + (accounts'[s].available - accounts[s].available)
            + (accounts'[d].available - accounts[d].available)
    BY <1>1, <1>2, <1>4, DepositsShiftTwo
  <2>2. Deposits(accounts) \in Int
    BY <1>2, DepositsInt
  <2> QED
    BY <1>1, <1>5, <1>6, <2>1, <2>2
<1>8. ASSUME NEW a \in Accounts PROVE Issued(ledger'[a]) = Issued(ledger[a])
  <2>1. \/ ledger'[a] = ledger[a]
        \/ \E e : ledger'[a] = Append(ledger[a], e) /\ e.transfer = id
    <3>1. CASE a = s
      <4>1. ledger'[a] = Append(ledger[a],
                [transfer |-> id, type |-> "DEBIT", amount |-> o.amount,
                 balance_after |-> accounts[o.source].available - o.amount])
        BY <1>1, <1>2, <3>1 DEF Move, RulesAllow
      <4> QED
        BY <4>1
    <3>2. CASE a = d
      <4>1. ledger'[a] = Append(ledger[a],
                [transfer |-> id, type |-> "CREDIT", amount |-> o.amount,
                 balance_after |-> accounts[o.destination].available + o.amount])
        BY <1>1, <1>2, <3>2 DEF Move, RulesAllow
      <4> QED
        BY <4>1
    <3>3. CASE a # s /\ a # d
      BY <1>1, <1>2, <3>3 DEF Move, RulesAllow
    <3> QED
      BY <3>1, <3>2, <3>3
  <2>2. ASSUME NEW e, ledger'[a] = Append(ledger[a], e), e.transfer = id
        PROVE  Issued(ledger'[a]) = Issued(ledger[a])
    <3>1. ledger[a] \in Seq(Entry) /\ Append(ledger[a], e) \in Seq(Entry)
      BY <1>2, <2>2
    <3>2. e \in Entry
      BY <3>1, AppendedIsTyped
    <3>3. Given(e) = 0
      BY <2>2, TablesAssumption DEF Given
    <3> QED
      BY <2>2, <3>1, <3>2, <3>3, IssuedAppends
  <2> QED
    BY <2>1, <2>2
<1> QED
  BY <1>2, <1>7, <1>8, IssuedSame

LEMMA TopUpIssuesMoney ==
    ASSUME BankInv, NEW u \in TopUpOrders, TopUp(u)
    PROVE  /\ Deposits(accounts') = Deposits(accounts) + u.amount
           /\ IssuedTo(ledger') = IssuedTo(ledger) + u.amount
<1> DEFINE b == u.account
           entry == [transfer |-> None, type |-> "CREDIT", amount |-> u.amount,
                     balance_after |-> accounts[b].available + u.amount]
<1>1. b \in Accounts /\ u.amount \in Int
  BY BankAssumption DEF Amount
<1>2. /\ accounts \in [Accounts -> Row \cup {NoRow}] /\ accounts' \in [Accounts -> Row \cup {NoRow}]
      /\ ledger \in [Accounts -> Seq(Entry)] /\ ledger' \in [Accounts -> Seq(Entry)]
  BY TopUpStep DEF BankInv, TablesTypeOK
<1>3. /\ accounts[b] \in Row
      /\ accounts'[b] = Adjusted(b, u.amount)
      /\ \A a \in Accounts : a # b => accounts'[a] = accounts[a]
  BY <1>1, <1>2 DEF TopUp, NoRow
<1>4. Deposits(accounts') = Deposits(accounts) + u.amount
  <2>1. accounts'[b].available = accounts[b].available + u.amount
    BY <1>1, <1>3, AdjustedBalance
  <2>2. accounts[b].available \in Int /\ Deposits(accounts) \in Int
    BY <1>2, <1>3, RowBalances, DepositsInt
  <2>3. Deposits(accounts') = Deposits(accounts) + (accounts'[b].available - accounts[b].available)
    BY <1>1, <1>2, <1>3, DepositsShift
  <2> QED
    BY <1>1, <2>1, <2>2, <2>3
<1>5. ledger'[b] = Append(ledger[b], entry) /\ \A a \in Accounts : a # b => ledger'[a] = ledger[a]
  BY <1>1, <1>2 DEF TopUp
<1>6. entry \in Entry
  <2>1. ledger[b] \in Seq(Entry) /\ Append(ledger[b], entry) \in Seq(Entry)
    BY <1>1, <1>2, <1>5
  <2> QED
    BY <2>1, AppendedIsTyped
<1>7. Given(entry) = u.amount
  BY DEF Given
<1> HIDE DEF entry
<1>8. IssuedTo(ledger') = IssuedTo(ledger) + Given(entry)
  BY <1>1, <1>2, <1>5, <1>6, IssuedShift
<1> QED
  BY <1>4, <1>7, <1>8

LEMMA NoMoney ==
    ASSUME BankInv, BankInv', UNCHANGED ledger,
           \A a \in Accounts : accounts'[a].available = accounts[a].available
    PROVE  Deposits(accounts') = Deposits(accounts) /\ IssuedTo(ledger') = IssuedTo(ledger)
<1>1. accounts \in [Accounts -> Row \cup {NoRow}] /\ accounts' \in [Accounts -> Row \cup {NoRow}]
  BY DEF BankInv, TablesTypeOK
<1> QED
  BY <1>1, DepositsSame

LEMMA DepositsStep ==
    BankInv /\ BankInv' /\ DepositsAreIssued /\ [BankNext]_tables => DepositsAreIssued'
<1> SUFFICES ASSUME BankInv, BankInv', DepositsAreIssued, [BankNext]_tables
             PROVE  DepositsAreIssued'
  OBVIOUS
<1>1. /\ DepositsAreIssued <=> Deposits(accounts) = IssuedTo(ledger)
      /\ DepositsAreIssued' <=> Deposits(accounts') = IssuedTo(ledger')
  BY DEF DepositsAreIssued, IssuedTo
<1>2. accounts \in [Accounts -> Row \cup {NoRow}]
  BY DEF BankInv, TablesTypeOK
<1>3. ASSUME NEW id \in Sessions, NEW o \in Orders, Move(id, o) PROVE DepositsAreIssued'
  BY <1>1, <1>3, MoveKeepsMoney, BankAssumption
<1>4. ASSUME NEW u \in TopUpOrders, TopUp(u) PROVE DepositsAreIssued'
  BY <1>1, <1>4, TopUpIssuesMoney
<1>5. ASSUME NEW b \in Accounts, NEW status \in Statuses, SetStatus(b, status)
      PROVE  DepositsAreIssued'
  <2>1. accounts' = [accounts EXCEPT ![b] = [@ EXCEPT !.status = status]] /\ accounts[b] \in Row
    BY <1>2, <1>5 DEF SetStatus
  <2>2. \A a \in Accounts : accounts'[a].available = accounts[a].available
    BY <1>2, <2>1 DEF Row
  <2> QED
    BY <1>1, <1>5, <2>2, NoMoney DEF SetStatus
<1>6. ASSUME NEW b \in Accounts, NEW currency \in Currencies, Open(b, currency)
      PROVE  DepositsAreIssued'
  <2>1. \A a \in Accounts : accounts'[a].available = accounts[a].available
    BY <1>2, <1>6 DEF Open, NoRow
  <2> QED
    BY <1>1, <1>6, <2>1, NoMoney DEF Open
<1>7. CASE UNCHANGED tables
  BY <1>1, <1>7 DEF tables
<1> QED
  BY <1>3, <1>4, <1>5, <1>6, <1>7, StatusOrdersTyped DEF BankNext

LEMMA DepositsInit == TablesInit => DepositsAreIssued
<1> SUFFICES ASSUME TablesInit PROVE Deposits(accounts) = IssuedTo(ledger)
  BY DEF DepositsAreIssued, IssuedTo
<1>1. accounts \in [Accounts -> Row \cup {NoRow}] /\ ledger \in [Accounts -> Seq(Entry)]
  BY BankInit DEF BankInv, TablesTypeOK
<1>2. ASSUME NEW a \in Accounts PROVE Issued(ledger[a]) = accounts[a].available
  <2>1. Issued(<<>>) = 0
    <3>1. {i \in DOMAIN <<>> : <<>>[i].transfer = None} = {}
      OBVIOUS
    <3> QED
      BY <3>1, SumEmpty DEF Issued
  <2>2. CASE Opening[a] = NoRow
    BY <2>1, <2>2 DEF TablesInit, NoRow
  <2>3. CASE Opening[a] # NoRow
    <3>1. ledger[a] = <<OpeningEntry(a)>> /\ accounts[a] = Opening[a]
      BY <2>3 DEF TablesInit
    <3>2. <<>> \in Seq(Entry) /\ Append(<<>>, OpeningEntry(a)) = <<OpeningEntry(a)>>
      OBVIOUS
    <3>3. <<OpeningEntry(a)>> \in Seq(Entry)
      BY <1>1, <3>1
    <3>4. OpeningEntry(a) \in Entry
      BY <3>2, <3>3, AppendedIsTyped
    <3>5. Given(OpeningEntry(a)) = accounts[a].available /\ accounts[a].available \in Int
      BY <1>1, <3>1, RowBalances DEF OpeningEntry, Given
    <3>6. Issued(Append(<<>>, OpeningEntry(a))) = Issued(<<>>) + Given(OpeningEntry(a))
      BY <3>2, <3>4, IssuedAppends, Zenon
    <3>7. Issued(ledger[a]) = Issued(<<>>) + Given(OpeningEntry(a))
      BY <3>1, <3>2, <3>6, Zenon
    <3> QED
      BY <2>1, <3>5, <3>7
  <2> QED
    BY <2>2, <2>3
<1>3. \A a \in Accounts : Available(accounts)[a] = GivenBy(ledger)[a]
  BY <1>1, <1>2, SumsTyped
<1> QED
  BY <1>3, SumSame, WhatTheSumsAre, TablesAssumption

\* No money comes into being or is lost: the balances add up to what the
\* seeder and the top-ups have credited.
THEOREM BankMoneyIsIssued == BankSpec => []DepositsAreIssued
BY DepositsInit, DepositsStep, BankCorrect, PTL DEF BankSpec
=============================================================================
