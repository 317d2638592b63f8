----------------------------- MODULE AtomicBank -----------------------------
(***************************************************************************)
(* What the service promises of its tables, with no transaction, lock,     *)
(* retry or failure in sight: every operation happens in one step, on      *)
(* exact amounts.  TransferApi implements this specification as long as    *)
(* no body names one account by two spellings and every amount is one a    *)
(* column can hold.                                                        *)
(***************************************************************************)
EXTENDS Tables

CONSTANTS
    Orders,       \* the transfers that may be asked for
    TopUpOrders,  \* the top-ups that may be asked for
    StatusOrders  \* the status changes that may be asked for

Amount == {x \in Nat \ {0} : IsWhole(x)}

Order == [source : Accounts, destination : Accounts, amount : Amount,
          currency : Currencies, reference : References]

ASSUME BankAssumption ==
    /\ Orders \subseteq Order
    /\ TopUpOrders \subseteq [account : Accounts, amount : Amount]
    /\ StatusOrders \subseteq [account : Accounts, status : Statuses]

\* Mutated form of Adjusted: one balance is forgotten.
AdjustedAvailable(a, delta) == [accounts[a] EXCEPT !.available = @ + delta]

\* The row of a with delta added to both of its balances.
Adjusted(a, delta) == [accounts[a] EXCEPT !.available = @ + delta, !.ledger = @ + delta]

\* The columns of a are wide enough for it.
Holds(a, delta) == /\ accounts[a].available + delta \in (-MaxNumeric)..MaxNumeric
                   /\ accounts[a].ledger + delta \in (-MaxNumeric)..MaxNumeric

\* The business rules: two different ACTIVE accounts of the order's currency,
\* and enough money.
RulesAllow(o) ==
    /\ o.source # o.destination
    /\ \A a \in {o.source, o.destination} :
          accounts[a].status = "ACTIVE" /\ accounts[a].currency = o.currency
    /\ accounts[o.source].available >= o.amount

\* A transfer the rules allow, under a reference and an id never used before.
Move(id, o) ==
    /\ \A t \in transfers : t.id # id /\ t.reference # o.reference
    /\ RulesAllow(o)
    /\ Holds(o.source, -o.amount) /\ Holds(o.destination, o.amount)
    /\ accounts' = [accounts EXCEPT ![o.source] = Adjusted(o.source, -o.amount),
                                    ![o.destination] = Adjusted(o.destination, o.amount)]
    /\ transfers' = transfers \cup
            {[id |-> id, reference |-> o.reference, source |-> o.source,
              destination |-> o.destination, amount |-> o.amount, currency |-> o.currency]}
    /\ ledger' = [ledger EXCEPT
            ![o.source] = Append(@, [transfer |-> id, type |-> "DEBIT", amount |-> o.amount,
                              balance_after |-> accounts[o.source].available - o.amount]),
            ![o.destination] = Append(@, [transfer |-> id, type |-> "CREDIT", amount |-> o.amount,
                              balance_after |-> accounts[o.destination].available + o.amount])]
    /\ audit' = audit \cup
            {[transfer |-> id,
              source_before |-> accounts[o.source].available,
              source_after |-> accounts[o.source].available - o.amount,
              dest_before |-> accounts[o.destination].available,
              dest_after |-> accounts[o.destination].available + o.amount]}

TopUp(u) ==
    /\ accounts[u.account].status = "ACTIVE"
    /\ Holds(u.account, u.amount)
    /\ accounts' = [accounts EXCEPT ![u.account] = Adjusted(u.account, u.amount)]
    /\ ledger' = [ledger EXCEPT ![u.account] =
            Append(@, [transfer |-> None, type |-> "CREDIT", amount |-> u.amount,
                       balance_after |-> accounts[u.account].available + u.amount])]
    /\ UNCHANGED <<transfers, audit>>

SetStatus(a, status) ==
    /\ accounts[a] # NoRow
    /\ accounts' = [accounts EXCEPT ![a].status = status]
    /\ UNCHANGED <<transfers, ledger, audit>>

Open(a, currency) ==
    /\ accounts[a] = NoRow
    /\ accounts' = [accounts EXCEPT ![a] = [available |-> 0, ledger |-> 0,
                                            currency |-> currency, status |-> "ACTIVE"]]
    /\ UNCHANGED <<transfers, ledger, audit>>

BankNext ==
    \/ \E id \in Sessions : \E o \in Orders : Move(id, o)
    \/ \E u \in TopUpOrders : TopUp(u)
    \/ \E r \in StatusOrders : SetStatus(r.account, r.status)
    \/ \E a \in Accounts : \E currency \in Currencies : Open(a, currency)

BankSpec == TablesInit /\ [][BankNext]_tables
-----------------------------------------------------------------------------
\* The invariant of the bank: every promise of the tables, in one inductive
\* conjunction.
BankInv ==
    /\ TablesTypeOK
    /\ BalanceMatchesLedger
    /\ LedgerChain
    /\ NoOverdraft
    /\ UniqueReference
    /\ DoubleEntry
    /\ AuditAgreesWithLedger
    /\ \A t, u \in transfers : t.id = u.id => t = u
    /\ \A t \in transfers : t.source # t.destination
=============================================================================
