------------------------------- MODULE Reads -------------------------------
(***************************************************************************)
(* GET /accounts/:id/transfers and /accounts/:id/ledger-entries            *)
(* (accountController.ts), read page by page by clients that start at      *)
(* offset 0 and stop at the first page shorter than the limit they are     *)
(* told.                                                                   *)
(*                                                                         *)
(* A page takes three statements: the account, and then findAndCountAll,   *)
(* whose count and rows are two statements on two connections, in either   *)
(* order.  Rows are sorted by created_at alone, so rows of the same        *)
(* millisecond come in any order, in each query anew.                      *)
(***************************************************************************)
EXTENDS AtomicBank, Clock, SequencesExt

CONSTANTS
    Readers,       \* clients that walk through a list
    LimitQueries,  \* what parseInt makes of a `limit` parameter
    NaN,           \* no number, or no parameter
    DefaultLimit,  \* 20 in the code
    MaxLimit       \* 100 in the code

ASSUME ReadsAssumption ==
    /\ LimitQueries \subseteq Int \cup {NaN}
    /\ NaN \notin Int
    /\ MaxLimit \in Nat \ {0}
    /\ DefaultLimit \in 1..MaxLimit

VARIABLES
    stamp,    \* stamp[a][i]: created_at of ledger[a][i]
    rPc,      \* what each reader does next
    rList,    \* the list it walks through
    rLimit,   \* limit, as parsePagination returns it
    rOffset,  \* offset
    rTotal,   \* count of the current page, or None
    rPage,    \* rows of the current page, or None
    rBefore,  \* history: how many rows the list had when the page was asked for
    rOwed,    \* history: the rows the list had when the walk began
    rGot      \* the rows the reader has been given

readerVars == <<rPc, rList, rLimit, rOffset, rTotal, rPage, rBefore, rOwed, rGot>>

Lists == [of : {"transfers", "entries"}, account : Accounts]

ReadsInit ==
    /\ stamp = [a \in Accounts |-> [i \in DOMAIN ledger[a] |-> 0]]   \* the seeded rows are older
    /\ rPc = [r \in Readers |-> "idle"]
    /\ rList = [r \in Readers |-> CHOOSE l \in Lists : TRUE]
    /\ rLimit = [r \in Readers |-> 1]
    /\ rOffset = [r \in Readers |-> 0]
    /\ rTotal = [r \in Readers |-> None]
    /\ rPage = [r \in Readers |-> None]
    /\ rBefore = [r \in Readers |-> 0]
    /\ rOwed = [r \in Readers |-> {}]
    /\ rGot = [r \in Readers |-> {}]

\* Every step stamps the entries it inserts.  An account's entries are
\* inserted under its row lock, so their order is that of their stamps.
StampEntries ==
    stamp' = [a \in Accounts |->
        [i \in DOMAIN ledger'[a] |-> IF i \in DOMAIN stamp[a] THEN stamp[a][i] ELSE clock]]
-----------------------------------------------------------------------------
(***************************************************************************)
(* parsePagination, and the repositories' own clamp of its result.         *)
(***************************************************************************)

ClampLimit(n) == IF n < 1 THEN 1 ELSE IF n > MaxLimit THEN MaxLimit ELSE n

\* parseInt(...) || DEFAULT_LIMIT: 0 counts as absent.
ParseLimit(q) == ClampLimit(IF q = NaN \/ q = 0 THEN DefaultLimit ELSE q)

\* Mutated form of RepositoryLimit: it allows one row less.
RepositoryLimitLower(n) == IF n > 1 /\ n = MaxLimit THEN MaxLimit - 1 ELSE ClampLimit(n)

\* Math.min(Math.max(1, limit), 100)
RepositoryLimit(n) == ClampLimit(n)
-----------------------------------------------------------------------------
(***************************************************************************)
(* The queries.  A row is named by its position in ledger[a]: a transfer   *)
(* has one entry in each of its two accounts.                              *)
(***************************************************************************)

RowsOf(l) == {i \in DOMAIN ledger[l.account] :
                l.of = "entries" \/ ledger[l.account][i].transfer # None}

\* ORDER BY created_at DESC: the orders it allows.
Sorted(l) == {s \in SetToSeqs(RowsOf(l)) :
                \A i, j \in DOMAIN s : i < j => stamp[l.account][s[i]] >= stamp[l.account][s[j]]}

\* The rows that LIMIT and OFFSET leave of one of them.
Window(s, limit, offset) ==
    SubSeq(s, offset + 1, IF offset + limit > Len(s) THEN Len(s) ELSE offset + limit)

\* No other row of the list has the created_at of row i.
Untied(l, i) == \A j \in RowsOf(l) : stamp[l.account][i] = stamp[l.account][j] => i = j
-----------------------------------------------------------------------------
BeginWalk(r) ==
    /\ rPc[r] = "idle"
    /\ \E l \in Lists : /\ rList' = [rList EXCEPT ![r] = l]
                        /\ rOwed' = [rOwed EXCEPT ![r] = RowsOf(l)]
                        /\ rBefore' = [rBefore EXCEPT ![r] = Cardinality(RowsOf(l))]
    /\ \E q \in LimitQueries : rLimit' = [rLimit EXCEPT ![r] = ParseLimit(q)]
    /\ rPc' = [rPc EXCEPT ![r] = "find"]
    /\ UNCHANGED <<rOffset, rTotal, rPage, rGot>>

\* getById: 404 without the account.
FindListed(r) ==
    /\ rPc[r] = "find"
    /\ rPc' = [rPc EXCEPT ![r] = IF accounts[rList[r].account] = NoRow THEN "done" ELSE "list"]
    /\ UNCHANGED <<rList, rLimit, rOffset, rTotal, rPage, rBefore, rOwed, rGot>>

\* Mutated form of CountRows: the count of another page is kept.
CountRowsOnce(r) ==
    /\ rPc[r] = "list" /\ rTotal[r] = None
    /\ rTotal' = [rTotal EXCEPT ![r] = Cardinality(rOwed[r])]
    /\ UNCHANGED <<rPc, rList, rLimit, rOffset, rPage, rBefore, rOwed, rGot>>

\* SELECT count(*)
CountRows(r) ==
    /\ rPc[r] = "list" /\ rTotal[r] = None
    /\ rTotal' = [rTotal EXCEPT ![r] = Cardinality(RowsOf(rList[r]))]
    /\ UNCHANGED <<rPc, rList, rLimit, rOffset, rPage, rBefore, rOwed, rGot>>

\* SELECT ... ORDER BY created_at DESC LIMIT ... OFFSET ...
FetchRows(r) ==
    /\ rPc[r] = "list" /\ rPage[r] = None
    /\ \E s \in Sorted(rList[r]) :
          rPage' = [rPage EXCEPT ![r] = Window(s, RepositoryLimit(rLimit[r]), rOffset[r])]
    /\ UNCHANGED <<rPc, rList, rLimit, rOffset, rTotal, rBefore, rOwed, rGot>>

\* The answer, with meta.limit, and the client's next request if it was full.
AnswerPage(r) ==
    /\ rPc[r] = "list" /\ rTotal[r] # None /\ rPage[r] # None
    /\ rGot' = [rGot EXCEPT ![r] = @ \cup ToSet(rPage[r])]
    /\ IF Len(rPage[r]) < rLimit[r]
       THEN rPc' = [rPc EXCEPT ![r] = "done"] /\ UNCHANGED <<rOffset, rBefore>>
       ELSE /\ rPc' = [rPc EXCEPT ![r] = "find"]
            /\ rOffset' = [rOffset EXCEPT ![r] = @ + rLimit[r]]
            /\ rBefore' = [rBefore EXCEPT ![r] = Cardinality(RowsOf(rList[r]))]
    /\ rTotal' = [rTotal EXCEPT ![r] = None]
    /\ rPage' = [rPage EXCEPT ![r] = None]
    /\ UNCHANGED <<rList, rLimit, rOwed>>

ReadStep(r) == BeginWalk(r) \/ FindListed(r) \/ CountRows(r) \/ FetchRows(r) \/ AnswerPage(r)
-----------------------------------------------------------------------------
\* A client that reads page after page is given every row the list had when
\* it began, however many are inserted meanwhile: new rows come first and push
\* the others to later pages.  Only rows of the same millisecond may change
\* places and be missed (TransferRepository.ts:65, LedgerEntryRepository.ts:73).
WalkMissesNothing ==
    \A r \in Readers : rPc[r] = "done" /\ accounts[rList[r].account] # NoRow =>
        \A i \in rOwed[r] : Untied(rList[r], i) => i \in rGot[r]

\* The rows of a page of a list of n rows.
PageLength(r, n) ==
    IF n <= rOffset[r] THEN 0 ELSE IF n - rOffset[r] < rLimit[r] THEN n - rOffset[r] ELSE rLimit[r]

\* meta.total and the rows come from two statements, so they may disagree; but
\* each is true of the list at some moment of this request, so that they differ
\* by no more than the rows inserted during it, and agree if there were none
\* (TransferRepository.ts:58, LedgerEntryRepository.ts:66).
PageFitsTotal ==
    \A r \in Readers : rTotal[r] # None /\ rPage[r] # None =>
        LET now == Cardinality(RowsOf(rList[r]))
        IN  /\ rTotal[r] \in rBefore[r]..now
            /\ \E n \in rBefore[r]..now : Len(rPage[r]) = PageLength(r, n)
=============================================================================
