-------------------------- MODULE MCTransferService --------------------------
(***************************************************************************)
(* Small instances of TransferService.  Amounts are written in units of    *)
(* 0.0001, a whole number of quanta each.                                  *)
(***************************************************************************)
EXTENDS TransferService, TLC

CONSTANTS p1, p2, p3

Units(n) == n * Quantum

MCRequests == {p1, p2, p3}
TwoRequests == {p1, p2}
RequestSymmetry == Permutations(MCRequests)


Account(n, status) == [available |-> Units(n), ledger |-> Units(n),
                       currency |-> "NGN", status |-> status]

Transfers(from, to, n, ref) == [source |-> from, destination |-> to, amount |-> Units(n),
                                currency |-> "NGN", reference |-> ref]
-----------------------------------------------------------------------------
(***************************************************************************)
(* One spelling per account.  Account 4 is almost at the width of its      *)
(* column, account 5 does not exist.                                       *)
(***************************************************************************)
MCAccounts == 1..5
MCOpening == <<Account(10, "ACTIVE"), Account(10, "ACTIVE"), Account(10, "ACTIVE"),
               Account(28, "ACTIVE"), NoRow>>
MCMaxNumeric == Units(30)
OneSpelling == <<1, 2, 3, 4, 5>>

\* Two opposite transfers, one of which needs the other's money; a second
\* body for reference r1 on other accounts; one that overflows its
\* destination; and two that break a rule.
MCBodies == {Transfers(1, 2, 6, "r1"),
             Transfers(2, 1, 15, "r2"),
             Transfers(3, 4, 1, "r1"),
             Transfers(1, 4, 6, "r3"),
             Transfers(2, 5, 1, "r3"),
             [Transfers(3, 1, 1, "r2") EXCEPT !.currency = "USD"]}

AllFaults == FaultKinds
NoFaults == {}

\* The same request twice, for more than half of what the source holds.
OneBody == {Transfers(1, 2, 6, "r1")}

\* Half of the smallest amount a column keeps.
HalfUnitBody == {[Transfers(1, 2, 6, "r1") EXCEPT !.amount = Quantum \div 2]}
-----------------------------------------------------------------------------
(***************************************************************************)
(* Three accounts and two spellings of each: PostgreSQL prints 4, 5 and 6, *)
(* and 1, 2 and 3 are the same ids in capitals, which JavaScript sorts     *)
(* before them.                                                            *)
(***************************************************************************)
SpelledAccounts == 4..6
Spellings == 1..6
TwoSpellings == <<4, 5, 6, 4, 5, 6>>
SpelledOpening == [a \in SpelledAccounts |-> Account(10, "ACTIVE")]

\* They lock 5 then 4, 4 then 6, and 6 then 5: a cycle of three.
SpelledBodies == {Transfers(4, 2, 1, "r1"), Transfers(6, 4, 1, "r2"), Transfers(5, 3, 1, "r3")}

\* They lock 5 then 4, and 4 then 5.
OppositeBodies == {Transfers(4, 2, 1, "r1"), Transfers(5, 4, 1, "r2")}

\* From account 4 to account 4.
SelfBody == {Transfers(4, 1, 6, "r1")}

\* One transfer whose destination is spelled in capitals.
CapitalBody == {Transfers(4, 2, 1, "r1")}
=============================================================================
