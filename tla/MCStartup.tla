----------------------------- MODULE MCStartup -----------------------------
(***************************************************************************)
(* Small instances of Startup.                                             *)
(***************************************************************************)
EXTENDS Startup

CONSTANTS i1, i2, s1

Units(n) == n * Quantum

\* Two demo accounts and one that a request creates.
MCAccounts == 1..3
MCOpening == <<[available |-> Units(2), ledger |-> Units(2), currency |-> "NGN", status |-> "ACTIVE"],
               [available |-> Units(2), ledger |-> Units(2), currency |-> "NGN", status |-> "ACTIVE"],
               NoRow>>
MCMaxNumeric == Units(3)

\* From one demo account to the other, and to the third account.
MCOrders == [source : {1}, destination : {2, 3}, amount : {Units(1)}, currency : {"NGN"},
             reference : {"r1"}]
MCTopUpOrders == {[account |-> 1, amount |-> Units(1)]}
MCStatusOrders == {[account |-> 2, status |-> "FROZEN"]}

AnyPc == Pcs \ {"down"}
ListeningPc == {"listening"}
=============================================================================
