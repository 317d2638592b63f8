---------------------------- MODULE MCTransferApi ----------------------------
(***************************************************************************)
(* A small instance of TransferApi: two transfers, a top-up and a status   *)
(* change over three accounts, one of which does not exist at first.       *)
(***************************************************************************)
EXTENDS TransferApi, TLC

CONSTANTS t1, t2, c1, u1

MCTransfers == {t1, t2}
OneTransfer == {t1}
MCPatches == {c1}
MCTopUps == {u1}
MCSessions == MCTransfers \cup MCPatches \cup MCTopUps
FewSessions == OneTransfer \cup MCPatches \cup MCTopUps
ApiSymmetry == Permutations(MCTransfers)

Units(n) == n * Quantum

MCAccounts == 1..3
MCOpening == <<[available |-> Units(5), ledger |-> Units(5), currency |-> "NGN", status |-> "ACTIVE"],
               [available |-> Units(5), ledger |-> Units(5), currency |-> "NGN", status |-> "ACTIVE"],
               NoRow>>
OneSpelling == <<1, 2, 3>>
MCMaxNumeric == Units(11)

Ordered(from, to, n, ref) == [source |-> from, destination |-> to, amount |-> Units(n),
                              currency |-> "NGN", reference |-> ref]

\* The second needs the first or the top-up; the third, under the reference
\* of the first, moves into an account that has to be created.
MCBodies == {Ordered(1, 2, 4, "r1"), Ordered(2, 1, 6, "r2"), Ordered(2, 3, 1, "r1")}

\* One top-up fits unless the first transfer has filled the account.
MCTopUpBodies == {[id |-> 2, amount |-> Units(3)], [id |-> 3, amount |-> Units(3)]}

MCPatchBodies == {[id |-> 2, status |-> "FROZEN"]}
=============================================================================
