----------------------------- MODULE MCClients -----------------------------
(***************************************************************************)
(* A small instance of Clients.                                            *)
(***************************************************************************)
EXTENDS Clients

CONSTANTS s1, s2, s3, b1, b2, rd, r1, r2

Units(n) == n * Quantum

MCAccounts == 1..3
MCOpening == <<[available |-> Units(3), ledger |-> Units(3), currency |-> "NGN", status |-> "ACTIVE"],
               [available |-> Units(1), ledger |-> Units(1), currency |-> "NGN", status |-> "ACTIVE"],
               NoRow>>
MCMaxNumeric == Units(4)

MCOrders == [source : {1, 2}, destination : {2, 3}, amount : {Units(1), Units(3)},
             currency : {"NGN"}, reference : {r1, r2}]
MCTopUpOrders == [account : {1, 3}, amount : {Units(1)}]
MCStatusOrders == [account : {2}, status : {"ACTIVE", "FROZEN"}]

\* One transfer each way, the second funded only by the first; one each way
\* between the same accounts, other bodies under the same references, the
\* second seldom funded; and two and one with an account that is not there at
\* first.
MCDemoBodies == {[source |-> 1, destination |-> 2, currency |-> "NGN",
                  count |-> [a2b |-> 1, b2a |-> 1], amount |-> [a2b |-> Units(1), b2a |-> Units(2)]],
                 [source |-> 2, destination |-> 1, currency |-> "NGN",
                  count |-> [a2b |-> 1, b2a |-> 1], amount |-> [a2b |-> Units(1), b2a |-> Units(4)]],
                 [source |-> 1, destination |-> 3, currency |-> "NGN",
                  count |-> [a2b |-> 2, b2a |-> 1], amount |-> [a2b |-> Units(1), b2a |-> Units(1)]]}
MCTasks == [batch : Batches, direction : Directions, index : 0..1]
MCSessions == Others \cup MCTasks
MCReferences == {r1, r2} \cup [at : 1..MaxClock, direction : Directions, index : 0..1]

\* No parameter, 0, a negative number, one in range and one above it.
MCLimitQueries == {NaN, 0, -1, 1, 3}

\* Batches are alike: who comes is chosen once, and nothing else tells them apart.
BatchSymmetry == Permutations({b1, b2})

MCCasts == {{b1, b2}, {b1, s1}, {rd, b1}, {rd, s1, s2}, {s1, s2, s3}}
=============================================================================
