# A TLA+ model of stellas-transfer-service

The service is an Express application over PostgreSQL (Sequelize) that moves
money between business accounts. This directory holds its formal model: TLA+
modules translated from the TypeScript under `src/src/`, the TLC runs that check
them on small instances, and proofs, checked by TLAPS, that hold for every
instance. Paths below are relative to the repository root, `src/`; the code
itself lives in `src/src/`.

- [1. The system](#1-the-system)
- [2. The modules](#2-the-modules-and-how-they-correspond-to-the-code)
- [3. The properties](#3-the-properties)
- [4. The runs](#4-the-runs-their-bounds-and-what-they-show)
- [5. Fairness](#5-fairness)
- [6. What is proved](#6-what-is-proved)
- [7. Where the code and its documentation disagree](#7-where-the-code-and-its-documentation-disagree)
- [8. What is not modelled](#8-what-is-not-modelled)
- [9. Plan](#9-plan)
- [10. Running it](#10-running-it)

## 1. The system

### Components

| Component | State it keeps | Operations | What makes it correct |
|---|---|---|---|
| **Transfer execution**, `services/TransferService.ts` | Per request: the body, the loop counter, the two locked rows, the error in hand. Shared: everything in PostgreSQL. | `executeTransfer`: look the reference up, then in one transaction lock both rows, check the rules, insert the transfer, update both balances, insert two ledger entries and an audit row, commit; retry deadlocks, resolve unique violations | All or nothing; no lost update; no overdraft; one transfer per reference; a truthful answer; nothing left locked; everybody answered |
| **Account status**, `services/AccountService.ts`, `AccountRepository.updateStatus` | None of its own | Read, `UPDATE`, read again | A status change never slips between a transfer's check and its commit, and is not undone by one |
| **Test endpoints**, `services/TestHelpersService.ts` | As a transfer, for one account | `createAccount`; `topUpBalance` (lock, update, entry, commit, read back) | Balance and ledger agree; an answer says whether the money was added |
| **Repositories**, `repositories/*.ts` | None | One or two SQL statements each | `updateBalances` reads, adds in JavaScript, writes back: safe only under a row lock |
| **PostgreSQL** (external) | Four tables, row locks, open transactions | READ COMMITTED reads, `FOR UPDATE`, unique index, `COMMIT`, `ROLLBACK`, deadlock detection | – |
| **Validation**, `types/*.ts`, `middlewares/validate*.ts` | None | Lets a body through or answers 400 | What it lets through decides which inputs the services see |
| **Error handling**, `middlewares/errorHandler.ts` | None | Maps an error to a status and a code | Business error or 500 |
| **Read endpoints**, `controllers/accountController.ts`, `transferReadController.ts` | None | `getById`, lookups, paginated lists (a count and a page, two statements) | Page after page misses nothing; the total is a count of the list |
| **Concurrency demo**, `controllers/concurrencyDemoController.ts` | Per request: the balances read, the transfers running, the results | Two reads, a batch of transfers with `Promise.all` under references made from the clock, two reads | Its report is of its own transfers, and spans them |
| **Start-up, migrations and seeding**, `index.ts`, `database/` | `SequelizeMeta`, the schema, the demo rows | Connect, migrate, delete and insert the demo rows, listen; any error ends the process and Docker restarts it | Who listens has a complete schema and sound tables; restarts get there |
| **Connection pool**, `config/database.ts` | At most ten connections | Acquire (30 s), release | Nobody who holds one waits for another |
| Configuration, logging, API docs | Constants | – | – |

### How they interact

A request passes validation, reaches a controller and then a service. The
services share no memory: they meet only in the database. Node runs one thread,
and a request gives it up at each `await`; every `await` on a write path is a
call to PostgreSQL. So the system is a set of sequential processes, one for each
HTTP request, whose steps are single SQL statements, interleaved in any order
PostgreSQL's locks permit. Several instances of the service behave like one with
more requests.

### What is hard

* **Interleaving.** Two transfers of one account; opposite transfers (lock
  order); two copies of one request; a status change or a top-up in the middle of
  a transfer.
* **Stale data.** Rules are checked on rows read before five more statements;
  `balance_after` and the audit row are computed from them;
  `updateBalances` is a read and a write.
* **Partial failure.** Any of nine statements can fail; `COMMIT` can take effect
  and lose its answer; `ROLLBACK` can fail; the process can die. The catch block
  has five ways out.
* **Retries.** The loop over deadlocks; clients that send a request again.
* **Numbers.** JavaScript numbers against `DECIMAL(20, 4)`: rounding and overflow.
* **Time.** Rows and demo references are stamped in milliseconds, and two things can
  happen in one.
* **Restarts.** Migrations and seeder are sequences of statements with no transaction
  around them; several instances may run them at once, be killed between any two, and
  meet the traffic of those that already listen.
* **Names.** A UUID may be spelled in either letter case; JavaScript compares the
  spelling and PostgreSQL the value.

`PROJECT.json` lists these hazards one by one, each at its line, with the
properties that would catch it going wrong.

## 2. The modules, and how they correspond to the code

```
Money ── Tables ─┬─ Postgres ── Handlers ─┬─ TransferService ────┐
                 │                        ├─ AccountService ─────┼─ TransferApi
                 │                        └─ TestHelpersService ─┘      │ refines
                 └─ AtomicBank  <───────────────────────────────────────┘
                        ├─ Reads ──┬─ Clients
             Clock ─────┼─ Demo ───┘
                        └─ Seeding ──┬─ Startup
                      Migrations ────┘
```

The upper half is the write side in full detail. It implements AtomicBank; the lower
half stands on that: what takes a client many requests or many statements (walking
through a list, a demo batch, starting the service) runs beside writes that are one
step each.


* **Money**: the money columns. `ToNumeric` is the rounding of the assignment
  cast to `DECIMAL(20, 4)` (half away from zero) and `Fits` is the error 22003.
  Values are counts of quarters of 0.0001, so a request can carry an amount finer
  than a column, as the schema allows (`z.number().positive()`).
* **Tables**: the committed content of `accounts`, `transfers`,
  `ledger_entries` and `audit_logs`, the seeded start, and what the tables promise
  together. Ledger entries are kept as a sequence for each account; a transfer's
  id is the session that created it (a session commits at most one transfer).
* **Postgres**: the database as the services use it. `tables` holds committed data
  only; `pend[s]` is what the open transaction of session `s` has written,
  `Visible(s, a)` what it reads; `lock[a]` is the row lock. `Commit(s)` moves
  `pend[s]` to the tables and releases the locks in one step; `Abort(s)` drops it.
  An insert waits for the uncommitted insert of the same reference
  (`InsertersOf`), as the unique index makes it.
* **Handlers**: what the request handlers share. An id in a body is a
  *spelling*; spellings are numbers in the order JavaScript sorts them,
  `Uuid[i]` is the account that spelling names, and the stored form of an account is
  one of its spellings. With `Uuid` the identity, every client spells ids as
  PostgreSQL prints them. `Faults` chooses which failures happen.
* **TransferService**: `executeTransfer`. One action for each awaited call, with the
  synchronous code up to the next one:

  | Code (`TransferService.ts`) | Action |
  |---|---|
  | 36–41 arrival, `SAME_ACCOUNT` | `Receive` |
  | 43–50 `findByReference` | `Lookup` |
  | 56 `getTransaction` | `Begin` |
  | 60–61 / 62–88 lock rows, then the rules | `LockFirst` / `LockSecond` |
  | 90–99 insert the transfer | `InsertTransfer` |
  | 101–112, each `updateBalances` a read and a write | `DebitRead`, `DebitWrite`, `CreditRead`, `CreditWrite` |
  | 117–135 `createMany` | `InsertEntries` |
  | 137–151 audit row | `InsertAudit` |
  | 153 commit, 154 answer | `CommitTransfer`, `Respond` |
  | 155–176 catch: rollback, then retry, look up, or throw | `Rollback` |
  | 164–171 second lookup | `Relookup` |

  `tPc` is the call the request makes next, `tSeen` the two locked rows, `tRead` the
  row `updateBalances` has read, `tOutcome` the error being handled and then the
  answer. The failures are actions of their own: a statement that throws
  (`StatementFails`), a call outside the `try` (`CallFails`, which is also a pool
  timeout in `getTransaction`), a `COMMIT` that throws after or before it took
  effect (`CommitFails`), a `ROLLBACK` that throws (`RollbackFails`), the end of the
  process (`Crash`, for one request at a time: a process that dies with several
  requests is a sequence of these), and PostgreSQL's choice of a deadlock victim
  (`DeadlockVictim`).
* **AccountService**: `updateStatus` as its three statements. The `UPDATE` is two
  steps, since it has a connection (`SendUpdate`) while it waits for the row
  (`UpdateStatus`).
* **TestHelpersService**: `createAccount`, and `topUpBalance` with every error
  path, including the read after the commit (46–48), whose failure is answered 500
  although the money was added.
* **TransferApi**: the four write endpoints at once over one database and one
  connection pool. Only here can a status change meet a transfer. `Connected` is who
  holds a connection, and a call that needs one (`Acquires`) waits until fewer than
  `PoolSize` are out; that it may give up waiting is `CallFails` and its counterparts.
* **AtomicBank**: the abstract specification. Each operation is one step on exact
  amounts, with no transaction, lock, retry or failure. `TransferApi` implements it
  (`ImplementsAtomicBank`): under `Bank`, a transfer or top-up happens at its
  `COMMIT`, a status change at its `UPDATE`, an account at its `INSERT`, and every
  other step of any request is a stutter. The refinement mapping is the identity
  on the tables; the orders of the bank are the bodies with each spelling replaced
  by the account it names.
* **Clock**: milliseconds. Any number of steps happen within one.
* **Reads**: the two paginated lists, read by clients that start at offset 0 and stop at
  the first page shorter than the limit they are told. A page is the account, then a
  count and a page of rows in either order (`CountRows`, `FetchRows`); the rows are in any
  order `ORDER BY created_at DESC` allows (`Sorted`), and the limit goes through
  `parsePagination` (`ParseLimit`, in which 0 counts as absent) and through the
  repository's own clamp (`RepositoryLimit`). `stamp` is `created_at`.
* **Demo**: `POST /demo/concurrent-transfers`. The two reads before, the references (a record of
  the time, the direction and the index), every transfer of the `Promise.all` ending on its
  own, the two reads after. A transfer of the batch is a call of `executeTransfer`, taken by
  what it promises (`TaskStep`): it moves the money, finds its reference, is refused or
  fails, and a failure may have moved the money.
* **Clients**: readers, batches and other requests together. `Casts` says who comes.
* **Migrations**: `sequelize-cli db:migrate`: read what is not recorded, then for each
  migration send its statements and record it. A statement is `repeatable`
  (`IF NOT EXISTS`, `ALTER COLUMN`) or `once` (`CREATE INDEX`).
* **Seeding**: the four statements of the seeder, with the foreign keys that can refuse them.
* **Startup**: `start()` of `index.ts` for any number of instances over one database: each
  connects, migrates, seeds if it is one of the `Seeders`, and listens; a refused
  statement ends it (`down`) and it is started again; `Exit` ends it from outside,
  anywhere. `Request` is what the listening ones serve meanwhile.
* **MC…**: small instances for TLC. **…Proofs**: the theorems (section 6).

Some modules contain a definition headed "Mutated form of …": the operator above
or below it with a plausible bug (a missing lock, an off-by-one in the retry, a
rollback that leaves the rows locked). Nothing uses them; each is what a property is
tested against: with it in place of the real operator, the run must fail.
`PROJECT.json` lists, for every checked property, the mutation it catches.

## 3. The properties

Of the tables (module Tables), promised by the abstract bank and by the services:

* `BalanceMatchesLedger`: both balances of an account are its newest `balance_after`.
* `LedgerChain`: replaying the entries from zero gives every `balance_after`; an
  entry computed from a stale row breaks it.
* `DoubleEntry`: every transfer has exactly one DEBIT and one CREDIT, and no entry
  names a transfer that did not commit.
* `AuditAgreesWithLedger`: the audit row records the balances its entries moved between.
* `NoOverdraft`, `UniqueReference`.
* `DepositsAreIssued`: the balances of all accounts add up to the CREDITs that belong to no
  transfer, those of the seeder and of top-ups. `Conservation` (TransferService) is the same of
  transfers alone: the sum of the balances is the seeded one.
* `AppendOnly`, `OnlyActiveAccountsMove`: action properties. The second relates a
  transfer's commit to the statuses at that moment, whatever a PATCH does.

Of the answers and the protocol (module TransferService):

* `SuccessIsDurable`: an answer 200 names a committed transfer that is the one asked for.
* `RefusalsAreDue`: a request refused for a status, a currency or a balance breaks that rule on
  the rows as they are committed, until its rollback; neither of the two rows is out of date,
  though one is read a statement before the other. `ACCOUNT_NOT_FOUND` is excepted: a missing
  row cannot be locked, and the account may be created meanwhile.
* `RejectionLeavesNoTrace`: a business error means that no money moved; a 500 does not.
* `NothingHeldOutsideTransaction`: on each path through the catch block the request
  holds neither lock nor write once its transaction is over.
* `UniqueConflictFindsWinner`: the loser of a race for a reference always finds the
  winner, so the rethrow at line 173 is unreachable.
* `NoWaitCycle`, `NoFalseConflict`, `DuplicateGetsWinner`: hold or fail depending on
  the inputs; see sections 4 and 7.
* `NoDeadlock` (TransferApi): of any set of requests, of whatever kinds, one can go on without
  waiting for another of the set: for a row, for an uncommitted insert, or for a connection,
  when the set has them all. `NoWaitCycle` is about transfers, rows and inserts only.
* `EveryRequestAnswered`, `EveryApiRequestAnswered`: liveness.
* `TopUpsAreCounted` (TransferApi): how many top-up entries an account has is bounded
  by the answers: at least the 200s, at most those plus the requests that were cut off.

* `PatchShowsSetStatus` (TransferApi): the status shown to a PATCH client is one that a
  PATCH has set. The `UPDATE` waits for the transfer that holds the row; if it did not,
  that transfer would write the old status back with the balances. It may be another client's:
  the code reads it back after its own `UPDATE` and promises no more.

Of what clients see (modules Reads and Demo):

* `WalkMissesNothing`: a walk through a list returns every row that was there when it
  began, though rows are inserted in front of it between the pages. It excepts rows
  that share their millisecond with another: `ORDER BY created_at` leaves their order
  open, and two pages may disagree.
* `PageFitsTotal`: the total and the rows of a page come from two statements; each is that of
  the list at some moment of the request, so they differ by no more than was inserted during it.
* `ResultsAreTrue`: what a batch reports as completed is stored with the body that was asked
  for. Two batches of one millisecond share references and may be told of each other's
  transfers; a batch alone in its millisecond reports its own, and no conflicts.
* `NothingAfterTheAnswer`: once a batch is answered, even with 500 because a read after it has
  failed, none of its transfers moves money any more.
* `ReportSpansItsTransfers`: the balances of a report are ones the accounts had, before
  and after everything the batch moved, whatever others did meanwhile.

Of starting (module Startup):

* `ListeningHasSchema`: who listens has every statement of every migration.
* `NamedAccountsExist`: no transfer or entry names an account that does not exist.
* `SeederVouches`: an instance that has seeded listens over tables that keep every promise
  of section 3, wherever earlier seedings were cut off and whatever was served meanwhile.
* `ReferencedNeverReseeds`: once a transfer names a demo account, an instance that seeds
  never comes up again after it has gone down.
* `CutOffNeverListens`: once a process has ended between a `CREATE INDEX` and the record of its
  migration (`CutOff`), an instance that goes down never comes up again either.
* `EveryStartSettles`: every start gets to listen, in the end, unless a migration was cut off
  after a `CREATE INDEX` or the seeder can no longer run (`Wedged`). `EveryStartListens` is
  the same with no exception, and false; see section 7.

## 4. The runs, their bounds, and what they show

| Run | Instance | Result |
|---|---|---|
| `transfers` | 3 concurrent transfers, 6 bodies, 5 accounts, every failure, one spelling per account, whole amounts; 308,290 distinct states up to symmetry, depth 40 | every table and answer property holds |
| `api` | 2 transfers, a top-up, a PATCH, account creation; failed commits and crashes; as many connections as requests; 516,097 states, depth 43 | implements AtomicBank; only ACTIVE accounts move; money is what was issued; refusals are for what the accounts are; answers account for top-ups; no status comes back |
| `api_liveness` | one request at each write endpoint, every failure, two connections for the three of them; 48,280 states | no set of them waits only for itself, and each is answered |
| `mixed_spellings` | 3 transfers over 3 accounts with 2 spellings each, no other failure; 90,658 states, depth 67 | deadlocks happen, and the retry releases everything, reads afresh, stops, and answers |
| `atomic_bank` | 3 accounts, 2 milliseconds; two batches, or a batch and a request, or a reader and a batch, or a reader and two requests, or three requests; 1,457,267 distinct states up to symmetry, depth 26 | `BankInv` holds under all of it; batches are told what was made, and are over when answered; reports are sound; walks miss nothing; pages fit their totals |
| `startup` | 2 instances, of which one seeds, from an empty database; 2 exits, anywhere; transfers, top-ups, status changes and new accounts meanwhile; 44,833 states | every property of starting holds |
| `spelling_deadlock` | 2 opposite transfers, one id in capitals | `NoWaitCycle` **violated** |
| `spelling_conflict` | the same body twice, one id in capitals | `NoFalseConflict` **violated** |
| `spelling_self` | one account under two spellings as source and destination | `BalanceMatchesLedger` **violated** |
| `duplicate` | the same body twice, at once | `DuplicateGetsWinner` **violated** |
| `half_unit` | an amount of half a 0.0001 | `LedgerChain` **violated** |
| `reseed` | one instance, stopped once while it serves | `EveryStartListens` **violated** |

Why the bounds suffice.

* *Three transfers.* A lost update, a lock cycle, a race for a reference and a stale
  check each need two. The third is the bystander that commits in between, waits
  behind both, or makes the cycle one of three (`mixed_spellings`). More requests
  add more of the same: requests are interchangeable (which is why the symmetry over
  them is sound: no property distinguishes them, and the runs that check liveness
  use none).
* *Bodies.* The six of `transfers` are: two opposite transfers, of which one can
  only be funded by the other; a second body under the first's reference; one that
  overflows its destination, directly and in company; a missing account; a wrong
  currency. Statuses other than ACTIVE come from the PATCH of `api`.
* *Money.* Columns are 30 units wide instead of 10^20 (11 and 4 in the other
  instances) and one account starts close to the limit, so that overflow happens.
* *Attempts.* `MaxDeadlockRetries` is the code's 3, not a bound of the model. In
  `mixed_spellings` a request can exhaust them and is answered 500: a freed lock goes to
  any session that asks, where PostgreSQL prefers the one that has waited, so the model
  allows more retries than the database.
* *Faults.* `api` takes the failures that change what is committed: a lost answer
  to `COMMIT` and a crash. The others end in the same aborts and are all in
  `transfers` and `api_liveness`.

* *Connections.* `api_liveness` has two for three requests: one can hold a row
  and one can wait for it, and then nothing is left. A statement that needed a third in the
  middle of the first transaction would stop everything; such a statement is the mutation both
  properties of the run are tested against. `api` has
  four, so that the pool excludes no interleaving there.
* *Casts, clock, pages* (`atomic_bank`). Sharing a millisecond needs two batches, and answering
  with another's transfer needs two that ask for different ones; a report or
  a walk that others overlap needs one or two of those. The two batches are interchangeable
  (`BatchSymmetry`): only the initial choice of the cast names them. Default and largest limit are
  both 2 instead of 20 and 100, so that lists of two to four rows take several pages; the
  `limit` parameters are absent, 0, negative, in range and above it. `MaxClock` is 2: equal and
  different stamps.
* *Starting.* `MaxExits` is 2 and an exit may come between any two statements
  (`ExitPcs`), in a start and again in the one that follows. The scripts are the seven
  migrations of the repository with all their statements.

No run turns deadlock checking off: when all requests are answered the specification
stutters explicitly (`TransfersOver`, `ApiIdle`, `AllServed`; in Startup, when every instance
listens), so any other stop is an error.

## 5. Fairness

`FairSpec` and `ApiFairSpec` assume weak fairness of the progress of each request
(`TransferProgress(p)` and its counterparts), nothing else.

* The event loop resumes every request whose statement has been answered, and
  PostgreSQL answers every statement that does not have to wait; once a lock is free
  its waiter gets it. The fairness is per request and not per action, because a
  request has one next statement at any moment.
* `DeadlockVictim` is part of the progress: PostgreSQL looks for a cycle one second
  after a wait began and breaks it.
* Waiting for a connection is part of the same action: a released connection goes to a call
  that waits (`TransferRuns`, `PatchRuns`, `TopUpRuns`).
* `StartupFairSpec` assumes weak fairness of each instance's `StartStep`: a start goes on
  until it listens or ends, and `docker-compose.yml` restarts a process that ends
  (`restart: unless-stopped`). `Exit` and `Request` carry none, and there are finitely many.
* Arrivals, the creation of accounts and failures carry no fairness: nothing makes
  them happen.

Weak fairness is enough because each request is made once: others can overtake a waiter
only finitely often. Clients that arrive without end could starve one in the
model and, in principle, in PostgreSQL; that is not claimed either way.

## 6. What is proved

The proofs use no bound: any number of sessions, accounts, spellings, bodies, batches, readers
and instances. The assumptions are the named ones of the modules: `MaxNumericAssumption` (a
natural width), `TablesAssumption` (None is no session; there are finitely many accounts; the
seeded rows have equal, non-negative balances), `HandlersAssumption` (a stored id is one of its
own spellings), `TransferAssumption`, `BankAssumption` (amounts are positive; those of the bank
are whole), `ClockAssumption`, `ReadsAssumption`, `DemoAssumption` (a batch is between two
accounts), `ClientsAssumption` (clients leave references that look like those of a batch alone),
`StartupAssumption`. TLC evaluates each of them in a passing run.

Every safety invariant and action property a passing run checks is a theorem. Some theorems need
a hypothesis besides; it is written in the theorem, and a run shows what goes wrong without it:

| Hypothesis | Meaning | Without it |
|---|---|---|
| `ApartSpellings` | no body names one account by two spellings | `spelling_self` |
| `WholeAmounts`, `WholeTopUps` | amounts are ones a column keeps unchanged | `half_unit` |
| `PlainBodies` | `ApartSpellings` and `WholeAmounts` | both |
| `StoredSpellings` | clients spell ids as the database prints them | `spelling_conflict`, `spelling_deadlock` |
| `OneSeeder` | at most one instance seeds, as in `docker-compose.yml` | no run; see section 7 |
| `IsFiniteSet(TopUpRequests)` | the requests that are counted can be counted | – |

The hypotheses are about constants, and the instances of the passing runs satisfy those they
are needed for: `transfers` and `api` have plain bodies and stored spellings,
`startup` has one seeder.

**AtomicBankProofs.** `BankCorrect: BankSpec => []BankInv`. The table promises of
section 3 are not inductive one by one; their conjunction is, with two facts added: an
id names one transfer, and no transfer has its source as destination. The latter is
what fails in the code when an account has two spellings. The argument: every step
appends at most one entry to an account (`OneEntry`), whose `balance_after` is the
new balance; `BalanceMatchesLedger` turns the old balance into the last
`balance_after`, which gives `LedgerChain`, `DoubleEntry` and
`AuditAgreesWithLedger` one entry at a time. `BankAppendOnly` and
`BankMovesActiveAccounts` follow from the same shape of steps. `BankMoneyIsIssued:
BankSpec => []DepositsAreIssued` adds it up over all accounts: a transfer moves one balance up
and one down by one amount and issues nothing; a top-up moves a balance and what is issued
alike.

**Sums** has the lemmas about `SumFunctionOnSet` that this needs: the sum over a set with one
member more, one less (`SumRemove`: whichever member it is), or one or two values changed
(`SumShifts`, `SumShiftsTwo`). The community module defines the sum by a recursive function over
the subsets, picking members with `CHOOSE`. The provers cannot use the library's induction, so
each lemma takes a smallest counterexample instead (`SmallestSet`, from the well-foundedness of
`<` on the naturals). `PartialSum` shows first that a function with the recursive equation
exists, by extending one on the sets of at most n elements to those of n + 1.

**TransferServiceProofs**, about the service itself, with every statement, failure
and retry in it:

| Theorem | States | Rests on |
|---|---|---|
| `TransferTypes` | `[]TypeOK` | `TypeInv`, below |
| `TransactionsEnd` | `[]NothingHeldOutsideTransaction` | isolation |
| `TransfersAppend` | `AppendOnly` | tables change only by `Commit` |
| `OneTransferPerReference` | `[]UniqueReference` | `ReferenceInv` |
| `RejectionsCommitNothing` | `[]RejectionLeavesNoTrace` | `ReferenceInv` |
| `LoserFindsWinner` | `[]UniqueConflictFindsWinner` | `TypeInv`, tables grow |

* *Typing is not obvious.* A ledger entry stores numbers computed from rows read six
  statements earlier. That they fit the column follows only because the rules were
  checked on those very rows (`RulesHold`: the amount is at most a column's value), and
  `InsertAudit`, which checks nothing, follows only because `InsertEntries` stored the
  same numbers. So `TypeInv` is `TypeOK` and `RequestSound` for each request.
* *Isolation.* `StepIsolated`: a step of one session changes neither the locks nor the
  uncommitted writes of another. With it, each property of one request needs to be
  looked at only for the request's own steps.
* *References.* `UniqueReference` alone is not inductive: two requests might both have
  inserted. `ReferenceInv` adds that a request has at most its own transfer pending;
  that a pending reference is neither committed nor pending elsewhere; and that the
  creator of a committed transfer is in no position to insert again (`CreatorOver`).
  `PendingStep` reduces the twenty-two actions to the four things they can do to a pending transfer:
  keep, insert, drop, commit.

These hold for mixed spellings and unrounded amounts too: nothing in them assumes one
spelling per account.

**PostingProofs**: what a transaction writes.

| Theorem | States | Hypothesis | Rests on |
|---|---|---|---|
| `NeverOverdrawn` | `[]NoOverdraft` | – | `HeldInv` |
| `RefusalsAreForCause` | `[]RefusalsAreDue` | – | `HeldInv`, `RefusalInv` |
| `TransfersAreAtomic` | `Books!BankSpec` (AtomicBank, asked for the bodies) | `PlainBodies` | `HeldInv`, `PostingInv`, `ReferenceInv` |
| `TransfersConserveMoney` | `[]Conservation` | `PlainBodies` | `TransfersAreAtomic`, `BankCorrect` |
| `TransfersKeepTheBooks` | `BalanceMatchesLedger`, `LedgerChain`, `DoubleEntry`, `AuditAgreesWithLedger`, `NoOverdraft` | `PlainBodies` | `TransfersAreAtomic`, `BankCorrect` |

* `HeldInv`: the rows a request has seen are locked by it and are still the committed ones, it
  has uncommitted rows only of accounts it has locked, and no committed or uncommitted
  balance is negative. None of it depends on rounding or spellings, so neither does
  `NoOverdraft`.
* `RefusalInv`: a request on its way to roll back for a broken rule still holds both rows it has
  seen (`HasFirst`, `HasSecond`). Only the check of the rules brings a request there
  (`RefusedByTheRules`).
* `PostingInv`: at every statement, `pend[p]` is exactly what the bank would write by now from
  the tables *as they are*. It is a function of `tPc[p]`, the body and the two rows. The rows
  cannot have changed, and so at `COMMIT` the writes are the bank's step. Any other step of any
  request changes no committed table.

**AnswerProofs**: what clients are told.

| Theorem | States | Hypothesis | Rests on |
|---|---|---|---|
| `SuccessesAreDurable` | `[]SuccessIsDurable` | – | `AnswerInv` |
| `ConflictsAreReal` | `[]NoFalseConflict` | `StoredSpellings`, `WholeAmounts` | `AnswerInv`, `ReferenceInv` |
| `SortedLocksNeverDeadlock` | `[]NoWaitCycle` | `StoredSpellings` | `WaitInv` |

* `AnswerInv`: a committed transfer is the one its creator's body asked for, and a request past its
  `INSERT` has that transfer pending until it ends. An answer found by a lookup is
  then about the same row a comparison was made with.
* `WaitInv`: a request that waits for a row holds at most the row it locked first; one that waits
  for an insert holds both and waits for a request that is past waiting. Sorted
  stored ids make every wait for a row a step up, so round a circle of any size the ids would
  have to descend for ever (`WaitsAreOrdered`).

**TransferApiProofs**: the four write endpoints together.

| Theorem | States | Hypothesis |
|---|---|---|
| `ApiTypes` | `[]ApiTypeOK` | – |
| `ApiNeverOverdrawn` | `[]NoOverdraft` | – |
| `ApiRefusalsAreForCause` | `[]RefusalsAreDue` | – |
| `ApiKeepsItsWord` | `UniqueReference`, `SuccessIsDurable`, `RejectionLeavesNoTrace`, `NothingHeldOutsideTransaction`, `UniqueConflictFindsWinner` | – |
| `ApiMovesActiveAccounts` | `OnlyActiveAccountsMove` | – |
| `ApiAppends` | `AppendOnly` | – |
| `PatchesLast` | `[]PatchShowsSetStatus` | – |
| `TopUpsAreNeitherLostNorDoubled` | `[]TopUpsAreCounted` | finitely many top-ups |
| `ApiConflictsAreReal` | `[]NoFalseConflict` | `StoredSpellings`, `WholeAmounts` |
| `ApiNeverDeadlocks` | `[]NoWaitCycle` (among transfers) | `StoredSpellings` |
| `ApiNoDeadlock` | `[]NoDeadlock` (all requests, with the pool) | `StoredSpellings` |
| `ApiMoneyIsIssued` | `[]DepositsAreIssued` | `PlainBodies`, `WholeTopUps` |
| `ApiIsAtomic` | `ImplementsAtomicBank` | `PlainBodies`, `WholeTopUps` |
| `ApiKeepsTheBooks` | the five promises of the tables | `PlainBodies`, `WholeTopUps` |

* Transfers are taken over by one lemma: whatever a top-up, a PATCH or a new account does leaves a
  transfer `Undisturbed` (its locks, its writes and the rows it has locked are as they were), so
  `ApiInv` and `ClientInv` are the invariants above with those of the other requests
  (`TopUpSound`, `PatchSound`) beside them.
* The refinement maps each `COMMIT` of a transfer or top-up, each `UPDATE` of a PATCH and each
  `INSERT` of an account to its action of the bank, and all else to a stutter.
* `PatchedInv`: the committed status of an account whose PATCH is about to read it back is one some
  PATCH has set. It needs that an uncommitted row carries the committed status
  (`HeldSound`).
* `CountInv`: for each account there is a set of requests (all that were answered 200, and none that
  failed for certain) with one entry each. The set is a witness, not a state:
  whose entry is whose cannot be read from the ledger.
* `ApiNoDeadlock` is not about circles, since who waits for a connection waits for all that have
  one. `LockersInv`: a PATCH holds no row, and a top-up only its own, from its lock to its end.
  So whoever is waited for (`Awaited`) can make its next call now (`Moves`), or is at its
  insert, where it can only be waiting for one who can, or is a transfer that has its first row
  and wants its second (`Climbs`). Of the last, one stands highest among the finitely many
  accounts (`GreatestMember`): the holder of its second row does not climb. Neither does any of
  them wait for a connection, since each has its own (`HolderMoves`, `InserterMoves`); so in any
  set one request is not waiting for the set.

**ClientsProofs**, for batches of any size beside any other clients, and for lists of any length
and any limits.

| Theorem | States | Rests on |
|---|---|---|
| `ClientsKeepTheBooks` | `[]BankInv` | `BatchInv`, `BankCorrect`'s step |
| `ReportsSpan` | `[]ReportSpansItsTransfers` | `ReportInv` |
| `WalksMissNothing` | `[]WalkMissesNothing` | `WalkInv`, `StampInv` |
| `BatchesAreToldTheTruth` | `[]ResultsAreTrue` | `BatchInv`, `ToldInv` |
| `AnswersAreFinal` | `NothingAfterTheAnswer` | `BatchInv`, `ReportInv` |
| `PagesFitTotals` | `[]PageFitsTotal` | `WalkInv` |

* `BatchInv`: a committed transfer whose id is a task of a batch
  has that task's reference, and the task has ended; any other transfer has a reference no batch
  uses. So a batch alone in its millisecond never finds a reference of its own taken
  (`OwnReferenceFree`).
* `ReportInv`: a balance read before the batch is the balance at a place of the ledger with no
  entry of the batch in front of it, one read after it at a place with none behind it. Ledgers
  grow at their end, so a place stays what it was. It also has that transfers run only between
  the two pairs of reads, which is `AnswersAreFinal`.
* `ToldInv`: a completed result names a stored transfer that carries every column of its order
  (`Carries`). Stored transfers stay (`TransfersGrow`), and the orders of a batch are fixed once
  it has started (`OrdersStay`), whether or not others have the same references.
* `PlaceOfRow`: a row that shares its millisecond with no other stands, in any order the `ORDER BY`
  allows, right behind the newer rows. `PageOfWindow`: a page is a window of such an order.
* `WalkInv`: a row that is owed was returned, is on the page in hand, or has at least `offset` newer
  rows. New rows are stamped no earlier than old ones, so they only push it further
  back; and a page that does not reach it is full, so the walk goes on. A page has as many rows
  as its window of the list at that moment (`WindowLength`), which is one of the request.

**StartupProofs**, for any number of instances, ended anywhere and as often as it likes:

| Theorem | States | Hypothesis | Rests on |
|---|---|---|---|
| `ListenersHaveSchema` | `[]ListeningHasSchema` | – | `SchemaInv` |
| `NoDanglingNames` | `[]NamedAccountsExist` | – | `NamesInv` |
| `ReseedingIsOver` | `ReferencedNeverReseeds` | – | `BeforeDelete` |
| `CutOffIsForGood` | `CutOffNeverListens` | – | `SchemaInv`, `CutAt` |
| `TheSeederVouches` | `[]SeederVouches` | `OneSeeder` | `BooksInv` |

* `SchemaInv`: a recorded migration has all its statements applied, and each instance that
  migrates knows its place (`MigratorSound`): what it no longer has to do is recorded,
  and the statements before its position are applied. Neither is undone by another
  instance.
* `NamesInv` adds the types that make "exists" mean something: a row with a status is a row.
  An account leaves only by the seeder's second delete, which the foreign keys allow
  only when nothing names it.
* `BeforeDelete`: an instance that went down when a demo account was named is before the
  second delete, and stays before it, because transfers are never deleted
  (`TransfersStay`) and the delete is refused (`DeleteRefused`).
* `CutAt`: a migration that is not recorded, one of whose `CREATE INDEX` has taken effect while no
  instance is past it. It stays so (`CutAtStays`): whoever comes to that statement is
  refused. An instance that is down when this holds has that migration still in front
  of it (`Before`), and so never gets to listen.
* `BooksInv`: between the seeder's statements the demo accounts break every promise of the tables,
  and requests go on using them. The promises hold of the tables *that count* (`Counted`, an
  instance of AtomicBank): without the demo accounts until the old ones are deleted, and with the
  opening entries that are still to be inserted from then on. A request is a step
  of that bank, or it writes what the seeder deletes next, or it is a transfer of a demo account,
  after which the seeder never listens again. Entries being stamped with the time the seeder
  *started* is what puts the opening entry in front of those written meanwhile.

**Only model-checked**: the liveness properties (TLAPS has no ENABLED). Termination of the retry
loop and of waits under fairness therefore stays with TLC; what is proved of it is `NoDeadlock`
and, in `TypeOK`, that nobody starts a fourth attempt. The properties that runs refute are not
theorems; where the inputs decide, the hypotheses above say which inputs.

## 7. Where the code and its documentation disagree

Each is a run that TLC must find violated.

1. **Lock order by spelling** (`spelling_deadlock`, `TransferService.ts:60`). The ids are
   sorted as the client sent them, and `z.string().uuid()` accepts capitals. Two requests
   over the same accounts can lock them in opposite orders; `README.md:184` says that
   they cannot deadlock. The retry loop repairs it (`mixed_spellings`).
2. **A retry refused as a conflict** (`spelling_conflict`, `:193`).
   `requestMatchesExisting` compares the stored id with the spelling sent: the exact same
   body with an id in capitals is answered 409.
3. **A transfer to oneself** (`spelling_self`, `:39`). The same-account check compares
   spellings. The balance ends where it was and the newest ledger entry does not.
4. **The loser of a duplicate race** (`duplicate`, `:84`). If the winner commits between
   the loser's lookup and its check, the loser is refused with `INSUFFICIENT_BALANCE`,
   although its transfer exists. `README.md:222` and `:438` promise the same response.
5. **Amounts finer than a column** (`half_unit`, `AccountRepository.ts:67`). Amount,
   balances and `balance_after` are rounded each on its own.

6. **A restart that does not come up** (`reseed`, `demo-accounts.js:19`). The seeder deletes the
   demo accounts' ledger entries and then the accounts. Once a transfer names one of them the
   second delete is refused, the process exits, and so does every later start; the entries
   are gone. The comment at `:15` promises that a "restart re-seeds cleanly".

Met on the way, and described by a property's exception or by a note of `PROJECT.json`
instead of by a run:

* A process that ends between a `CREATE INDEX` and the record of its migration leaves a
  database no later start can migrate (`CutOff`); `CutOffNeverListens` is checked and proved.
* While an instance seeds again, another may be serving the accounts whose entries have
  just been deleted; two seeding instances can delete each other's rows. The compose file
  starts one.
* Two demo batches in one millisecond answer with each other's transfers.
* Rows of one millisecond may be missed by a client that pages through a list.
* `GET /transfers?reference=` trims the reference and `POST /transfers` does not
  (`transferReadController.ts:34`): a reference with a blank at an end is never found.

## 8. What is not modelled

* *Single reads* (`getById`, a transfer by id or reference): one statement that reads
  committed rows and changes nothing.
* *Time stamps* other than those the lists are sorted by.
* *Doubles beyond 2^53 units*: the model's sums are exact. The seeded amounts are far
  below, and below it the noise of a binary fraction is removed by the column's rounding.
* *Foreign keys of inserts*: an insert of a transfer or entry locks accounts that its
  transaction holds already. Those of deletes are in Seeding.
* *The inside of a transfer in Demo, Clients and Startup*: there a transfer is one step. For
  Demo this is what `executeTransfer` promises, with every way it can end; that the services keep it is the
  refinement checked by `api`.
* *Two spellings of an id* outside TransferService: demo batches spell ids as
  PostgreSQL does.
* *`RUN_MIGRATIONS_ON_START`* is taken as set: the image migrates before it starts Node anyway. The
  down scripts, which the service never runs, are left out.
* *Requests that validation refuses*: they reach no service.
* *Routing, headers, wording of errors, logging, configuration, API docs, tooling scripts*:
  no state that the rest reads.

## 9. Plan

Done, in this order: Money, Tables, Postgres, Handlers, TransferService (first run:
`transfers`), the spelling and rounding runs, AccountService, TestHelpersService,
TransferApi, AtomicBank and the refinement, AtomicBankProofs, TransferServiceProofs; then
Migrations, Seeding and Startup, Clock, Reads, Demo, Clients and the connection pool; then the
proofs of every checked safety property: PostingProofs, AnswerProofs, TransferApiProofs,
ClientsProofs, StartupProofs; and then conservation of money with Sums, freedom from deadlock
across all endpoints and the pool, the grounds of refusals, and the end of a migration that was
cut off.

What is left:

1. The contract of `executeTransfer` that Demo takes for granted (`TaskStep`) as one theorem of
   TransferService. Each of its ways to end is one today: `TransfersAreAtomic` (it moves the
   money), `SuccessesAreDurable` and `ConflictsAreReal` (it finds its reference),
   `RefusalsAreForCause` (it is refused), `RejectionsCommitNothing` (and leaves nothing).
2. `OneSeeder`: a run that shows what two seeding instances do to each other.
3. A weaker hypothesis for `ConflictsAreReal`: it suffices that one reference is always sent
   with one spelling, the stored one.

## 10. Running it

```
tlc -config TransferService.cfg MCTransferService
tlc -config TransferApi.cfg     MCTransferApi
tlc -config AtomicBank.cfg      MCClients
tlc -config Startup.cfg         MCStartup
tlapm TransferApiProofs.tla
```
`PROJECT.json` names, for each run, the module, the configuration, the expected result and
what it shows.
