# cashu-service: a TLA+ verification project

The repository is a Rust workspace of two crates. `crates/cashu-credit` is a
pure, in-memory accounting library for credit between peers.
`crates/cashu-service` is the wallet service around it: the durable store of
credit accounts, the Cashu wallet with its cross-mint transfers, Spilman
payment channels, and a simulated payment network for tests. This directory
holds TLA+ models of the parts that carry the money, TLC runs that check them
on small instances, and TLAPS proofs of their main properties for every value
of the constants.

`PROJECT.json` is the index: components, runs, the source lines every
definition stands for, hazards, findings and theorems.

## 1. The system

### Components, state, operations

| Part (source) | State | Operations | Model |
|---|---|---|---|
| Credit account (`cashu-credit`: `account.rs`, `ledger.rs`, `protocol.rs`) | per issuer a peer-credit, a closed-loop and a withdrawable ledger; an aggregate; maps of every applied operation by id; an event list; a revision | record a deposit, apply a receipt, novate, settle with backing, consume, authorize / complete / cancel an external settlement | `CreditAccount` |
| Snapshot (`snapshot.rs`) | none; a value | snapshot, validate, restore (recomputes all ledgers from the records) | `CreditSnapshot` |
| Account store (`credit_store.rs`) | SQLite tables of snapshots and of backing claims | create, load, save under the loaded revision | `CreditStore`, `CreditLog` |
| Settlement adapter (`credit_settlement.rs`) | none | bind an authorization to one transfer; start it, or resume it after the deadline | `CrossMintTransfer` |
| Cross-mint transfer (`wallet/cross_mint/mod.rs`) | durable saga per transfer id; quotes and transactions of two wallets | transfer, resume, startup recovery | `CrossMintTransfer` |
| Simulated network (`simulation/network.rs`, `clock.rs`) | invoices, reserves, online flags, fee sink, event channels, clock | register, set online, settle from outside, create invoice, quote, pay, event stream, status | `PaymentNetwork` |
| Simulated mint (`simulation/mint.rs`) | an external mint process | start, drop | not modelled (start-up I/O) |
| Wallet runtime, seed and files (`wallet/runtime.rs`, `persistence.rs`) | two seed stores, the family of database files, recovery directories, writer lock | open (resolve, migrate or generate the seed, open the database), close, move a database aside with rollback | `WalletStartup` |
| Wallet operations and startup recovery (`wallet.rs`, `wallet/send.rs`, `wallet/runtime.rs`) | bounded activity list; the wallet library's quotes, sagas and proofs; operation lock | top up, pay, send, receive, import, revoke, overview, load the list, recover | `WalletOperations` |
| Spilman payments and policy (`spilman.rs`) | what the buyer paid; the seller's credit, stored payment and units routed | create and validate a payment, process it, build a token lease, decide on routing, close | `StreamingRoute` |
| Spilman client and refund (`spilman_client.rs`, `spilman_refund.rs`) | JSON store of the channel, sender key file, store lock, funding token | open from the wallet, sign, show the key, recover the refund | `SpilmanClient` |
| Spilman receiver (`spilman_receiver.rs`) | receiver key file; a database inside the library | process a payment, close | the seller in `StreamingRoute` and `SpilmanClient`; key and configuration not modelled |
| Private files (`private_file.rs`) | files | atomic replace, create once, lock | inside `SpilmanClient` and `WalletStartup` |
| Helper and protocol (`helper.rs`, `protocol.rs`), errors | none | command loop, types | not modelled (no state) |

### How they interact

A node applies operations to a `CreditAccount` in memory and saves it through
`CreditAccountStore`, where several workers compete: the revision the account
was loaded at is compared when it is saved. An authorized external settlement
is given to `execute_cashu_settlement`, which drives the cross-mint saga; the
saga's record lives in the wallet database next to the wallet library's own
records, and the money moves between two mints that answer when they like.
The caller then completes the settlement in the account, or cancels it, and
saves again. The simulated network stands in for Lightning between mints.

A wallet is opened under a process-wide writer lock: the seed is found in (or
moved to) the store of the profile, then the database is opened with it. From
then on an in-process operation lock lets one operation at a time talk to the
mint; each moves money first and writes its entry of the activity list last. A
buyer of a route sends itself a token from that wallet, swaps it into a channel
and signs growing balances from a file store that all its processes share; the
seller validates what arrives, routes while it is paid, and closes the channel;
the buyer then collects its share back into the wallet.

### What is hard, and what makes each part correct

* **Account.** Eight operations share three ledgers and an aggregate; all are
  retried. Correct means: caps hold in every order of operations, backed value
  is conserved, a record never changes, a pending settlement can always be
  finished, and an account survives its snapshot.
* **Store.** Stale copies, concurrent saves, a crash between two statements.
  Correct means: no committed operation is lost and no deposit backs two
  accounts.
* **Transfer.** Some fifteen awaits, each of which may fail or be the last
  thing the process does; quotes that are obtained and not recorded; a payment
  whose answer never arrives; the deadline. Correct means: a transfer id pays
  at most once and within its maximum fee, a result is reported only when the
  value has arrived, and a paid transfer is eventually delivered.
* **Network.** Concurrent payers, self-payment, expiry, announcements sent
  after the lock is released and lost by slow readers. Correct means:
  conservation, one payer per invoice, no false announcement.
* **Wallet startup.** Two stores for one seed, a crash between any two file
  operations, a second process, a rollback that fails half-way. Correct means:
  a seed that a database was opened with is never lost or replaced, and the
  files of a database stay together and are never written over.
* **Wallet operations.** The money moves in one place and is listed in another;
  mints rotate keysets between two awaits; the list is cut at its limit; a
  recovery step may fail at every start. Correct means: the list never tells a
  story that did not happen, nothing falls out of it but by its limit or a
  fault, a token made for a keyset has no older proofs in it, a paid top-up is
  issued.
* **Route.** Payments are lost, repeated and reordered; two units with
  rounding; arithmetic that is truncated. Correct means: the seller's risk is
  the grace budget and one chunk, its credit is money it can redeem, and a
  suspended buyer can pay its way back.
* **Spilman client.** Whole-file writes by several processes, a key created
  without the lock, an opening that fails after the token is spent. Correct
  means: the money is always in a place where somebody can find it, whatever
  was handed out is on file, and a channel is closed only when its refund was
  collected.

`PROJECT.json` lists each hazard at its line, with the properties that cover it.

## 2. Modules

| Module | Role |
|---|---|
| `CreditAccount` | the account, one action per operation |
| `CreditSnapshot` | snapshot, validation, restore; properties that need sums |
| `CreditAccountProofs` | theorems about the account and its snapshot |
| `CreditLog` | abstract store: an append-only log per account, deposits unshared |
| `CreditStore` | workers, transactions and crashes; refines `CreditLog` |
| `CreditStoreProofs` | theorems about the store, the refinement included |
| `CrossMintTransfer` | adapter, saga, wallet library and mints |
| `CrossMintTransferProofs` | theorems about the transfer |
| `PaymentNetwork` | the simulated network and its clock |
| `PaymentNetworkProofs` | theorems about the network |
| `WalletStartup` | opening a wallet and moving its database aside |
| `WalletStartupProofs` | theorems about seeds and database files |
| `WalletOperations` | the operations, the activity list, the startup recovery |
| `WalletOperationsProofs` | theorems about the list and the keyset of a token |
| `StreamingRoute` | buyer and seller of a metered route: policy, payments, validation |
| `SpilmanClient` | the buyer with its files, composed with the seller of `StreamingRoute`; refines `RouteSpec` |
| `SpilmanProofs` | theorems about the seller's credit and risk and about the buyer's files, the refinement of `RouteSpec` included |
| `SumTheorems` | lemmas about sums of a function over a finite set, used by the proofs of the account and the network |
| `MC...` | the constants of the TLC runs |

### CreditAccount and CreditSnapshot

A variable is a field of `CreditAccount`; maps keyed by id are functions with
`None` for an absent entry. Each `checked_add` or `checked_sub` is a bound
against `U64Max` in a `CanX` operator next to the ledger operation `X`. A call
that returns an error, or `AlreadyApplied`, changes nothing and is a stutter;
the early returns are the guards. Strings are members of small sets, `Blank`
standing for one that is empty after `trim`. The clock is not state: each call
brings a reading, any member of `Times`, because the code trusts its caller's
`now_unix`. `ValidPolicy` is the check of the constructor.

`CreditSnapshot` has one operator per validation function, `Replay` among them,
the loop of `validate_peer_credit_events` over the event list, and a restore
that keys the deposits again. The JSON text is left out.

### CreditStore and CreditLog

An account is the sequence of the operations applied to it and its revision
the length of that sequence, which is what `CreditAccount` guarantees. A
worker creates, loads, changes and saves its own copy; create and save are
transactions of several steps, one per SQL statement (the row, then one claim
per deposit, then the commit), that may end in a claim conflict, a database
error or a crash. External, and assumed: an Immediate transaction excludes
other writers, readers see committed rows, a dropped transaction is rolled
back. `CreditLog` is what a caller may rely on; `CreditStore` implements it
under `log <- Accounts`, the committed snapshots.

### CrossMintTransfer

One action per await of `transfer_between_mints`. `call` is the running call
(the operation lock admits one), with the saga it holds in memory; `sagas` is
durable, and a save is a step of its own, so a crash may come before or after
it. `Interrupt` is both an await that fails and a process that dies. The wallet
library and both mints are external: they are modelled from what the code asks
of them (a melt quote becomes Pending before the request is sent, recovery
finalizes what the mint has decided, an answered issue is completed on
recovery). `started` and `deadline` in `call` exist for the properties only.
Transfer URLs are compared after normalisation, so a mint is a name.

### PaymentNetwork

All state is under one mutex, so an operation is one action, with two
exceptions the model keeps: `create_invoice` reads the clock before it takes
the mutex (`t \in 0..now`), and the announcement of a payment is sent after the
mutex is released (`unsent`). An invoice is known by its serial number; hashing
and signing are left out. A mint has one event stream at a time, with a queue
of `EventCapacity` that drops its oldest event, as the broadcast channel of
tokio (external) does. A mint is not called `"external"`, the name the code
records for the orchestrator as payer.

### WalletStartup

`durable` is the directory (both seed stores, the database files, the recovery
directories), `call` what a process has resolved so far. One action per file
operation or seed-store call of `resolve_wallet_seed`, of opening the database,
of `finalize_legacy_seed_migration` and of `preserve_cashu_wallet_database`
with its rollback in reverse order; `Fail` is an error return and `Crash` the
death of a process at any of them. A process opens with either profile (file
backed, or a platform seed store that may keep other bytes than it was given),
so a directory meets both over its life. External: SQLite creates a missing
database file when it is opened; a rename is atomic; a dead process loses its
lock.

### WalletOperations

`op` is the operation that holds the operation lock, its fields say where it
is; an id stands for one movement of money, with what really became of it
(`state`), what the wallet library knows (`quotes`, `saga`, `proofs`) and what
the list says (`status`). Of proofs only their keysets are kept, because
`send_payment_token_with_keyset` decides on them; amounts are left out. The
list is sorted by clock and then by random id before it is cut, and neither is
under the code's control, so the entry that is dropped may be any. A failed
write ends an operation where a crash would and is one action with it. The
swap of the consolidation and `confirm` take the keyset that is active when the
mint answers: `confirm(None)` (`send.rs:125`) names none and nothing is compared
afterwards, so after a rotation the token may be of the newer keyset, or of
both. A quote may be missing from the library's records when the list is shown.
`hidden` exists for the properties: movements whose entry was never written.
External: the cdk wallet, the mint, the payee and the payer.

### StreamingRoute

`terms` is what buyer and seller agreed on: policy, unit, capacity, whether the
application passes the capacity on to the checks, and whether the seller's
application is `guarded`. All arithmetic is the
code's, in words of `MaxWord`: saturating products, division that rounds up,
the u128 total cast to u64. A payment that was sent stays in `payments` for
ever, which models loss, repetition and reordering together. The buyer may
forget what it paid last, because the application keeps that number.
`ProcessPayment` is the handler of the repository, which checks the claim and
not the progress; the progress check is offered to the seller's application,
which no code of the repository contains, so `ReceivePayment` has both kinds: a
guarded seller calls it first, another one does not and may credit an older
payment again. The library (external) stores the payment it validated or keeps
a better one it has; both are possible. The builder of a lease checks its credit
(`LeaseCredit`); redeeming and crediting it is the seller's application.
`best`, the highest credit so far, exists for the properties. Signatures are
external: only the buyer makes payments.

### SpilmanClient

The buyer's part of `StreamingRoute` replaced by what its processes do with
files: each call holds a copy of the store (`mem`), and every read, write, swap
and import is an action; the lock is not a variable but the set of calls under
way that took it. A write ends `"ok"`, `"failed"`, or `"unsynced"`, replaced but
reported as failed, the three outcomes of `write_atomic_private`. The model has one
channel and opens it at most once: another opening is another channel.
The mint may rotate its keyset at any time. A refund fetches the active keyset,
then looks at the state of the funding, then restores: with the keyset of the
settlement the library finds the buyer's share; with another one the model
leaves open whether it does (`Restores`, external). An empty answer skips the
import and the channel is still marked closed, as in the code. `foreign`
records that a refund used another keyset than the settlement's.
`RouteSpec` is checked as a property: whatever the files, faults and processes
do, what the seller sees is a behaviour of `StreamingRoute`. `faults`,
`openFault` and `recent` exist for the bound and the properties.

## 3. Runs

| Run | Checks | Distinct states |
|---|---|---|
| `credit_peer` | `TypeOK`, `ExposureBounded`, `TotalIsSum`, `SnapshotRestores` | 15,034 |
| `credit_reserve` | `BackingConserved`, `PaidOutWithinDeposits`, `PendingSettlementsFinishable`, `RecordsAreFinal` | 12,428 |
| `credit_lifetime` | `SnapshotRestores`, violated | 4 |
| `credit_store` | `StoreTypeOK`, `ClaimsExact`, `RevisionIdentifiesHistory`, `ImplementsCreditLog` | 180,631 |
| `transfer` | `TransferTypeOK`, `PaymentsJournaled`, `ResultIsDelivered`, `SagaIsFinal`, `LateCallsNeverPay`, `PaidIsDelivered` | 83,326 |
| `transfer_deadline` | `ExpiredNeverPays`, violated | 103 |
| `network` | `NetworkTypeOK`, `ReservesMatchInvoices`, `NetworkConserved`, `LearnedIsTrue`, `PaymentsAreFinal` | 119,978 |
| `wallet_startup` | `StartupTypeOK`, `SeedKept`, `OneSeedPerDatabase`, `DatabasesKept`, `FamilyTogether` | 1,205,562 |
| `wallet_operations` | `ActivityTruth`, `ActivityComplete`, `RequiredKeyset`, `TopupIssued` | 130,482 |
| `streaming_route` | `SellerRisk`, `CreditBacked`, `RouteResumable` | 165,627 |
| `spilman_client` | `FundsTraceable`, `RefundPossible`, `HandedOutIsOnFile`, `ClosedMeansCollected`, `RouteSpec` | 504,498 |
| `refund_keyset` | `RefundCollected`, violated | 4,189 |

**Bounds, and why they are enough.**

* Account: two issuers (a novation needs two), one with a policy deadline, and
  a stranger. Each cap can be reached and exceeded by one unit. The inputs
  hold used ids with other contents, expired, blank and zero inputs, and
  unauthenticated callers. Identifiers are used once per kind, so the runs end
  by themselves; they say `CHECK_DEADLOCK FALSE` because an account to which
  every operation has been applied has nothing left to do. The two runs split
  the inputs, not the actions: one has peer credit and its conversions, the
  other reserve-backed value and external settlement.
* `U64Max` is scaled down, so that limits of u64 lie just above the caps.
* Store: two workers and two accounts give every pairwise race; one deposit
  that both accounts may record gives the claim conflict; `MaxRevision = 2`
  lets a copy be stale by one and by two.
* Transfer: one transfer id under two authorizations that disagree on the fee
  (plus three the adapter refuses), three quotes of each kind, two
  interruptions at any await. Two interruptions separate a first attempt, a
  recovery that is itself interrupted, and the call that finishes; three
  quotes are what these attempts can ask for. Mints may quote a wrong amount,
  fail the payment, leave it pending, or charge one sat over the quoted fees.
* Network: two mints, one of each mode, two invoices of amounts 1 and 3 (and a
  refused 0), a fee of 1, a channel of one event so that the second is a lag,
  two times so that an invoice can expire. `U64Max = 3000` is the scaled limit
  of the conversion to millisats.
* Wallet startup: two processes; three seeds, so that each profile can hold one
  and a third be generated by mistake; two databases and two recovery
  directories, so that a family can be moved aside, be replaced and be moved
  again; two crashes, so that the recovery of a crash can crash. Processes and
  seeds are symmetric.
* Wallet operations: two movements of any kinds and a list of one entry, so
  that every append may push the other out; two keysets, so that one rotation
  falls between any two steps; one fault. Properties relate at most two
  movements.
* Route: four terms, chosen for the boundaries: both units, a policy with
  `per_units = 0`, a free probe and a grace that are not multiples of a chunk, a
  price at which the total exceeds a word, capacity stated or not, a seller with
  the progress check and one without. `MaxWord = 63`
  and 4 msat per sat scale u64 and 1000, so saturation and truncation are reached.
* Spilman client: two processes give every race for key and store, two keys let
  both generate one, two faults let a recovery fail, two keysets let one rotation
  fall between any two steps. A channel of one sat has the two balances that
  matter, nothing for the buyer and something, and three payments are a first
  one, an update and a close. `refund_keyset` has two sats, so that the
  settlement is split, one process, and no faults: it needs none.

**Fairness.** `transfer`: a running call goes on (`WF` of its
steps: the runtime polls a future that is ready). The caller repeats each
authorization until it has its result, and the operation lock is a tokio mutex,
which is first come, first served, so a caller is not overtaken forever by
another one (`SF` of `Execute` for each authorization). A pending payment is
eventually decided and a paid invoice eventually noticed (`WF` of the mints);
without that no code could deliver. The number of interruptions is finite
(`MaxInterrupts`). `PaidIsDelivered` speaks of payments within the caller's
maximum: when the source mint takes more than it quoted, the code refuses to
report a result for ever, by design (`cross_mint/mod.rs:482`).

`wallet_operations`: an operation that runs goes on (`WF` of its steps). The
application runs the startup recovery again and again and the operation lock
is first come, first served (`SF` of the startup recovery). The mint does not
refuse for ever to issue what was paid (`SF` of the refresh that succeeds).
Nothing is assumed of the other two recovery steps: that `TopupIssued` holds
although they may fail every time is what it says of `recover_startup_state`.

### What the wallet and channel runs show

* `wallet_startup`: no order of starts under either profile, crashes and moves
  loses a seed a database was opened with, or opens a database with another.
  When the rollback of a move fails, files are left in two directories and
  the code reports it; that and a crash are the only ways a family is split.
* `wallet_operations`: the list may miss a movement after a fault, and a token
  revoked whose entry could not be marked is later shown as complete
  (`wallet.rs:803`); apart from these it shows what happened. A token for a
  keyset may come out in a newer keyset when the mint rotates after the last
  check; it never has proofs of an older one. It is listed and can be revoked;
  `spilman_client.rs:821` is the only caller. A paid invoice
  whose preimage is missing is reported as an error and not listed.
* `streaming_route`: the truncation at `spilman.rs:698` is reached only where the
  price exceeds what any channel can hold. With a price at which the first
  chunk beyond the grace still fits a word, the route is suspended before the
  amount due has wrapped far enough to look paid, and the bound on the seller's
  risk holds. It does not hold for every u64 in the policy: from 2^63 msat per unit on,
  more than all bitcoin, two units cost 2^64 and the amount due is 0. The terms
  of the run stay below that. A seller that does not check the progress may
  lower its own credit by processing an old payment again; the bound then
  holds against the highest credit it had, what it credits now is still backed,
  and the buyer can resume the route with a payment both sides accept.
* `spilman_client`: an opening that ends without a fault leaves its token in the
  activity list or its funding on file, also when the opening payment is
  refused after the swap. The swap and the record of the funding are two steps,
  and a crash or a lost answer between them leaves the money in a channel no
  file names; `FundsTraceable` therefore excepts openings hit by a fault. A race
  for the sender key ends with one key on file, and every channel is funded
  with it. A channel marked closed was settled, and its share is in the wallet,
  or there was none, or a refund looked for it in a keyset that was not the
  settlement's; `refund_keyset` shows that the last case is real.

### Findings

* **The lifetime sum of credits** (`credit_lifetime`). Restoring a snapshot adds
  up the credits of all time of an issuer in a u64 and refuses on overflow. The
  live account bounds what is outstanding only. Novating an amount forth and
  back repeats the sum, so a live account within all its caps can have a
  snapshot that `from_snapshot` refuses, and the store saves it without
  validation. It needs amounts near 2^63 or a very long history.
* **The deadline of an authorization** (`transfer_deadline`). The comment at
  `credit_settlement.rs:100` says that an expired authorization cannot start a
  payment. The deadline is compared once, on entry, with the clock reading the
  caller brings; recovery, two quotes and the prepared payment are awaited before
  the payment starts. What does hold is `LateCallsNeverPay`: a call that begins
  after the deadline starts no payment.
* **The keyset of a refund** (`refund_keyset`). `CHANGELOG.md:26` says that refunds
  are restored "from the settlement keyset ... after mint key rotation". The code
  asks the mint for its active keyset when the refund runs
  (`spilman_refund.rs:137`), which is the settlement's only if the mint has not
  rotated since. Otherwise the outputs are derived for a keyset the settlement
  did not use; when the mint has signed none of them the list of proofs is
  empty, the import is skipped (`spilman_refund.rs:165`), the channel is marked
  closed all the same (line 173), and every later refund returns at once. That
  the library finds nothing in another keyset is the external part: it follows
  from outputs that depend on the keyset, and the code has no fallback for it.

## 4. Proofs

All theorems hold for every value of the constants that satisfies the named
`ASSUME`s of the modules, which TLC evaluates in the runs.

**Account** (`CreditAccountProofs`): `TypeCorrect`, `ExposureTheorem`,
`ConservationTheorem`, `FinalityTheorem`. The caps and conservation laws speak
of one ledger at a time, but none is inductive alone: a debit keeps the offline
part below the outstanding one only if it was before, and the sums stay within
u64 only because of conservation. `AccountInv` is the conjunction `LedgersOK`
(type, cap and conservation of every ledger) and `RecordsOK` (types of the
records, and that what a settlement reserved is its amount plus its maximum
fee, without which completing it could not be shown to stay in range). Lemmas
say what each ledger operation keeps; one lemma per action lifts them.
Assumptions: a well-typed policy that passes the constructor's checks, inputs
of their types, `None` none of them, finitely many identifiers and peers.

The remaining theorems of the account compare the ledgers with the records.
`TotalTheorem`: the aggregate is the sum over the issuers. `SumsInvariance`:
every ledger entry is what the records of its issuer add up to (`SumsOK`), from
which `PaidOutTheorem` and `FinishableTheorem` follow: a pending settlement can
be finished because its own reservation is one term of the sum that the pending
entry equals. A sum over a map of records is written as its weight (`Weighed`),
each record weighing what it contributes; storing a record adds its weight,
finishing a settlement moves a weight from one sum to another, and each action
is then a matter of arithmetic. `DepositsKeyed` is needed besides: a snapshot
holds the set of deposits, so two keys must not hold the same deposit.

`RestoreTheorem` settles what the runs can only sample: for every reachable
account, `SnapshotRestores` holds **if and only if** the peer credits of all
time of each issuer add up to at most `U64Max`. `credit_lifetime` is therefore
not one defect among others but the only way in which a live account can fail
to come back, and every other check of the validation accepts everything the
operations can produce. Its invariant `RestoreInv` adds to the sums that every
record passes the checks of a restore (`RecordsValid`), that the revision counts
the records and the finished settlements (`RevisionCounts`), and that the event
list replays (`EventsOK`): there is a history of the ledgers, one entry per
event, in which each event could be applied to the entry before it and whose
last entry is the live ledgers, no event occurs twice, and the events name
exactly the records of peer credit. An operation extends the history; that the
recursive `Replay` yields it is an induction on the length of the list.

**Sums** (`SumTheorems`). `SumFunctionOnSet` of the community modules takes the
elements in the order `CHOOSE` finds them. The module shows that the recursive
function behind it exists and is unique for every finite set, that the order
does not matter, and what one term added, removed or changed does to the sum.
The library's induction theorems take an operator, which the provers do not
instantiate; `SetInduction` states induction about a set of natural numbers,
which they do, and follows from the library's fact that a set of naturals has a
least element.

**Store** (`CreditStoreProofs`): `StoreTypeCorrect`, `ClaimsTheorem`,
`HistoryTheorem` and `StoreImplementsLog`, for any number of workers, accounts
and deposits. The strengthening is `TransactionOK`: the snapshot an open
transaction writes extends the committed one, and each claim it added belongs to
its own account and was free. `HistoryTheorem` is why comparing revisions
suffices: equal revisions mean equal histories. For the refinement, `Commit` is
the step that maps to a step of `CreditLog`; all others stutter.

**Network** (`PaymentNetworkProofs`): `NetworkTypeCorrect` (no reserve is
overdrawn or overflows), `LearnedTheorem`, `PaymentFinality`, `ReservesTheorem`
and `NetworkConservation`. What a mint learns came through its queue, so
`NetworkInv` adds `AnnouncedIsTrue`: whatever is queued for a mint, or not yet
announced, has been paid to it. The last two theorems are about sums over the
paid invoices and are proved together (`Balanced`): a payment adds the same
invoice to what its receiver got and to what its payer spent, also when these
are one mint, and the reserves change by just that.
Assumptions besides types: finitely many mints, none named `"external"`.

**Transfer** (`CrossMintTransferProofs`): `TransferTypeCorrect`,
`JournaledBeforePaid`, `ResultIsTrue`, `SagaFinality`, `LateCallsOnlyResume`.
What is durable and what the running call holds in memory differ while the
call works, so `TransferInv` describes both. `CarriesOn` says that the saga in
memory extends the durable one: this is why overwriting the record loses
nothing. `Holding` says what the call has at each of its steps, `OneOwner` that
no two sagas name one melt quote, `Journal` that a payment the mint knows of was
journaled with its fee, and `Received` that after the recovery of the destination
wallet an issued quote is either held or being received. Assumptions
(`TransferAssumption`): amounts, fees and times are natural numbers, and `None`
is no number, quote or record.

**Route** (`SpilmanProofs`): `CreditIsBacked` and `AlwaysResumable` without
condition, `RiskIsBounded` under a hypothesis on the terms that the code does
not check and that real terms satisfy; all three with and without the seller's
progress check. `Books` ties the seller's credit to the payment it holds, and to
the highest credit where stale payments are rejected. `AlwaysResumable` is about
rounding: an amount rounded up to the unit of the channel and converted back is
not below what was due, not above the capacity, and accepted by both sides.
`SellerRisk` is not inductive; what is,
`ChunkCovered`, says that everything but the grace and one chunk is paid, and it
also shows that the amount due has not been truncated (`DueIsPrice`) as long as
a chunk and the grace beyond the value of the channel cost less than a word
(`RiskFits`). The lemma `OrdinaryPrices` gives the usual reason for `RiskFits`.
Three of the four terms of the run satisfy it; that the bound also holds for
the fourth is model-checked only. Products and quotients of variables are
isolated in lemmas on numbers.

**Client** (`SpilmanProofs`): `FundsAreTraceable`, `RefundStaysPossible`,
`HandedOutStaysOnFile`, `ClosedIsCollected`, for any number of processes and
keys, and `ClientRefinesRoute`, from which the corollary `ClientCreditIsBacked`
carries `CreditIsBacked` over to the composed system. `ClientInv` says that the
calls under the store lock exclude each other (`LockOK`), that a key which a
call read or created, and the key of every copy of the channel, is the one on
disk (`KeyOK`), that the copy of a refund is the file (`CopyOK`), and where the
money of an opening and of a refund is at each step (`OpenOK`, `CloseOK`).
`ClosedIsCollected` shows that the finding of `refund_keyset` is the only way to
close a channel without its share. For
the refinement, signing maps to `CreatePayment` and every file operation to a
stutter. The interesting step is the opening payment, which the client makes
without the checks of the route: it is the first one (`OpenOK`), and an amount
that the library accepts passes the route's progress check (`AcceptedAmount`).
`MaxPayments` is at least 1 for that reason.

**Startup** (`WalletStartupProofs`): `StartupTypeCorrect`, `SeedIsKept`,
`DatabaseHasOneSeed`, `DatabaseIsKept`, `FamilyStaysTogether`, for any number of
processes, seeds, databases, recovery directories and crashes. `StartupInv` has
a part per danger: what a call may assume of the two stores at each step
(`SeedOf`), that a torn seed file implies that there is no database yet
(`TornOK`), that the database in the wallet directory, or on its way back to it,
belongs to the seed that the next opening would resolve (`HomeOK`, the reason
why it never meets a second seed), and where each file is while a move or a
rollback is under way (`MoveOf`, the reason why no rename finds its target
taken). The writer lock is used through one lemma, `WriterStep`: a step of the
process that has it keeps the invariant if its new call fits the new state.

**Operations** (`WalletOperationsProofs`): `ActivityIsTrue`,
`ActivityIsComplete`, `TokenHasKeyset`, for any number of movements, entries,
keysets and faults. `WalletInv` adds what can have happened to a movement of
each kind, that a token that is out has its saga and a settled quote its
payment (`MovesOK`), that nothing has happened to a movement before its
operation moves the money (`OpOK`, which shows that an append always adds an
entry), that what a send for a keyset selected, and then its token, has no
older keyset (`KeysetKept`, inductive because an older keyset never becomes
active again), and that a list that has dropped an entry is full and stays full
(`Covered`, `Room`). The set of movements need not be finite.

**Model-checked only.**

* `PaidIsDelivered` and `TopupIssued`: liveness under fairness is out of the
  prover's reach.
* `SellerRisk` for terms whose prices exceed `RiskFits` (one of the four terms of
  the run).

`SnapshotRestores` itself is not a theorem, because it is false in general
(`credit_lifetime`); `RestoreTheorem` says exactly when it holds, and
`credit_peer` checks it where the sums fit.

## 5. What is not modelled

* Text and wire formats (JSON, tokens, URLs, BOLT11), cryptography, logging and
  error wording; the helper's command loop and the wire types, which keep no
  state; the start of simulated mints.
* The cdk wallet, cdk-spilman, the mints, SQLite, tokio and the platform's seed
  store beyond what the code in this repository uses of them.
* `load_or_create_wallet_seed`, which takes no lock and which only tests call;
  opening a channel with a caller's own sender secret, whose refund the caller
  keeps to itself; `delete` of the client store, which nothing calls.
* The receiver's key file and configuration. `spilman_receiver.rs:430` writes a
  new key without a lock and over an existing file, so there is no protection
  whose correctness could be stated.
* Owners, modes and symbolic links of private files.
* The blocking file lock inside async functions (`spilman_client.rs:92`): which
  thread runs which future is the application's choice.
* Amounts in the wallet operations; the sums are the wallet library's.
* A caller that cancels a reservation while its transfer may have paid breaks
  the rule stated at `account.rs:498`; no code of the repository connects the
  account and the transfer, so there is no program to compose.

## 6. Plan

The models cover the parts that carry state, and every safety property that the
passing runs check is proved, two of them (`SnapshotRestores`, `SellerRisk`) under
the condition section 4 states. What is left:

1. The seller's risk for prices beyond `RiskFits`: how far the truncated amount
   due may mislead, as a bound in the price.
2. The store over accounts: `CreditStore` takes from `CreditAccount` that a
   revision counts the operations. `RevisionCounts` proves that of the account;
   an `INSTANCE` that connects the two would make it one statement.
3. Shorter proofs where several actions repeat an argument.
