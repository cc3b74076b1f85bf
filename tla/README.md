# Splitzy backend: a TLA+ verification project

The modules in this directory model the Splitzy backend (Node, Express, Prisma,
PostgreSQL) where a unit test is weakest: calls that run at the same time, each of
them a sequence of queries with other calls in between; calls to Google that answer
late; messages that are lost, repeated or reordered; rounding; a server that stops in
the middle. TLC checks the modules on small instances; TLAPS proves the central safety
properties for every number of users, tokens, calls and limits.

Paths are relative to the repository root; `entitlement/` and the like stand for
`src/modules/entitlement/`.

## 1. The system

| Component | State | Operations | What makes it hard | What makes it correct | Modelled |
|---|---|---|---|---|---|
| Verification write path (`entitlement/service/verification.service.ts`) | `subscription_purchases`, advisory locks by token | `verify`, `reconcileFromGoogle`, `acknowledgeIfNeeded`, `revokeByToken`, `expireByToken` | Google is read before the transaction; two transactions per call; locks of two tokens | a token has one owner for good; grants follow the recorded purchase; acknowledgements follow grants; no lock cycle | yes |
| Entitlement table (`entitlement.service.ts`, `entitlement-guard.service.ts`) | `user_entitlements`, `users.isPremium` | grant, close by source, refresh of the flag, premium check | the flag is computed from rows no lock covers | premium only within a paid period | partly |
| Google Play client (`entitlement/google`) | none (Google's own) | `getSubscription`, `acknowledgeSubscription` | answers are old by the time they are used | errors are told apart: gone, passing | partly |
| RTDN webhook (`rtdn.service.ts`, `subscription/rtdn`) | marker rows in the audit log | `processPushMessage` | at-least-once delivery in any order; the marker follows the effect | no message lost, a repeat is harmless | yes |
| Sweeps (`reconciliation.service.ts`, `scripts/*.ts`) | none | acknowledgement sweep, reconciliation sweep | items fail, runs die, the list is old | drift is repaired, acknowledgements are retried | yes |
| Subscription HTTP module | none | `verify`, `status`, the push route | one router, two kinds of caller | adapter of `verify` | yes |
| Group limits and rewards (`limit-evaluation.service.ts`, `reward.service.ts`, `trip.repository.ts` `create`) | trips owned, `reward_unlocks`, advisory locks by user | create a group, earn a slot, delete a group | double taps, several devices, premium lapsing between check and insert | no limit is overrun | yes |
| Trips and membership | `trips`, `trip_members` | create, update, delete, add, remove members | balance check and removal are separate statements | nobody leaves with dues | partly |
| Expenses | `expenses`, participants, payers | create, list, delete, balances | members read before the write; two reads for one balance | participants are members; balances sum to zero | yes |
| Settlements | `settlements` | create, list | as above | a settlement moves both balances | yes |
| Balance engine, split calculators | none | pure functions | rounding, remainders, greedy matching | shares sum to the amount; the plan clears every balance | yes |
| Dashboard | none | the viewer's net in each trip | two reads | the two figures add up | yes |
| Authentication and accounts | `users`, `refresh_tokens` | sign-in, refresh, logout, profile, account deletion, clean-up | no transaction anywhere | one account per identity, a spent refresh token stays spent, a deletion is final | yes |
| Friends | `friend_requests`, `friendships` | request, accept, reject, cancel, remove, search, lists | check, then write; one transaction among many calls | accepting befriends in one step; labels are true | yes |
| Notifications and activity feed | `device_tokens`, `activities` | push and feed rows left behind by a call, feed pages | nobody waits for them | harmless when they fail; no row lost between pages | partly |
| HTTP shell (`app.ts`, `server.ts`, routers, middlewares, controllers) | the process and its connections | dispatch, refusals, boot, drain, exit | order of mounts and guards; signals, timers, crashes | each route behind the guards it needs; drains before it disconnects; stops in time | yes |
| Purchase ledger | rows of `purchases` | `recordPurchase` | | no call in the server reaches it | no |
| Infrastructure and configuration | environment, logs, cache | boot-time checks | | the server does not start misconfigured | partly |

**How they interact.** Clients call over HTTP, Google's Pub/Sub calls the webhook, cron
starts the sweeps. All three run the one write path of purchases, in any number of
processes, against one PostgreSQL. The entitlement table is written by the write path
only; guards read it on protected requests, and so does the group limit, inside its own
transaction. Trips are created under that limit. The calls of expenses, settlements,
membership, the dashboard and account deletion share a trip's rows and lock none of
them. Accounts are everybody's: a token pair names one, and `require-auth` takes it from the
access token on every request without a look at the table. Pushes and feed rows are
started by the calls and left behind.

PROJECT.json lists every component with its status, and under `hazards` what can go
wrong in each at the line where it bites.

## 2. The modules

```
PlayStore <- Entitlements <- Verification <- Rtdn -----------\
                                  ^       \- Reconciliation -- EntitlementPipeline
                                  |                              ^         ^
                           MCVerification                   MCPipeline  PurchaseProofs

TripBook <- (INSTANCE) -\                               GroupLimit <- Server
Splits, BalanceEngine <- Ledger <- MCLedger                            ^   ^
    ^                    ^    ^                         Http <- MCGroupLimit |
MoneyProofs <- LedgerProofs  TripLife -> Activity              GroupLimitProofs
    |              ^          ^     ^
   Sums            |          |   MCMoney
                 TripLifeProofs                  Sessions <- MCSessions, SessionProofs
                                                 Friends  <- MCFriends,  FriendProofs
```

An arrow points to the module that is extended. What is true of all of them: a call in
flight is a record of its local variables, its `at` (or `pc`) is the statement it stands
at, one statement of SQL is one step, and a call may be aborted at any of them.

### Purchases

- **PlayStore** is Google as the code uses it: an external record per token (`play`),
  a clock counted in billing periods (`now`), the state changes a subscription may make
  (`PlayMoves`), and the answers of `getSubscription` (`Recognized`, `Unrecognized`,
  `ReportedState`). A refunded token may be answered 404 or as expired, so both guards
  hold of it. Signatures, products and prices are left out: one product is sold.
- **Entitlements** has the two tables behind premium and the transitions of
  `entitlement.service.ts`, as operators on a table value, because the service runs
  inside a transaction of its caller.
- **Verification** is the write path. A `Worker` is one call in flight in any process,
  `job[w]` its local variables: `idle -> lock -> commit -> ack -> ackcommit`. `Fetch` is
  the read of Google before the transaction; `AcquireLock`, `Decide`/`Refuse` and
  `Commit` are the transaction; `AckCall` and `AckCommit` are the second one, with the
  call to Google inside it. `Fail` ends a call anywhere: a timeout, a rollback, a crash.
  A transaction is READ COMMITTED, so its reads are in `Decide` and its writes become
  visible in `Commit`.
- **Rtdn**, **Reconciliation** and **EntitlementPipeline** add the callers: Pub/Sub
  with loss, repeats and lost answers; probe, lookup, routing and marker as separate
  steps; sweeps over an old list of purchases (`AckPurchases`,
  `ReconcileSubscriptions`, `Sweep`); clients. Every step of the pipeline is a step of
  `Verification` or leaves its variables alone (`ImplementsCore`): `Verification` is the
  abstract specification of the pipeline.

### Groups and the server

- **GroupLimit** has the transactions that create a group or earn a slot, under one
  advisory lock per user, with `PremiumChanges` and `SoftDelete` underneath. A request
  runs `idle -> lock -> count -> insert` or `idle -> lock -> slot -> grant`.
- **Server** is `server.ts` around these calls: `phase` (boot, up, draining, closing,
  exit0, exit1), the `open` connections, the `signals` received. `Listen`, `BootFails`
  and `Restart` are boot; `Shutdown` is a signal, `Closed` the callback of
  `server.close`, `DisconnectDatabase` what follows, `ForceExit` the timer of ten seconds,
  `Fatal` the two process-wide error handlers. An exit takes every running transaction
  with it (`Crash` of GroupLimit). A client may leave (`Leaves`) and its call go on; a
  connection that is kept alive may bring another call while the server drains.
- **Http** is `app.ts` and the routers as data: each layer has its mount, and is a
  middleware with what it refuses and what it sets, or a route with its handler, what
  the handler needs on the request and the status of its success. `Answer` runs a call
  with given flaws (no token, bad body, foreign origin, ...) through the chain, the
  error handler included. It has no state of its own; `MCGroupLimit` asks it of
  a server that runs.

### Money

- **Splits** is the way of a body from the zod schema (`FiguresFit`, `PaymentsFit`, ...)
  through the checks of `ExpenseService.create` to the shares of the four calculators.
  Users are numbers, so that `userId ASC` is `<`. **BalanceEngine** has the nets, the
  pairwise debts and one transfer of the loop of `simplify`; the north-west-corner fill
  is written as the overlap of two intervals on one line.
- **Ledger** is one trip: `members`, `tripDeleted`, `gone` (deleted accounts), `book` (the
  rows of expenses and settlements in the order of their commits), and a call per
  process: add an expense, settle, delete an expense, add and remove members, delete the
  trip, delete the account, read balances, read the dashboard. Each check of the code
  (`AssertAccess`, `FindDetail`, `CountActiveUsers`, ...), each query of balances (`Read`)
  and each write is an action; nothing holds between them but what the code re-reads.
- **TripBook** is what the ledger promises: a set of entries whose moves cancel out,
  payments that stand, expenses that may be withdrawn once, and balances that are the
  running totals. `Ledger` instantiates it (`Book`): an entry is a row that is not deleted
  (`Standing`), a balance is the `Net` recomputed from the rows (`Balance`).
- **Activity** is the feed of one user: rows that carry a stamp and an id, writes that
  fail unnoticed, pages behind the cursor (`Page`, `Walk`). **TripLife** puts the ledger
  and the feed together (who gets a row is what the calls have read), with rows of
  other trips and of friends besides, and adds the offset lists of expenses and
  settlements (`ListByTrip`, `ListSettlementsByTrip`): rows and total are two statements,
  each with a snapshot of its own, and rows of one stamp come in any order, which may be
  another one on the next page (`Arrangements`), so a list is a set of possible answers.

### Accounts and friends

- **Sessions**: `accounts` (rows of `users`), `pairs` (token pairs; `row` is the refresh
  token's row), and calls: sign-in with handle allocation and the insert that may hit a
  unique index, refresh (find, revoke, create), logout, profile update, account deletion,
  which writes a handle (`AnonHandle`) that anybody may have picked and is then refused.
  Tokens expire, the clean-up job deletes rows, `require-auth` checks each call
  (`Authorised`).
- **Friends**: `request` by direction, `friends`, the row lock of the one transaction
  (`rowLock`), `device` tokens, calls and the push each leaves behind. `LookupFails` is
  the query of a push that fails where nobody awaits it: the server exits with every
  call in it. `Search`, `ListRequests` are reads between two states of the tables.

The **MC** modules hold the values of the constants, the **Proofs** modules the proofs.

Advisory locks are keyed by `hashtext` of the token or user id. The model takes the hash
for injective. A collision would make two tokens share a lock, which is safe for the
data; the lock order, though, is that of the tokens and not of the hashes, so the proof
that no calls wait in a circle holds for tokens whose hashes differ.

## 3. The runs

| Run | Instance | What it shows |
|---|---|---|
| `core_safety` | 2 users, a chain of 2 tokens, 2 calls, one period, symmetric in users and calls | all safety properties of the write path, under every interleaving with failures |
| `pipeline` | 1 user, 1 token, a client, a webhook handler and a sweep; 1 verify, 1 fault | every step implements the core; grants converge to Google's word, acknowledgements and markers happen in the end |
| `group_limit` | 1 user, 3 calls, limits 1 (free), 1 (slots), 3 (premium), 2 signals | admissions stand, ceilings hold, every call ends, the server drains first and stops in time, every route is behind its guards |
| `ledger` | 2 users, 2 calls at once out of 10, 3 rows, amounts up to 2, symmetric in calls | the tables refine the book; what check-then-write calls still promise |
| `money` | 4 users, 1 call after another out of 17, 3 rows, amounts up to 50 over a column of 40; pages of 1 and 2, a feed of 3 rows | shares, nets, pairwise debts and plan are exact; lists and the feed can be paged |
| `sessions` | 2 calls, 2 identities, 3 handles, 2 of them those of deleted accounts, 2 accounts, 2 token pairs, symmetric in calls and identities | identities, rotation, revocation, deletion |
| `friends` | 2 users, 2 calls with their pushes, 1 device | requests, accepts, searches; every call ends |
| `stale_snapshot`, `double_ack`, `pending_upgrade`, `stale_flag` | 1 user, 2 tokens, 1 or 2 calls, no failures | four statements of the code's comments that an interleaving refutes (section 6) |
| `push_crash` | as `friends` | a fifth one, refuted by one failed query |

The largest are `sessions` (2.2 million distinct states), `ledger` and
`money` (0.8 and 0.7 million).

**Why the bounds are enough.**

- Purchases: calls meet on a token, on its linked token, or on a user: two calls, two
  tokens and two users give every such meeting, both migrations of one chain and the
  race of two accounts for one token included. `PlayMoves` is the life
  `NONE -> ACTIVE -> REVOKED` (with `GONE` in the pipeline): one entitling state, one
  final state, and `EXPIRED`, which a token enters when another replaces it. States that
  suspend (ON_HOLD, PAUSED) take the branch of EXPIRED; `pending_upgrade` adds PENDING.
  `Horizon` is the number of times a period may end: one is enough for a grant to lapse
  while a call is in flight. The pipeline run trades breadth for liveness: one token, no
  passing of time, one verify and one fault, which can hit any phase of any caller.
- Groups: locks are per user, so users do not meet; three calls are a holder, a waiter
  and one that comes later. In the code `MAX_FREE_REWARD_GROUP_SLOTS` is 0 (the reward is
  switched off) and the limits are 3 and 10. The run keeps a slot to earn, so that the
  lock the two flows share matters. Signals beyond two are not told apart.
- Ledger: two calls that overlap, after rows that earlier calls left. Three rows are an
  expense, the settlement that squares it, and the row that comes in between. Amounts
  are small because the checks compare with zero; what arithmetic can get wrong is left
  to `money`.
- Money: four users give two debtors and two creditors; the bodies are chosen one for
  each case (section comments in MCMoney): a remainder the payer takes, several payers,
  remainders of basis points in an order that is not that of the users, a payer outside
  the expense, figures that do not add up, an amount over the column. The real limits of
  basis points and share units are used. The lists of three rows are read in every order
  their stamps may have, ties of two and of three included, over pages of one and two
  rows: a tie within a page, one over its border, a row that comes or goes at every place.
- Sessions and friends: a race here is of two calls of one person, of two persons over a
  handle, or of the two sides of a pair. Two accounts are those of two persons, or one
  and its successor after a deletion. Two pairs are a token and the one it is exchanged
  for; a second refresh of the same token is in flight beside it and counts
  (`Refreshing`), but the pair it would create is beyond the bound.

Beyond these bounds the theorems of section 5 hold for all values.

**Deadlock** is checked everywhere but in `pipeline`, which may come to rest because its
verifies, messages and faults are used up.

**Fairness.** Safety assumes none. Liveness assumes what the platform does:

- `pipeline`: calls that started run on, and get the locks they wait for (strong
  fairness of `Work`: PostgreSQL queues the waiters of an advisory lock); Pub/Sub
  redelivers a message until it is answered (strong, `Deliver`); a handler that is
  running goes on (weak); cron starts the reconciliation sweep again and again (strong),
  and a sweep goes on with its list (weak). Nothing is assumed of Google, of clients, of
  the acknowledgement sweep, or of failures but their bound: with failures for ever, no
  retry could succeed.
- `group_limit`: the timer of `server.ts` fires (weak fairness of `ForceExit`), lock
  waiters are queued (strong, `Locks`), a transaction runs on (weak, `Work`). Nothing is
  assumed of connections or of the database's disconnect: the timer is there for that.
- `friends`: a call goes on (strong fairness of its `Step`: Node runs the continuations of
  answered queries, PostgreSQL queues those who wait for a row), and may be aborted.

## 4. The properties

Each property is stated in words above its definition. In short:

- `TokenNeverChangesOwner`, `SuccessorInheritsOwner`, `DecisionStands`: who owns a token,
  although the first ownership check of `verify` runs outside every lock.
- `GrantsAreBacked`, `PremiumWithinPaidPeriod`: what makes a user premium, although
  snapshots of Google are committed late and out of order.
- `AckIsTruthful`, `AckAfterGrant`, `EveryGrantAcknowledged`: Google is told once the grant
  is safe, the column never claims more than that, and a failed call is made good.
- `WaitsUpwards`: calls do not wait for each other in a circle.
- `ImplementsCore`, `GrantsConverge`, `EveryMessageMarked`: what the webhook and the sweeps
  add up to.
- `AdmissionStands`, `WithinCeiling`, `FreePlanHolds`, `EveryRequestAnswered`: group limits.
- `DrainsFirst`, `StopsInTime`: a shutdown waits for the clients, and ends whatever happens.
  `ChainsFit`: for every route, environment and small set of flaws in a call, the handler
  finds on the request what it reads, the webhook is reached without a user's token and
  only with the secret, and a refusal names a flaw the call has.
- `RefinesBook`, `NetsCancel`: a trip's money is conserved, whatever calls meet, and the
  nets of a summary cancel out even when its two reads are of two moments.
- `RemovalSquare`, `ErasureSquare`, `DeletedTripDries`: check-then-write without a lock
  does not give "nobody leaves with dues" or "a deleted trip is closed". These state
  exactly what it does give: an exception needs a row that came or went under the call,
  and a deleted trip gains at most what was admitted before. `LeaversAreSquare` is the
  full promise, checked for calls that do not overlap (and proved for more, section 5).
- `FairShares`, `SchemaCalculatorsAgree`, `PairwiseReconciles`, `PlanSettles`, `PlanShrinks`:
  rounding, two validations that agree, two views of one balance, a plan that settles.
- `FeedWalks`, `ExpensePages`: pages read while rows come and go. The feed loses nothing.
  An offset list may: a client misses at most one row for each that was withdrawn from the
  pages it had seen, and is shown at most one twice for each that came, wherever between
  two pages, or between a page and its total, the change falls. That is said of the rows
  that no tie can push over the border of a page (`Firm`); the others may be missed or
  repeated with no change at all.
- `OneAccountPerIdentity`, `RotatedOut`, `RevokedDries`, `ErasedIsFinal`: sessions without
  transactions. The last two are what "single-use" and "deleted" come to.
- `AcceptedTogether`, `PendingIsFresh`, `LabelsFit`, `CallsEnd`: friends.

Every property of a passing run has a mutant in PROJECT.json: a variant of one definition
of the model, of the kind a slip in the code would be, under which TLC finds the property
violated.

## 5. The proofs

All theorems are proved from the specifications without fairness and the assumptions the
modules name on their constants: values such as `NoToken`, `NoUser`, `NoRequest`,
`NoProcess` are none of those they stand apart from, tokens have a strict order (`Rank`), a
refund is final (`PlayMoves`), limits are natural numbers, a trip's users and the calls
about it are finitely many and of the kinds the schema lets through, a page has at least
one row, and the rows a feed may get are finitely many, each with its own id. Within that,
the sets of users, tokens, calls, accounts and rows may be of any size, and amounts,
figures and pages of any value.

- **PurchaseProofs** is about the write path and its callers. `TypeCorrect` has one lemma
  per action. `InvariantHolds` is that `IInv` is inductive, and from it follow
  `GrantsBacked`, `AcknowledgementTruthful`, `DecisionsHold`, `PremiumIsPaid`,
  `OwnershipImmutable`, `SuccessorsInherit` and `AcknowledgedAfterGrant`. `GrantsAreBacked`
  is not inductive alone: whether a `Commit` keeps it depends on what the call decided
  earlier. `IInv` therefore says, phase by phase, what a call in flight may rely on:
  it holds the locks of all it decided on (`HoldsLocks`), its snapshot is something Google
  did say (`SnapshotIsPast`), its decision still fits the rows (`DecisionFits`), and an
  acknowledgement comes after its grant (`AckFollowsGrant`); and what the rows owe to
  Google (`AckIsTruthful`, `PeriodsArePaid`). The argument: a row of a token changes
  only in a commit of a call that holds the token's lock, so a step of one call leaves
  every other decided call's facts alone (`OthersStand`, `CommitUndisturbed`).
  `NoCircularWait` follows from `LockDiscipline`: a call outside its transactions holds no
  lock, one that waits holds only lower ones. `PipelineImplementsCore` is the refinement,
  step by step, with the invariant that a revoke notification is about a token Google did
  revoke (`NotificationInv`); `PipelineGrantsBacked` is then a corollary, as every safety
  theorem of the core would be. `PipelineTypes` types the whole pipeline, callers included.

  Convergence is liveness, but the two facts it rests on are not. `FreshCallsRepair`: a
  commit whose answer is still what Google says (`Current`) leaves the grant live exactly
  when Google entitles, whatever stale calls, lost messages and failures did to the row
  before. It needs that a verdict taken on a snapshot can only have aged (`Judged`).
  `SweepsMissNothing`: whoever is wrongly or rightly premium is in the reconciliation batch,
  and whatever Google has not heard acknowledged is in the other. What TLC then adds, on its
  instance, is that such a call comes.

  Four properties that the code breaks (section 6) are proved under the condition that
  would keep them. `FlagCoherentAlone`, from `FlagInv`: the flag is never behind the
  table, and a call about to commit carries the flag its table will call for.
  `AcknowledgedOnceAlone`, from `Unheard`: a call that holds an unacknowledged snapshot
  holds it while Google has heard nothing.
  `TerminalIsFinalAlone`, from `EndsAtGoogle` and `EndsInCall`: a row is terminal only where
  Google ended the purchase, and no call on its way says otherwise. `OneLiveGrantAlone`
  adds `PredecessorsSpent`: behind a recorded successor Google has ended the predecessor,
  nobody is premium by it, and no call is about to make anybody so.
- **GroupLimitProofs** proves `LimitInvariant` and from it `AdmissionsStand` and
  `CeilingHolds`: what a transaction reads under the user's lock can only shrink until it
  writes (`OthersKept`). `FreePlan` proves `FreePlanHolds`, a statement about whole
  behaviours: while the user is not premium, every step keeps `FreeInv`, that the limits
  evaluated for the user are those of the free plan. `ServerImplements` shows that every
  step of `Server`, an exit in the middle of everything included, is a step of
  `GroupLimit` or leaves it alone, so that these theorems hold of the server; `Drains`
  proves `DrainsFirst`.
- **Sums** has the laws of sums over finite sets, for every finite set and every function
  with integer values: a sum is what is taken out of it plus the rest (`SumTake`), it is
  additive, monotone and the same after renaming, it splits along a partition (`SumParts`),
  and two sums change places (`SumSwap`). The community modules define a sum by recursion
  over the sets it removes one element from; that such a function exists, and is the only
  one, is `IterExists` and `IterUnique`. The induction is done without an operator as a
  parameter: the elements that refute a statement form a set, and the strict subset order
  (or `<` on the naturals) gives it a least one.
- **MoneyProofs** is about the operators of Splits and BalanceEngine, with no state.
  `CalculatorAccepts`: a body that passed the schema passes its calculator.
  `CalculatorsAreFair`: the shares of each calculator add up and are fair. For PERCENT and
  SHARES the floors leave fewer units than there are users (`FloorsLeave`), the ranks of
  the remainders are a numbering without gaps, whatever ties (`RanksCount`), so exactly the
  missing units are handed out, and first to the largest remainders. `NetsSumToZero`:
  contributions and shares of an expense are one amount, what is sent is received.
  `PairwiseTotals`: the north-west-corner fill is an overlap of intervals, and intervals
  that tile a line meet every interval in its whole length (`Tiles`); hence each debtor's
  debts are the debtor's share and each creditor's what was paid.
- **LedgerProofs** proves `LedgerTypes`, with the columns' widths and that the owner stays
  a member, by `LedgerIInv`: what a call relies on is in its own variables, and rows keep
  the shape they were inserted with. From it follow `RemovalIsSquare`, `ErasureIsSquare`
  and `DeletedTripIsDry`: a call's decision is about rows it has read, so either these
  are still the rows or something came in between. `CalculatorsNeverRefuse` needs nothing
  more: a call at its write has passed the checks.
  The statements about money need to know what the figures in a call are, which
  `LedgerIInv` does not: an answer is about nets computed steps ago, from reads that are
  older still. `MoneyInv` adds that each row, in the table or read by a call, is whole and
  fair (`RowOK`); that the nets of a summary are those of its two reads, whichever they are
  (`SummaryOK`); and for the plan that what is left of a user's net is the net less the
  transfers so far, and nobody has changed sides (`PlanOK`). From it follow `ExpensesAreFair`,
  `NetsCancelOut`, `PairwiseAgrees`, and `PlanSettlesAll`: each transfer closes a balance and
  opens none (`TransferCloses`), the last one closes two because what is left sums to
  zero (`NothingIsLeft`), which is where the -1 of the bound comes from.
  `PlanShrinksAlways` is the count of open balances along the way.
  `LedgerRefinesBook` maps each step to one of TripBook's or a stutter: an insert is a
  `Post` whose move adds up to zero, a soft delete a `Withdraw`, and the balances that the
  queries recompute are the running totals (`NetMore`, `AddedPosts`, `MarkedWithdraws`).
  A second call that withdraws the same row is a stutter.
  `LeaversSquare` has the hypothesis `LeavingApart`: while a member is being removed or an
  account deleted, no call is on its way that writes or withdraws an expense or writes a
  settlement. That is all `LeaversAreSquare` needs: writers may overlap each other, leavers
  each other, and both with every other call. `SerialInv` carries what a leaver has read,
  and the team a writer has checked, to the write.
- **TripLifeProofs** proves that a client can page through what changes. `FeedReadsOn`
  follows the cursor: after n pages it has been shown everything up to its cursor, once
  (`Reading`), and rows of the later moment only come in; the number of pages suffices
  because each shows a new row. `PagesReadOn` compares the lists before and after a step.
  For one order of the rows, a row that was skipped moved up because a row already seen
  has gone (`RowsLost`), and one seen twice moved down because a row has come
  (`RowsAgain`). A firm row is on the same page in every order that its stamps allow
  (`FirmPage`), so what holds in one order holds of the client, who may meet a different
  one on each page (`PagesWalk`); and a total of either moment lets it go on far enough
  (`PagesAsked`). `LifeIsLedger`: beside its feed and lists the
  ledger takes its own steps or none, so the theorems of LedgerProofs hold of the instance
  with all the calls as well.
- **SessionProofs** proves `SessionInvariant`, that `IInv` is inductive: what each call has
  learnt and still holds, that an exchanged token is spent for good. Uniqueness
  (`IdentitiesAreUnique`) needs what the calls have learnt, and nothing of which handles
  people pick: `AnonHandle` may send two accounts to one handle, and every handle of it
  may be in use. `ExchangedIsRevoked`, `RevocationDries`
  and `ErasureIsFinal` follow. `SingleUseAlone` is the step from `RevocationDries` to
  "single-use": if no two refreshes of one token overlap (`RefreshesApart`), the pairs
  created for it and the refreshes that still may are at most one together (`OneExchange`),
  whatever other calls run, fail half-way or are retried.
- **FriendProofs** proves `FriendInvariant`: as long as no other call about the pair has
  been beside it, what a send has read of the pair still holds (`SendFits`). From it
  follows `FreshRequests`; `AcceptIsAtomic` and `SearchesFit` follow step by step.

Only model-checked:

- all liveness (`GrantsConverge`, `EveryGrantAcknowledged`, `EveryMessageMarked`,
  `EveryRequestAnswered`, `StopsInTime`, `CallsEnd`): fairness is out of the prover's reach;
- `ChainsFit`: it is about the one table of routes the server has, no constant of it
  varies and no step changes it; TLC evaluates it for all of it, and there is nothing to
  generalise;

Some hypotheses of theorems are not kept by the code, and are there because the property is
false without them: `UsersApart`, `TokensApart`, `ChainsApart`, `SuccessorsEntitled`,
`EndsForGood`, `LeavingApart` and `RefreshesApart`. Each is about which calls overlap, or
about Google; each leaves the failures and the other interleavings in. TLC was run on
instances restricted to them: they keep reaching the grants, chains, departures and
exchanges the theorems speak of.

## 6. Where the code and its comments part

Five comments promise more than the code keeps; each has a run whose counterexample TLC
prints.

1. `stale_snapshot`: "EXPIRED/REVOKED are terminal" (`entitlement.repository.ts`), and a
   migrated predecessor is terminal "so no later event re-processes it". Google is read
   before the transaction and the answer is written whatever the locked row says by then:
   an older ACTIVE snapshot reopens the purchase and its grant, until a sweep repairs it.
2. `double_ack`: "EXACTLY ONCE", "can never double-acknowledge". The acknowledged column is
   overwritten by a snapshot from before the acknowledgement; the next call asks Google again.
3. `pending_upgrade`: on a chain the successor "becomes the single active entitlement".
   The predecessor is resolved only while the new token has no row: a token recorded
   PENDING first never closes its predecessor.
4. `stale_flag`: `users.isPremium` is "kept coherent". Two transactions on two tokens of one
   user each miss the other's row, and the last one stores a stale flag.
5. `push_crash`: "Never crash the caller on notification failure"
   (`notification.service.ts:92`). `sendToUsers` awaits the look-up of the device tokens
   outside its `try`, its callers drop the promise, and `server.ts` answers an unhandled
   rejection with `process.exit(1)`: one failed query ends every call in flight.

The theorems show what stays true all the same: nobody is premium beyond a paid period,
no token changes hands, a fresh answer repairs whatever a stale one did, and (on the checked
instance) everything converges. And they show how little each of the first four comments
lacks:

| comment | holds if | theorem |
|---|---|---|
| 1, terminal rows | no two calls on one chain overlap between the read of Google and the commit (`ChainsApart`), and what Google ends stays ended (`EndsForGood`) | `TerminalIsFinalAlone` |
| 2, exactly once | no two calls on one token overlap (`TokensApart`) | `AcknowledgedOnceAlone` |
| 3, single entitlement | as for 1, and a successor is entitling when first recorded (`SuccessorsEntitled`), so not PENDING | `OneLiveGrantAlone` |
| 4, coherent flag | no two transactions of one account are open at once (`UsersApart`) | `FlagCoherentAlone` |

The locks the code takes are the ones that 1 and 2 need, but they are taken after
Google was asked, and given up before Google is told; 4 lacks a lock on the account; no lock
gives what 3 needs besides.

Smaller observations, met while translating. No run is spent on them; the properties
that hold beside them are named where there are some.

- Ledger: `access.ts:22` says `assertMember` covers soft-deleted trips, and it does not
  look at the trip (`DeletedTripDries`). "Both or neither" (`expense.service.ts:264-269`,
  `dashboard.service.ts:40-42`) is not what two sequential reads give; `NetsCancel` is. A
  former member whose balance an expense's withdrawal moved can still delete the account.
  The amount column is 32 bits wide and the schema admits 10^11: what is larger than the
  column is answered 500. `paidBy` is the first payment by `createdAt`, which rows of one
  insert share. Lists of trips are paged by `updatedAt` without a tie-break.
- Lists of expenses and settlements: the comment at `expense.repository.ts:176-178` says of
  the page and the total that "both see the same snapshot". They are two statements of a
  READ COMMITTED transaction, so a commit between them gives a total of a later moment.
  `(spentAt, createdAt)` and `(settledAt, createdAt)` are no unique order: rows with equal
  dates on both sides of a page's border may be skipped or repeated although nothing
  changed. `ExpensePages` holds with both.
- Engine: the doc of `simplify` (`balance-engine.ts:407`) claims "at most
  max(|creditors|, |debtors|)" transfers; the header's |creditors| + |debtors| - 1 is the
  bound (`PlanSettles`). `percent.calculator.ts:34` says a remainder is "only ever 1 minor
  unit" with EQUAL; it is up to n - 1 (`FairShares`).
- Sessions: README.md:434 and `docs/api-contract.md:69` call refresh tokens single-use;
  rotation is three statements, and two refreshes that overlap both succeed
  (`RevokedDries` says who; `SingleUseAlone`, that nothing else is in the way).
  `auth.service.ts:180` means to cut a deleted account off: a refresh in flight still creates a pair, which `ErasedIsFinal` shows to lead nowhere.
  The profile update writes by id and may write to an account deleted a moment ago.
  Handle candidates `${base}_${i}` cut to 30 characters are all equal for a base of 29 or
  more. Races for a handle or an identity end in a 409. `user.repository.ts:80-81` derives
  the handle of a deleted user from its id "so the NOT NULL + UNIQUE constraint on handle is
  never violated", but HANDLE_PATTERN (`auth/constants.ts:13`) lets anybody pick
  `deleted_` and 16 hexadecimal digits: the deletion then ends in a 409 after its sessions
  have been revoked (`SoftDelete`). Look-ups of handles skip deleted users, the index does
  not: a sign-in whose first free candidate is such a handle fails.
- Friends: two accepts at once both record activity; an accept whose name look-up fails
  answers 500 after it committed; a cancelled request can be accepted by a call that had
  read it; requests can cross (`PendingIsFresh`); a search may call a pair strangers while
  their request turns into a friendship (`LabelsFit`). A device may be registered for
  another user between look-up and send, and its row outlives logout and deletion.
- Server: malformed JSON and refused origins reach the error handler as unknown errors
  and before `requestId`: 500, without the `X-Request-Id` README.md:422 promises on every
  response. The comment in `rtdn.controller.ts` takes 400 for "not retryable"; Pub/Sub
  redelivers on anything but a success. A second signal makes a graceful drain exit
  with 1. The drain waits for connections (`DrainsFirst`), neither for calls whose client
  has left nor for pushes. Unknown paths under `/trips` and `/friends` answer 401 to who
  has no token. `/health/ready` answers 200 when degraded.

## 7. Abstractions, and what is not modelled

- History and audit rows, telemetry, logs, metrics, DTOs and the wording of errors. The
  marker row of the webhook is modelled: it decides.
- Purchases: `premiumExpiresAt` (display only); grants from other sources than a
  subscription, and `grant`/`close` in a transaction of their own (no caller in the
  server); the purchase ledger (replaced by verification); the choice among line items and
  unknown products; order and limit of a sweep's batch, and the alerts after it;
  malformed, test and token-less notifications (a marker and nothing else). Time between
  periods is not counted; a missing expiry counts as past, which is how `isEntitling` takes
  it.
- Trips: the update of name, emoji, colour and description, which no other call reads.
  Titles, dates, categories and notes of expenses and settlements: the rows of a list may
  have any stamps, equal ones too. One trip is modelled; a user's trips meet only in the
  dues check of a deletion, which looks at the balance of each in the same aggregates.
- Accounts: a profile is its handle, because only unique columns can make calls meet. That
  the first 16 digits of two ids differ is likely, and is not assumed.
  Firebase is external and vouches for an identity. Tokens are pairs that expire;
  signatures and hashes are taken to be what they should be.
- Friends: the normalisation of phone numbers in contact sync (the set of matched users is
  any set); the list of friends (a read of one table). FCM is external.
- Http: counts of rate limits (a limiter may refuse), CORS headers, the shape of ids and
  bodies beyond valid or not. **Server** models one process; what other processes do to
  the tables is `Elsewhere` and the interleavings of the other modules, where a crash is
  the abort of the calls it hits.
- The in-memory cache (nothing uses it), Firebase set-up, the ping of the health probe.
- `src/scripts` other than the sweeps: tests, fakes and smoke runs, some 9,000 of the
  repository's lines, which are read for what they say of the program.

Undefined behaviour: none was met; races are between statements, not within them.

## 8. What is left

The order and limit of a sweep's batch, with the starvation they allow, is the one hazard
listed without a property: it needs a batch of several purchases in the pipeline, whose
liveness run is at its limit with one. Next would be the composition of `GroupLimit` with
`Entitlements` (premium there changes at will, which is more than the write path does) and
the deletion of an account over several trips.
