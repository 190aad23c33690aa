# A TLA+ model of PowerChain DeFAI

PowerChain DeFAI moves the PWRC token between Solana and Sui, pays out claims of
it, lets it be staked and quotes swaps.  This directory holds TLA+ models of the
parts of the repository that keep state and change it under concurrency, the TLC
configurations that check them, and proofs about them checked by TLAPS.
`PROJECT.json` maps every definition to the lines it is translated from, and
lists components, runs, mutants, findings, hazards and theorems.

    tlc -config MCStaking.cfg MCStaking.tla
    tlapm StakingProofs.tla

## 1. The system

| Component | State | Operations | Talks to | What is hard |
|---|---|---|---|---|
| Staking program (`programs/solana/powerchain_staking`) | config, one position per owner, stake and reward vaults | initialize, fund, open, stake, request_unstake, withdraw, claim, set_reward_policy, set_authority, set_paused | Token-2022 | ledgers of several owners over shared vaults, rounding, policies that change, a mint that withholds fees |
| Escrow program (`programs/solana/powerchain_escrow`) | escrow, a vault per mint, receipts | initialize, deposit, withdraw, admin, policy | Token-2022, transfer hooks | hooks that run in the middle, fees, delegates, a timelock that changes |
| Bridge program (Anchor and Move) | authority, pause, nonce | record_intent, set_authority, set_paused | readers of its events | the nonce is the only order of events |
| Bridge API (`apps/bridge/server/services/bridge-operations.ts`) | `bridge_quotes`, `bridge_transfers` | issueBridgeQuote, createBridgeTransfer, attachBridgeSourceTransaction | runtime checks over RPC providers, the database | retried and duplicated requests, a runtime that moves between check and use |
| Bridge worker (`apps/backend/src/bridge/worker.ts`, `apps/worker-bridge`) | status, evidence, lease and retry columns of `bridge_transfers` | claim, renew, process (five stages), release, record a retry | Solana, Sui, Wormholescan, service fees | several processes on one row, leases that run out, crashes, answers that stay pending |
| Claims API (`apps/backend/src/claims/service.ts`) | `claim_allocations`, `claim_challenges`, `claims` | eligibility, challenge, reserve, submit | the wallet's client | check and act in different transactions, expiry, replays |
| Claim worker (`claims/payout.ts`, `claims/queue.ts`, `apps/worker-claims`) | status, signature, lease and retry columns of `claims` | pay, verify, finalize, record a retry | Solana, a remote signer | a payment and its record are not atomic |
| Leases (`packages/runtime/src/index.ts` and three queues) | two columns of a row | claim, renew, release | the database | time, suspension of a process |
| Service fees (`apps/backend/src/fees`, `apps/worker-fees`) | `bridge_service_fee_settlements` | submit, verify, retry, manual review | Solana, Sui, operators | verifications that race, READ COMMITTED reads |
| Fee governance (`apps/bridge/server/service-fees.ts`, `fees/policy.ts`) | proposals, policies | propose, apply, reject, resolve | operators | quotes under an older policy |
| Worker runtime (`packages/runtime`, `workers/maintenance.ts`, `heartbeat.ts`) | maintenance state, heartbeats, the supervisor of each process | tick, time out, stop, drain, resume | all workers, operators | ticks that go on after their time, a cached guard, processes that are gone |
| Deployment (`scripts/deploy-drain-wait.mjs`) | none | poll readiness until the drain is done | readiness API | an answer that is never given |
| RPC client (`apps/bridge/server/rpc`) | read cache, shared requests, cool-downs of endpoints | read, fail over, abort | JSON-RPC providers | callers with different needs share one request |
| Transfer status (`hooks/use-transfer-status.ts`) | connection, sockets, timers of a page | connect, fall back, poll, refresh | websocket, event stream, API | four transports write the same fields |
| Staking journal (`hooks/use-staking-transaction-journal.ts`) | local storage, a copy per tab | record, reconcile, clear | status API, other tabs | read, await, write |
| Swap (`components/trade/swap-interface.tsx`, `swap/cetus.ts`) | the form, the quote and the review of a page | quote, review, prepare, sign | aggregator, wallet | edits and expiries under a request |
| Operation journal, limits, prices, portfolio, activity, other routes of a swap, user interfaces, SDK | none, or caches | reads, transaction building | providers | little state |

How they meet: the API inserts a transfer and a worker carries it through its
statuses; the worker asks the fee service before it completes a transfer, and
verification of that fee has workers and operators of its own.  The claims API
brings a claim to SUBMITTING and the claim worker pays it.  Every worker takes
its jobs under leases, renews them with `runWithLeaseRenewal`, and is started,
drained and stopped by the worker runtime, whose readiness a deployment polls.
All of them meet only in PostgreSQL; there are no messages between processes.
The programs on the chains are reached by transactions that users sign, and seen
through the RPC client and the events they emit.

## 2. Plan, and what became of it

In order of how much the product rests on it:

1. `LedgerSums`, `Staking`: principal and rewards of stakers.
2. `BridgeTransfers`: quotes and transfers of the API.
3. `TransferPolicy`, `BridgeWorkers`: the workers, and the transition policy as
   the abstract specification they implement.
4. `ClaimService`, `LeaseQueue`, `ClaimPayouts`: claims, leases, and payouts as
   the composition of both; payouts implement the claim service.
5. `FeePolicies`, `ServiceFees`: policies and quotes, and the settlements under
   leases composed with them.
6. `WorkerRuntime`, `DrainWait`: supervision, drain, and the deployment that
   waits for it.
7. `Escrow`, `BridgeProgram`: the other programs.
8. `StakingJournal`, `TransferStatus`, `RpcClient`, `SwapPage`: the parts of the
   browser and its server that keep state between requests.

All of it is done.  Left from the first plan: one composition of API, workers
and fees from a quote to a completed transfer (each pair is composed through the
row they share: `BridgeWorkers` has `Arrive` and `FeeVerified`, `ServiceFees` has
the submission and the completion of a transfer), and the operation journal of
the browser.

## 3. Modules

### Staking: `LedgerSums`, `Staking`

The Solana runtime runs an instruction to its end or undoes it, so an
instruction is one action and every `require!` and `checked_*` a conjunct of its
guard.  The variables are the fields of `StakingConfig`, the `StakePosition` of
each owner, the amounts of both vaults and the slot.  Amounts are bounded by
`U64Max`, where the program's checked arithmetic fails.  The mint may withhold a
fee of each transfer (`Fees`; `Credited`), and anyone may send tokens straight to
a vault (`Gifts`).  `PPM` scales `PPM_DENOMINATOR` down together with the rates,
so that rounding happens with small numbers.  `history` records what happened to
each owner, with earnings slot by slot in exact fractions; no guard reads it.

`LedgerSums` takes the sum of a field over the owners as the number of units it
holds, a cardinality, so that `LedgerSumsProofs` can derive from the theorems on
finite sets what a change at one owner does to the sum.  `MCStaking` assumes,
and TLC evaluates, that it agrees with the fold of the community modules.

### Bridge API: `BridgeTransfers`

`createBridgeTransfer` asks the runtime first and runs its SERIALIZABLE
transaction later: `Submit` and then `Replay`, `Create` or `Reject`, with any
number of requests between.  A request in flight may be taken up any number of
times: clients retry and duplicate.  The runtime changes at any time.  The
intent's commitment is a hash over the quote and stands for the quote itself;
amounts and addresses are inside it.

### Bridge workers: `TransferPolicy`, `BridgeWorkers`

Every `await` on a query, a transaction or a provider ends a step:

    idle -> selected -> granted -> running -> read -> verified -> ran -> idle
                                             -> failed -> idle

`Select` is the `findMany`, `Grab` and `Miss` the `updateMany` with its row
count, `Start` and `Renew` the renewals of `runWithLeaseRenewal`, `Read`,
`Verify`, `Write`, `Skip` and `Fail` the stages of `processBridgeTransfer`,
`Release` and `RecordRetry` the end of a pass.  Leases and retry times count down
in ticks.  What Solana, Sui and Wormholescan report is a number, `reported`,
that only grows, or stops for good: redemption is by an Executor outside of the
repository (`docs/REAL_NTT_BRIDGE.md:16`).  Every question may also stay
unanswered.  `TransferPolicy` is
the table of `transition-policy.ts`, which nothing in the repository calls: the
workers are checked, and proved, to implement it.

### Claims: `ClaimService`, `LeaseQueue`, `ClaimPayouts`

In `ClaimService` a challenge is created from an eligibility read earlier
(`AskChallenge`, `SeeUnclaimed` or `SeeInactive`, then `CreateChallenge`), and
`Reserve`, `Rejoin` and `Submit` are the transactions.  What workers do to a
submitted claim is left open (`RecordStatus`, `Finalize`).  `LeaseQueue` is the
claim, renew and release of `claims/queue.ts`, which the other two queues
repeat, for any table of jobs.  `ClaimPayouts` puts both together with the
worker's steps and a chain on which a payment is pending, landed or dropped.
Sending may fail, or succeed without an answer.  `ServiceKept == ServiceSpec`
states that the workers do no more to claims and allocations than the service
leaves open.

`submitReservedClaim` answers a reservation that ran out by updating it to
EXPIRED and then throwing, inside one transaction: the update is rolled back, so
the model has no such action (finding `claim_expired`).

### Service fees: `FeePolicies`, `ServiceFees`

`FeePolicies` has one route and source chain, for others do not meet.  Its clock
is the number of policies applied.  `IssueQuote` reads the policy in one step and
stores the quote in a later one, as `issueBridgeQuote` does outside a
transaction.  `ServiceFee` is the arithmetic of `calculateServiceFeeBaseUnits`.
`ServiceFees` extends it with the settlement of a transfer, the leased workers of
`apps/worker-fees` (by instantiating `LeaseQueue`) and the operators who ask for
a verification without any lease.  `verify.ts` reads a row and writes it in two
statements at READ COMMITTED: two steps here.

### Worker runtime: `WorkerRuntime`, `DrainWait`

A process runs ticks; a tick that times out is abandoned but goes on, so there
are slots for the ticks of a process and one of them is the current one.  Each
tick asks the guard, which caches the maintenance state; then it claims jobs up
to the budget of the batch.  A stop aborts what runs and deletes the heartbeat,
which an upsert under way may bring back.  Operators change the maintenance
state by the revision they have read.  Every query may fail.  `DrainWait` adds
the script that polls readiness, with the status code its route answers.

### Programs: `Escrow`, `BridgeProgram`

As in `Staking`, an instruction is an action.  In `Escrow` a deposit's amount is
the difference of two balances of the vault, the first of which was read before
the hook ran.  The hook is called before and after the transfer, of deposits and
of withdrawals, and each time may send tokens, to the vault or to the depositor,
or fail.  A mint may have a permanent delegate who takes tokens out of its
vault, in an instruction of its own or as the hook; `ReceiptsBacked`, and the
clause of `TermsKept` on what a withdrawal costs the vault, are about the mints
without one.
`BridgeProgram` is one module for the Solana and the Sui build: `chain` says
which, and the differences (an account for each commitment on Solana only, which
keys are refused) are in the guards.  `EventsTellState` reads the log of events,
all that services off
the chain see: from the last event of each kind and the number of intents it must
arrive at the state.

### Browser and its server: `StakingJournal`, `TransferStatus`, `RpcClient`, `SwapPage`

JavaScript runs a callback to its end, so an action is a callback, and what was
read before an `await` is a field of the request.

`StakingJournal`: `stored` is local storage, `shown` what each tab displays,
`work` the list a reconciliation has read and will store.  The chain lands a
transaction in a slot, votes for its block or leaves the fork it is on, after
which it may land again; `said` collects what nodes have been right to report of
it on any fork, with failures before they are final, and an answer is any of
these or `not_found`, for a node may lag.  `SameAnswer` is the comparison by
state and slot after which an entry is stored or not.  `SaysWhatWasReported` is
what the code keeps of this: an entry is one answer of a node, and a final one
is true.  That a state stays, or that a failure reported does, is not so (section
6).  `TransferStatus`:
`client` is a record of the refs and states of the hook; a poll keeps in
`since` what was true when it was sent.  `RpcClient`: requests with the options
callers pass share one call per key; the pool remembers failures and cool-downs
of endpoints.  `SwapPage`: quotes, the review and the preparation of the
transaction overlap with edits, a change of wallet and the end of a quote's
time; the server quotes again when the transaction is built.  `BuiltAsReviewed`
is about what the transaction was built for and about the route's output at that
moment; what the chain enforces afterwards is less (section 6).

These and `BridgeTransfers`, `Escrow` and `BridgeProgram` share no state.
`MCStandalone` chooses one of the seven in the initial state (`part`) and runs it
alone: one run, no product of their state spaces.

## 4. Runs

| Run | Specification | Question |
|---|---|---|
| `staking` | `Staking!Spec` | principal booked once, covered by the vault, released after its cooldown; rewards within funding and cap, equal to what was earned but for rounding; no policy changes under a stake |
| `bridge_workers_stable` | `StableSpec` | one worker per transfer; an exhausted transfer is parked; statuses follow `TransferPolicy` |
| `bridge_workers_faulty` | `FairSpec` | with crashes, leases lost and queries failing: what completes has its evidence, every submitted transfer completes, is parked, or is published and never redeemed |
| `claims_stable` | `StableSpec` | one claim per wallet, a paid claim uses the allocation up, one holder per job, one payment per claim |
| `claims_late` | `FairSpec` | with a crash, leases lost and updates failing: a finalized claim is a paid one, the service is implemented, no claim stays in SUBMITTING, payments that landed are settled |
| `fees` | `Spec` of `ServiceFees` | terms of a quote are honoured, completed transfers have their fee collected, every settlement ends |
| `worker_runtime` | `Spec` of `WorkerRuntime` | ticks never overlap, claims are cleared by the guard, a drain that stays empties the queues |
| `standalone` | `StandaloneSpec` | the seven parts: one transfer per quote and transaction, one answer per key, bindings that stay; receipts backed and redeemed on their terms; events that tell the state; a journal that says what was reported, and caches no older than they were stored for; a page that always has a way to hear of its transfer; a wallet asked to sign only what was built for what was reviewed |
| `bridge_stale_write`, `claim_expired`, `claim_paid_twice`, `drain_wait` | | violations, section 6 |

Every property of a passing run has a mutant in `PROJECT.json`: a definition
marked `Faulty` in the module, which breaks that property when it takes the place
of the right one.

**Names of specifications.** `StableSpec` has renewals that come in time and
updates that succeed; the bridge's workers may crash in it.  `LateSpec` adds
`LateTick`, by which a working process loses its lease, and `Spec` queries that
fail.  For claims `TimelySpec` adds crashes to `StableSpec`, and `Spec` the
update that fails and leaves a signature behind, and `LateTick`.  The split
matters: what mutual exclusion the leases give, they give only while renewals
keep up.

**Bounds, and why they are enough.**

* *Staking.*  Two owners show every interference between positions, for the
  program touches one position and the config at a time.  `U64Max = 3` makes
  overflow happen; a cap of 1, a rate denominator of 2 and epochs of one slot make
  rounding and exhaustion happen; `MaxSlot = 3` covers a stake, a
  change of policy, a cooldown and a withdrawal.
* *Bridge API.*  Two quotes, transfers, keys, transactions and snapshots give
  every collision between two requests; `MaxInFlight = 2` lets them race.
* *Workers.*  One transfer and two or three workers give every race for a row,
  for rows do not interfere.  Leases of one or two ticks can be held, renewed and
  lost; `MaxAttempts` of 2 or 3 stands for 25, as a pass that fails once and one
  that exhausts are all the code tells apart; `MaxFaults` counts crashes and
  leases lost at work together, at any step and with the recovery of each.
* *Claims.*  Claims of one wallet do interfere: `claims_stable` has two claims,
  challenges and keys of it.  Two payments allow a second one.
* *Fees.*  One quote and two verifiers; policies that change its terms and its
  recipient.  The quote's principal is one for which the share of it is the fee;
  `MCServiceFees` assumes, and TLC evaluates, what `ServiceFee` is for principals
  around the minimum and the maximum too.
* *Runtime.*  Two processes, one of which overrides the maintenance state by its
  environment; one job and a budget of two, so that a tick claims it more than
  once; two changes of the state, a drain and its end.
* *Standalone.*  Two of everything that can collide, and `MaxSlot`, `MaxEvents`,
  `MaxMessages`, `NonceMax`, `MaxPrompts` and `Slots` as bounds of what would
  otherwise grow.  In the escrow `U64Max = 2` lets two receipts fill a vault, and
  gifts and fees of one unit make the difference between them and what was asked
  for.  Two slots for one staking transaction are what it takes to land on a fork
  and elsewhere.  Two endpoints with a back-off of two lengths, a threshold of
  two and a rest of two ticks give each cool-down in the middle of another.

`CHECK_DEADLOCK FALSE` is set where bounded clocks and quotes, or work that is
settled, leave nothing to do.

**Fairness.** `FairSpec` asks that a worker that can take a step takes one (the
loop of `runSupervisedWorker` never ends and every query of it settles by a
timeout) and that time passes.  Nothing is asked of chains, of the indexer or of
the Executor that redeems: `SettledUnlessUnredeemed` holds although any of them
may stop for ever, and names the one place where the workers then wait without
end.  A worker that crashed comes back, as its supervisor
restarts it.  For fees, `TakeJob` is strongly fair: a poll comes again and again,
while operators and other workers can disable it in between.  For the runtime,
supervisors, ticks, upserts and the ages of cache and leases go on; operators and
faults need not.  Nothing is assumed about any single query or provider: each
may fail or stay pending any number of times.

## 5. Proofs

TLAPS proves, for every value of the constants that satisfies their assumptions:

| Module | Theorems (property stated) |
|---|---|
| `LedgerSumsProofs` | lemmas: what a change at one place does to a sum; the least element of a set of numbers |
| `StakingProofs` | `TypeTheorem` (`TypeOK`), `StakeLedgerTheorem` (`StakeLedgerBalanced`), `PrincipalTheorem` (`PrincipalBacked`), `PolicyTheorem` (`PolicyNeverRetroactive`), `PrincipalConservedTheorem`, `CooldownTheorem` (`CooldownRespected`), `RewardsBackedTheorem`, `RewardsTheorem` (`RewardsMatchEarnings`) |
| `BridgeWorkersProofs` | `BridgeWorkerTypes` (`TypeOK`), `CompletedTheorem` (`CompletedIsEvidenced`), `OneWorkerTheorem`, `ExhaustedTheorem` (`ExhaustedIsParked`), `PolicyImplemented` (`StatusFollowsPolicy`) |
| `LeaseQueueProofs` | `LeaseTypeTheorem`, `OneHolderTheorem` (`OneHolderPerJob`) |
| `ClaimsProofs` | of the service: `ServiceTypeTheorem`, `OneClaimTheorem` (`OneClaimPerWallet`), `FinalizedTheorem` (`FinalizedIsClaimed`); of the payouts: `FinalizedIsPaidTheorem` (`FinalizedIsPaid`), `ServiceImplemented` (`ServiceKept`), `ClaimsTheorem`, `LeasesImplemented`, `OneHolderOfClaim` (`OneHolderPerJob`), `PaidOnceTheorem` (`PaidOnce`) |
| `ServiceFeesProofs` | `TermsTheorem` (`TermsHonoured`), `FeesTypeOK` (`TypeOK`), `CompletionTheorem` (`CompletedIsCollected`), `FeesImplementPolicies`, `FeesHonourTerms` |
| `WorkerRuntimeProofs` | `SupervisedTheorem` (`Supervised`), `ClearedTheorem` (`ClaimsAreCleared`) |
| `StandaloneProofs` | bridge API: `BridgeTypes`, `OneTransferTheorem` (`OneTransferEach`), `RepliesAgreeTheorem`, `BindingTheorem` (`BindingPermanent`); escrow: `EscrowTypes`, `TermsTheorem` (`TermsKept`), `ReceiptsBackedTheorem`; bridge program: `EventsTheorem` (`EventsTellState`); browser and its server: `ReportedTheorem` (`SaysWhatWasReported`), `StrandedTheorem` (`NeverStranded`), `FreshTheorem` (`FreshEnough`), `LimitTheorem` (`LimitRespected`), `BuiltTheorem` (`BuiltAsReviewed`) |

Each theorem that names a property is about the formula a run checks; where the
name of the property is left out, it is the theorem's without its ending.  Every
safety invariant and action property of the passing runs has one.  An invariant
that a proof needs was checked by TLC first.  The arguments:

* *Staking.*  A sum over the owners says nothing by itself of one position, so
  `StakeLedgerBalanced` and `PrincipalBacked` are proved together (`LedgerInv`):
  by the lemmas on sums, a step at one owner changes each total by what it
  changes that position, and a withdrawal is covered because one owner's pending
  is at most the total.  Policies change only at a total of 0, at which every
  position is 0.  `AccountsInv` adds what each owner put in and took out.
  `RewardsMatchEarnings` is inductive once it counts the slots not yet
  checkpointed: a checkpoint replaces exact fractions by a rounded amount, which
  is less than one unit below them, and a policy changes only when there is
  nothing unrecorded.
* *Escrow.*  A receipt's unlock slot is its deposit's slot plus the timelock of
  that day (`ReceiptsDated`), so a later policy does not reach it.  Only a hook
  that is the mint's delegate takes anything (`HookGives`), so a withdrawal costs
  the vault its amount at most (`WithdrawTakes`).  What a mint
  owes is a sum again; a deposit adds to it what it added to the vault, and no
  more than that, since the receipt's amount is the difference of two balances
  the program reads.
* *Bridge API.*  That answers agree does not say what the next answer will be:
  `BridgeInv` adds that a key stores one transfer and that every answer given
  names the stored transfer of its key, for the quote it was asked about.
* *Bridge workers.*  Two invariants.  `SafeInv` holds whatever fails, for it needs
  two facts only: no step clears a column of the evidence, and reports only
  grow; so what a worker concluded from its read is true when it writes, however
  late.  `StableInv` holds while renewals keep up: who holds a transfer owns its
  lease with time left, hence nobody else writes its row, hence the status it
  read is still there.  One worker per transfer, the parking of exhausted
  transfers and the implementation of `TransferPolicy` follow; once a lease is
  lost they fail, as `bridge_stale_write` shows.
* *Claim service.*  An argument on times.  A challenge made before a claim, or
  from an eligibility read before it, must be gone before the claim's reservation
  is: `RequestTTL + ChallengeTTL <= ReservationTTL` is what it takes, and the code
  has challenges of 5 minutes and reservations of 10.
* *Leases.*  That a job has one holder says nothing of who may take it;
  `HoldersOwn` (who holds a job owns its lease, with time left) does.
* *Claim payouts.*  `PayoutInv` holds whatever fails: a payment never changes its
  claim, one that landed stays landed, a signature is never cleared and a claim
  that left RESERVED never comes back to it.  So what a worker knows of its claim
  is still true when it writes, and a FINALIZED written late finalizes a paid
  claim or changes nothing; hence every step of a worker is one the claim service
  allows, and the theorems of the service hold for the composition.  `PaidOnce`,
  which one crash breaks (`claim_paid_twice`), needs more: that a claim has at most one payment, and that one sent is recorded
  or in the hands of a worker about to record it (`StableInv`).  With one holder
  per claim, which `LeaseQueue` gives since `StableSpec` implements `LeaseSpec`,
  whoever finds no signature finds no payment either.

* *Fee policies.*  A quote is built from the policy it read and keeps that
  policy's terms (`QuoteOK`), since a policy's terms are never changed; and a
  policy ends only with the one that follows it, so one that was the newest when
  the quote was stored was in force at that moment.  That there is a newest
  version is the least-number principle.
* *Service fees.*  A verifier writes what it read before another one wrote, so no
  argument on the order of writes can work.  `TaskOK` says that whatever a
  verification has heard of a fee is true of the transfer for good, and `RowOK`
  that every write, however late, leaves a row without contradictions; a row
  that says VERIFIED is then of a fee that was paid.  No step but those of
  `FeePolicies` touches policies or quotes, so `Spec` implements `PolicySpec`, and
  what is proved of it holds here.
* *Worker runtime.*  `Fits` ties the ticks of a process to what it does: the
  abandoned tick is in a process that is aborted and will not tick again, so two
  ticks never overlap; a tick that asks for a job has budget left; a removed
  heartbeat has no upsert under way.  `Cleared` dates the answers of the guard: one
  without a drain was read, and of a revision before that of any drain in force,
  because an operator's change raises the revision by one.
* *Bridge program.*  Each intent is told by the events before it (`IntentTold`),
  which an event appended later leaves as they are, and the config by all of them
  (`ConfigTold`).  The last event of a kind is the old one or the one appended,
  and a nonce is the number of intents before it, a cardinality.
* *Staking journal.*  All lists, those on the screen, in storage, in messages and
  in the hands of a reconciliation, are sequences over one set: signatures with
  what nodes have said of them.  The set only grows; so a list that is old, or
  written over another, is still one of them.  No order of tabs or messages
  matters.  What is finalized is not left by any fork, which ties an answer of
  that kind to the chain as it is.
* *Transfer status.*  A page that waits has an open transport, a timer, a poll, or
  is live with a refresh remembered (`Heard`).  For this to be kept when a poll
  ends one must know when it may overwrite the state of the connection (`Sound`).
* *RPC client.*  Whoever joined a call has a host that is still calling, for the
  same key (`IsGuest`), so the answer is one it can use.  An entry's age and the
  time it has left add up to at most a call's time-out and the longest times with
  which callers of its key store (`IsEntry`); for the rate limit, all that call while
  the pool rests were calling when the limit came (`LimitOK`).
* *Swap.*  The quote on the screen and the one asked for are of the form as it is
  (`SwapInv`), so whatever edit, change of wallet or end of time comes between, a
  transaction asked for is of a quote that was shown, and the route it is built on
  has an output no lower than the minimum shown.

**Assumptions.**  Every constant's assumption is a named `ASSUME` of its module
and is evaluated by TLC with the constants of the runs: naturals, lengths above
zero, null values that are no identifiers, and for claims the inequality above.
`LeaseQueue` is instantiated and so states its own as `LeaseConstants`, a premise
of its theorems, which `ClaimPayouts` assumes of its constants; `ServiceFees`
proves it of its own.  `NoneIsNoRow` and `NoneIsNoGuard` say that the null value is
no record of a table.  `OptionsAssumption` is about the callers of the RPC client:
the callers of a key have a longest time for which they
store, and of those who share a call for the
same thing either all or none take a stale value.  In the code only one call can
be shared, the read of the slot in `provider-health.ts:63`, since every other
caller passes a signal or a budget.  The bounds of the
model (`MaxSlot`, `MaxInFlight`, `MaxFaults` and others) are any naturals.

**Without induction.**  The provers cannot instantiate the library's induction
rules.  Where a proof needs one, it takes the least element of the set of
counterexamples (`LeastElement`, from the well-foundedness of the naturals): for
the newest of a set of versions, and for the recursive function by which the
journal filters a list (`Others`).  Types of recursive data are sets of
sequences, and a log is described by sets of its places rather than by a fold.

**Only model-checked.**  Liveness (`SettledUnlessUnredeemed`, `SubmittingIsLeft`,
`LandedIsSettled`, `FeeIsSettled`, `DrainIsEffective`), which is out of this
prover's reach, and the violations of section 6.

## 6. Findings

* `bridge_stale_write`: a worker that lost its lease still writes the status it
  concluded, over what its successor wrote.
* `claim_expired`: a reservation that ran out is never given back, since the
  update that would do so is rolled back by the error that reports it.
* `claim_paid_twice`: a crash between sending a payment and writing its signature
  has the next worker send another.
* `drain_wait`: the script that waits for a drain wants a readiness answer with a
  success status, and readiness answers 503 for as long as the drain lasts.

More behaviours that differ from what a document says, or that a reader may not
expect, show in the models and are not the subject of a run:

* *Bridge API.*  A replay with a stored key is refused once the runtime's snapshot
  moved, which is compared first (`bridge-operations.ts:97`; `FAILURE_SAFETY.md:11`
  promises the same transfer).  A policy applied between the read of it and the
  insert of a quote (`:37`) leaves a quote whose fee no policy in force matches.
* *Bridge worker.*  A release that fails after a completion
  (`worker-bridge/src/main.ts:41`) is taken for a failure of the job, and the
  completed transfer is given a retry or parked.  A worker that selected a
  transfer before another parked it takes it all the same (`worker.ts:55`).  A
  MESSAGE_OBSERVED transfer without a destination transaction is written back
  without a retry time and without an attempt counted, and polled with every batch,
  for ever where no Executor redeems it (`:166`).  The default
  workerId is the process id (`workers/config.ts:28`), which two hosts can share.
* *Claim worker.*  One that lost its lease can write SUBMITTING back over
  SUBMITTED (`claims/queue.ts:47`); `submitClaimPayout` then returns early for
  ever (`payout.ts:41`).  A late record of a payment overwrites the signature of
  another (`payout.ts:71`).  A SUBMITTED claim whose transaction was dropped is
  polled for ever (`payout.ts:89`).
* *Fees.*  The commitment of a fee is a hash of policy, route and amount in a
  unique column (`settlement.ts:63`): two transfers that agree in them collide.
* *Staking journal.*  `docs/STAKING.md:150` promises states that only advance and
  a period of grace before `not_found`.  The journal has a rank of states that
  nothing uses (`use-staking-transaction-journal.ts:13`) and no such period: a
  node that lags takes a state back (`:34`); a failure that was reported while it
  was only processed (`transaction-status.ts:35`) is terminal, also when its fork
  is left and the transaction goes through elsewhere; a reconciliation stores the
  list it read over what another tab stored meanwhile, and since `:34` compares
  slots as well, it does so also after a `not_found` that changes nothing.
  `:148` has the tabs synchronized; messages that cross leave them with
  different lists.
* *Browser.*  A refresh asked for while a page is live marks it
  live when it ends, although its transport failed meanwhile
  (`use-transfer-status.ts:156`).
* *RPC client.*  The budget and the signal of a caller are not heard by the later
  attempts of a failover that others share (`json-rpc-client.ts:72-78`,
  `:286-297`; `docs/PROGRAM_RUNTIME_ABORT_AND_CACHE_INVALIDATION.md:3`).
* *RPC client, times.*  A caller that wants answers stored for a short time is
  served one for as long as another caller of the same key stored it
  (`json-rpc-client.ts:159`).
* *Swap.*  `docs/SWAP_AND_FEES.md:17` promises "exact minimum-output protection
  when the wallet transaction is rebuilt", and `:20` a minimum output derived from
  the quote the user saw.  The output of the new route is compared with that
  minimum (`cetus.ts:244`), but the transaction carries the slippage off the new
  route's output (`:245`): the chain may accept less than the minimum shown, by
  the slippage once more.  The
  page stays in "quoting" when its inputs are cleared, and a second swap can be
  started while the prompt of an expired one is open.

* *Worker runtime.*  `docs/PLATFORM_HARDENING.md:9` says that a tick that timed out
  "enters bounded exponential backoff"; the code shuts the worker down
  (`packages/runtime/src/index.ts:84`), and `docs/OPERATIONS_HARDENING.md:3` says so.
  The model follows the code.

## 7. What is not modelled

* Cryptography (signatures, hashes and commitments are identities), the contents
  of transactions and what providers report about them (a verification is its
  answer), configuration and validation of inputs, logging and audit events that
  nothing reads, HTTP and presentation.
* *Operation journal* of the browser: a record per operation merged by its
  revision; it decides nothing on the server, and shares the hazards of
  `StakingJournal`.
* *Request limits*: counters per window; they refuse before a handler starts.
* *Portfolio, prices, activity and readiness views*: reads of providers.  Two of
  their hooks can show answers out of order, which nothing acts on.
* *Other swap routes, SDK, contracts of the API, user interfaces*: stateless, or
  generated, or presentation.  They are most of the repository's lines, which is
  why the models map a small share of it.
* *Scripts*: apart from the wait for a drain they read files or probe once.
