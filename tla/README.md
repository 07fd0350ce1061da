# Covantic: specifications

Covantic sells parametric insurance for autonomous agents. A Solana program
(`packages/anchor/programs/covantic`) holds the pool, the policies and the
evidence accounts; a backend (`packages/api`) watches agents, files claims as
an oracle, verifies them and settles them; `packages/web` shows what the
backend serves. This directory models the program, the verifiers and the claim
pipeline in TLA+, checks them with TLC on small instances and proves the main
properties for every value of the constants with TLAPS.

## The system

| part | state | operations | who calls it |
|---|---|---|---|
| insurance pool (`InsuranceVault`, `StakerPosition`, `ProtocolConfig`) | four ledgers over one token account, coverage total, solvency ratio, loss index, reward accumulator, one position per staker | `stake`, `request_unstake`, `execute_unstake`, `claim_rewards`, `update_config` | stakers, admin |
| policies (`InsurancePolicy`) | life-cycle state, cover, premium, times, the one claim | `create_policy`, `cancel_policy`, `submit_claim`, `oracle_submit_claim`, `expire_policy`, four `verify_and_payout_*` | holders, the oracle key, anyone (expiry) |
| balance evidence (`PolicyBalanceCheckpoint`, `PolicyAgentMandate`) | last reading and pre-drop pin; declared envelope and the one it replaced | `checkpoint_balance`, `declare_agent_mandate`, `verify_and_payout_exploit`, `verify_and_payout_agent_error` | anyone (readings), holder, oracle |
| authority evidence (`PolicyAuthorityCheckpoint`, `GovernanceBaseline`) | readings of who controls the account; declared set | `checkpoint_authority`, `declare_governance_baseline`, `verify_and_payout_governance` | anyone, holder, oracle |
| underwriting (`ProtocolConfig`, `PendingAdminTransfer`, `RiskAttestation`) | admin and oracle keys, a pending handover, one attestation per agent | `propose_admin`, `accept_admin`, `cancel_admin_transfer`, `upsert_attestation`, `create_policy` | admin, oracle, holders |
| price evidence (`PolicyPriceTerms`, `ClaimEvidenceRecord`) | feed and quantity fixed at purchase | `verify_and_payout_v2` | oracle |
| verifiers (`services/{exploit,agent-error,governance,oracle}`) | none across passes: an evidence bundle per pass | read the transaction and its surroundings, adjudicate | claim keeper |
| claim keeper (`workers/claim-keeper.ts`) | `claims` rows, two job queues, worker snapshots | ingest alert, verify, supersede, re-attribute, submit, pay, defer, escalate | alert bus, BullMQ |
| detectors (`transaction-monitor.ts`, `exploit-watcher.ts`, `alert-bus.ts`) | `monitoring_events`, balance snapshots, alerts in flight | webhook, sweep of an agent's history, comparison of balances | Helius, timers |
| indexer and endpoint pool (`policy-indexer.ts`, `rpc-pool.ts`) | mirror of the chain in Postgres; health of each endpoint | reconcile, failover, ejection, slot probe | timers, every read |
| cranks (`workers/*.ts`) | | checkpoint ticks, expiry, solvency | timers |
| scoring and quotes | caches | score, quote, publish attestation | HTTP |

How they interact. The instructions of the program are serialised by the
ledger; what interleaves is their order, and the order is nobody's choice:
stakers, holders, the permissionless cranks and the oracle act independently
while the clock runs. The backend adds real concurrency: two verification
workers, one payout worker, delayed jobs, RPC calls whose answer may be lost
after they took effect, and a database that lags the chain. The keeper files
and settles claims through the program; the indexer copies the program's
policies into the tables the keeper reads; the watcher's checkpoint ticks
produce the readings a later settlement is measured from. What anyone in the
backend knows of the chain comes through a pool of endpoints that fail and lag
each on its own.

What makes each part correct, and what is hard about it:

- **Pool.** Four ledgers share one token account, losses are spread lazily by
  an index, rewards by an accumulator, and every rounding has a direction.
  Correct means: the tokens cover the ledgers, no position can be credited
  with more than is there, cover is never written and stake never released on
  the wrong side of one threshold, and a closed policy releases its coverage
  exactly once.
- **Policies.** One claim per policy, paid at most once, never before its lock,
  never closed under a claim that may still be paid, and eventually closed.
- **Balance evidence.** A payout is measured from a reading taken earlier by
  whoever called; ticks, transfers, filings, refreshes of the mandate and the
  settlement come in any order, each with its own window. Correct means: no
  payout beyond what was lost during the cover, none beyond the envelope that
  was priced, and a real loss stays measurable until it can be paid.
- **Authority evidence.** The same shape with sets of authorities in the place
  of amounts; a departure counts only against a set declared and matured
  before the reading it departs from.
- **Underwriting.** What is sold depends on keys that rotate and attestations
  that are replaced. Correct means: a policy is settled on the terms it was sold
  on, at the price of the envelope it got, and no key or proposal outlives its
  office by more than one validity.
- **Verifiers.** Every fact a verdict rests on is fetched by a call that may
  fail, and four price sources may be silent, late or wrong, each on its own.
  Correct means: what could not be read neither denies nor pays a claim, what is
  approved happened, and no verdict rests on one source.
- **Detectors.** A webhook that may never come and a sweep whose calls may fail
  look at the same transactions, and each leaves out what the other has a row
  of. Correct means: what a verifier would confirm is raised before it is out of
  sight, and a large loss leaves a trace whatever caused it.
- **Indexer and endpoint pool.** Two reads in a row may be answered from
  different moments of the chain. Correct means: the mirror does not go back,
  and does not stay behind either.
- **Claim keeper.** Rows are read, awaited over and written back. Correct
  means: a row never says paid or failed against the chain, a claim is decided
  once, by one pass, and something always decides it.

`PROJECT.json` lists every component with its status, and under `hazards` the
lines of code where each of these bites, with the property that covers it.

## Modules

| module | models | refines / extends |
|---|---|---|
| `PolicyLifecycle` | what a policy promises, without money or evidence | |
| `Vault` | pool, stakers and the money side of policies, one action per instruction | implements `PolicyLifecycle` |
| `Settlement` | checkpoints, mandates and the two balance-proven payouts, over covered accounts whose balances move | extends and implements `Vault` |
| `Governance` | authority readings, declared sets and the governance payout, over accounts whose control moves | extends and implements `Vault` |
| `Underwriting` | offices, attestations, price terms and the price-proven payout | extends and implements `Vault` |
| `Adjudication` | an incident, what a pass may read of it, and what all verdicts are made from | |
| `ExploitVerdict`, `AgentErrorVerdict`, `GovernanceVerdict` | the three adjudicators, as functions of an incident and a reading | extend `Adjudication` |
| `ClaimReview` | a claim over several verification passes, each with gaps | extends the three verdicts |
| `Detection` | the webhook, the sweep and the ingestion of what they raise, up to the verdict | extends `ClaimReview` |
| `PriceConsensus` | the price window four sources give, and the value of a leg | |
| `PriceVerdict` | the oracle-manipulation adjudicator | extends `PriceConsensus` |
| `PriceReview` | an oracle-manipulation claim, answer by answer, to its settlement | extends `PriceVerdict` |
| `ChainReads` | the endpoint pool and the indexer that reads through it | |
| `ClaimKeeper` | the keeper's queues and workers, the `claims` table, the indexer, and the chain as they see it | |
| `*Proofs` | theorems about the module of that name (`ClaimReviewProofs` also about the verdicts) | extend it |
| `MC*` | instances for TLC | extend it |

**Vault.** A variable per field of `InsuranceVault` (`total_staked`,
`reserve_fund`, `loss_index`, ...), `position[s]` and `policy[p]` for the
accounts, `vault_tokens` for the token account, `now` for the ledger's clock.
An instruction is one action; each `require!` and each checked operation that
may fail is a guard, since a failing instruction reverts. `AbsorbLoss`,
`AccrueStakerRewards`, `SettleLosses` and `CrystallizeRewards` are the methods
of the same names. `PayClaim` is what the four `verify_and_payout_*`
instructions share. Amounts are small integers; overflow of u64/u128 is out of
their range. The two risk tiers LOW and HIGH stand for the two gates the
program has (LOW and MEDIUM are gated alike).

**Settlement.** Adds `balance[a]` of each covered token account, the checkpoint
and mandate accounts of each policy, and `history[p]`, which no instruction
reads: the envelope that was priced, the largest balance since the purchase,
and how often and when the balance fell. `Transfer` is what others do to a
covered account. `CreateCovered` is `create_policy` with the mandate declared
and the checkpoint seeded with it. `PayExploit` and `PayAgentError` are the two
settlement instructions, with their windows, thresholds and clamps.
Not modelled: the window cap and allowlists of a mandate, which the program
records and the agent-error adjudicator judges (`AgentErrorVerdict`).

**Governance.** `account[a]` is a token account with its owner, delegate, close
authority, frozen flag and amount; `authority[p]` and `baseline[p]` are the
evidence accounts. `Becomes` is any change of hands, `CheckpointAuthority` a
reading with its two slots, `DeclareGovernanceBaseline` a declaration beside the
one it replaces, `PayGovernance` the settlement. `arrived` and `past` are
history for the properties: when each role last changed hands, the largest
amount held, how often control changed.

**Underwriting.** `admin`, `oracle_authority` and `pending_admin` are the fields
of those names; `attestation[a]` and `price_terms[p]` the accounts;
`CreateAttested` is `create_policy` with the attestation, `PayPrice` is
`verify_and_payout_v2`. A price update is one the guardians' quorum signed, and
then says what `Market` says, or one fewer signed, and then says anything.
`in_office` and `sold` are history.

**Adjudication and the verdicts.** An incident is a small transaction: its
instructions with their authorities, signers, amounts, the history around it
and what the holder declared. A reading names what a pass could not fetch
(`missing`), which instructions were decoded with a part unread (`garbled`) and
what merely costs confidence (`blemishes`). `VerifyExploit`,
`VerifyAgentError` and `VerifyGovernanceAttack` are the three verifiers: what has
to be fetched before anything is judged, then `AdjudicateExploit` and its two
siblings, which follow the early returns of the three `adjudicate.ts` in order;
confidence is the sum the code adds up, in ten-thousandths.

**ClaimReview.** `Verify` is one pass: a reading is drawn, the verdict computed
and the row rejected, parked, re-filed, sent to review or approved, as
`processClaim` does; `Settle` is the payout's plan and the program's floor;
`Elapse` lets time pass and the agent's holdings move between passes.

**Detection.** `story` is what befalls an agent: transactions as in
`Adjudication`, each named in the wallet's history or not. `Deliver` is the
webhook with its screens, its row in `events` and its alert; a tick of the sweep
is `StartTick`, one `Examine` per transaction of what it listed, the newest first, `Measure` (the snapshot and the
comparison), one `Search` per candidate and `Escalate`. `Ingest` takes an alert
and opens a row, re-points a parked one or drops the alert; `Review` is
`ClaimReview`'s pass over the row. A claim the holder files itself has an empty
story, so both ways into a verdict are in one specification. Every call may
fail, up to `MaxFaults`; a call of the sweep that throws ends the tick: `Abort`
before anything is written, `PublishThrows` after the row. An alert that is lost
or doubled counts as a fault.

**PriceConsensus, PriceVerdict, PriceReview.** `Window` is `buildConsensusWindow`
on whatever answers came in; a pass values the legs one at a time (`PriceLeg`),
samples the moments around the trade (`Sample`) and judges (`Decide`), so that
each source may be up for one question and down for the next. `Settle` holds the
approved amount against the price the guardians signed. Values, shares and
confidences are integers; a median of an even count is rounded down to one price
unit, and what a sum is compared with is rounded up. A token stands for its feed:
legs are net per mint and wrapped SOL is SOL, so that of the registered mints only
USDC and its mocks share one; of two windows of one feed the code would keep the
later, the model keeps the weaker.

**ChainReads.** A slot stands for the chain at that slot: `served[e]` is how far
endpoint `e` has followed it, `mirror[p]` the slot a policy's row was written
from. A request (`AnsweredBy`, `Unanswered`) goes through the endpoints in order,
leaves out the ejected ones and counts each failure; the library that does it is
modelled from the pool's configuration of it and the contract its comments rely
on. `job` is what the first reconcile of the process and the scheduled one are
doing: `List`, `Apply` (the slot guard), one `Write` per policy, `Label`. `dead`
and `foreign` are fixed at the start: endpoints that answer nothing, and
fallbacks on another cluster, whose listing is empty at any slot.

**ClaimKeeper.** One policy. `row[c]` is the `claims` table, `process_queue`
and `payout_queue` are bags of jobs (delays are left to the interleaving),
`worker[w]`, `payer` and `ingest` are what each worker is doing: its program
counter, its job, and the row as it was loaded. Each await that another actor
can slip into is a step of its own, so stale writes happen as they do in the
code. A fault is a call that throws, an answer that is lost after the call took
effect, evidence that could not be stored, or the death of the process; a job
that throws or stalls is run again until its attempts are spent. The verdict of
a verifier (computed in `ClaimReview` and `PriceReview`), the circuit breaker
and the program's evidence gates give any answer. `insured` is the mirrored state of the policy as far as ingestion
reads it. `taken` is history: the rows taken over while a retry was waiting.
Alerts are ingested one at a time, and a listing of the chain is never older
than the one before it (what the slot check leaves open is in `ChainReads`).

## Runs

| run | question | outcome |
|---|---|---|
| `vault_ledger` | do the books balance, are losses shared, do exits honour the issuance line? | holds |
| `vault_exit` | does coverage alone hold back a staker whose cooldown is served? | violated: a staker who re-enters after a full exit is never counted again |
| `settlement` | do payouts stay within the fall and the priced envelope, is a lone drain never masked by a tick, do policies keep to `PolicyLifecycle` and is coverage eventually released? | holds |
| `settlement_breach` | is a lone breach of a mandate measurable for as long as it can be paid? | violated: the lock outlasts the pin |
| `governance` | does every governance payout depart from consent that had matured, within what was held, and does a lone takeover stay provable? | holds |
| `underwriting` | do payouts follow the terms of sale, and do keys end with their office? | holds |
| `claim_review` | does a gap in the evidence ever deny, pay or hasten a claim, did what is approved happen, and is what happened raised? | holds, for legible readings and but for rows that mask the sweep |
| `price_review` | is a fair fill ever approved while few sources lie, is anything approved uncorroborated, does silence deny? | holds |
| `chain_reads` | does the mirror ever go back, or stay behind, while endpoints lag, fail and are ejected? | holds: it goes back only under an overlapping reconcile or a restart, and catches up |
| `keeper_takeover` | do retries, takeovers and re-attribution leave a claim with one pass? | holds, but for rows taken over under a waiting retry |
| `keeper_faults` | with one fault anywhere, do rows tell the truth and are claims decided? | holds |
| `keeper_unrecorded` | does a paid policy end up with a row that says so? | violated: a retry after a crash meets the circuit breaker first |

The violated properties state what a comment of the code says; `findings` in
`PROJECT.json` quotes it and says where the code differs.

Bounds, and why they are enough.

- `vault_ledger`: two stakers (who stays and who leaves, who was touched before
  a loss and who was not), two policies (one loss after another, a refund
  during another's claim), a clock of four steps (purchase, filing, lock,
  grace and one cooldown). Rates are tenths instead of basis points so that
  every division leaves a remainder; `LOSS_INDEX_SCALE = 12` makes the index
  round and reach its floor.
- `settlement`: one policy on one account, balances empty, half and full, caps
  tighter and wider than a fall, windows of two ticks, locks of one and two, so
  that a lock taken from the wrong kind or the wrong time shows: a reading can be
  pinned, aged out and replaced, and the policy closed, within the horizon of
  five. The pool has no stakers here; theorem `SettlementImplementsPool` carries what was
  established for pools with stakers over to this composition, as
  `GovernanceImplementsPool` and `UnderwritingImplementsPool` do for theirs.
- `governance`: one policy, the family and one outsider, a declared set with and
  without that outsider, one change of control (theorem `LoneTakeoversProvable`
  has no such bound), a declaration delay of one and windows of two in four
  steps of time: a set can be declared, mature, be departed from, read before
  and after, and be paid for.
- `underwriting`: two keys that may hold either office, an agent whose
  attestation is replaced, two feeds of which one moves, two envelopes at
  different prices, five steps: a handover, a rotation, a sale and a settlement
  fit. Keys are symmetric.
- `claim_review`: families of incidents, each built from one template: seven
  movements with every signer set, dust and full drains, own transfers against
  eight envelopes, twelve changes of control against five declared sets. A
  reading has any one gap, or any two where the incident has two instructions:
  a gap in each of them, or one in an instruction and one in its surroundings.
  Two attempts, so that a claim is parked, read again and exhausted. Beside these
  claims of a holder's, stories of one or two transactions the detectors see:
  transfers, spends, captures, drains that the wallet's history shows or hides,
  losses above, at and below each screen. The sweep looks back three ticks and
  one call fails: with one tick lost, a transaction still has a tick left
  (theorem `BackstopAlwaysRaises` has any look-back and as many failures as leave one).
- `price_review`: four sources as the code has; fair, slightly and grossly bad
  fills; legs that are priced, stable, at par or unknown; a market that stands
  still or falls; one poisoned source, or two when every leg needs three. An
  honest answer is within 0.2% of the market. Every source may be down, silent
  or late; answers are far, near or at the truth. The stables hold their peg but in
  one incident, a fair sale at par of one that lost a tenth. Three moments are sampled in
  the place of the code's, enough for none, too few and a median.
- `chain_reads`: two endpoints, either of which may be dead and the second on
  another cluster; two failures eject, for one tick or, after a 429, two; two
  slots, a policy paid in each, three faults: enough to eject the endpoint that
  is ahead and be answered by the one behind, with a restart in between. Failures
  are counted up to the threshold, where the monitor's own count runs on: whether
  the threshold is reached is all that ejection asks.
- `keeper_takeover`: three alerts, so that a row is opened, taken over and meets
  the cap of one takeover; two process workers; one attempt per job, as nothing
  fails here; one kind of alert suffices, a re-attributed row giving way to it by
  specificity and a transiently parked one by the tie exception.
- `keeper_faults`: two rows (the keeper's and the one mirrored from a holder's
  filing), both kinds of alert, one lock deferral, one fault, two attempts per
  job: the fault can hit any call or any moment, and the retry is there.

`CHECK_DEADLOCK FALSE` everywhere: the clock stops at `Horizon`, alerts stop at
`MaxAlerts`, a decided claim stays decided, and a system with nothing left to
do rests.

Fairness. `FairSettlementSpec` assumes that time passes and that
`expire_policy` is eventually called for every policy it would close: anyone
may call it, and `workers/expiry-crank.ts` does every minute. `FairSpec` of
`ClaimKeeper` assumes that each queue is served: BullMQ hands a waiting job to
a free worker, and a worker that took one goes on, since every await ends in an
answer or an error. Nothing is assumed of holders, alerts, the indexer or the
chain's clock. `FairSpec` of `ChainReads` assumes that the scheduler comes round,
that an await ends, that time passes, and that an endpoint which answers follows
the chain; none is assumed to answer but those that are not `dead`, and the
property asks for one. The other specifications state safety only.

## Proofs

Assumptions are the named `ASSUME`s of the modules: scales are positive
naturals, rates, windows and periods naturals, the two premium shares fit in
one, the solvency thresholds are ordered; placeholders are not members of the
sets they stand beside; the incidents of `ClaimReview` are `WellFormed` (no
authority acts without its signature, no balance is negative, a transaction has
finitely many instructions), its parties distinct; an honest price source answers
within `NOISE`, at most 0.3%, and states no larger uncertainty; no policy covers
less than the smallest payable loss (`MIN_COVERAGE_AMOUNT`, constants.rs:32, is ten
times it); there are finitely many stakers, and `"none"` is not the number of
a claim. `Detection` assumes two things of what it watches: that nothing reaches an
agent between the transactions of its story, and that the sweep looks back further
than one tick. The second is what exploit-watcher.ts:59-61 says of `LOOKBACK_SEC`
("comfortably wider than the interval"): 900 seconds against 120 by default. The
configuration admits an interval of 1800 (config/env.ts:139-148), with which a
tick would not see all of the time since the last, and nothing below holds.
TLC evaluates each assumption on the runs of its module.

| theorem | says |
|---|---|
| `TypeCorrect` | no counter, balance or rate of the pool leaves its range |
| `TokensAlwaysBacked` | the token account equals the sum of the four ledgers |
| `PrincipalAlwaysBacked`, `RewardsAlwaysBacked` | the principals the positions would be credited with never sum to more than the stake, nor their rewards to more than the reward ledger |
| `BooksAlwaysMatch` | the vault's coverage and payout totals are the sums over its policies |
| `SolvencyAlwaysFresh` | the stored ratio is the ratio of the current totals |
| `ExitsHonourIssuanceLine` | no exit takes the pool below the issuance line |
| `LossesAreShared` | a loss that reaches principal costs all positions the same share, up to one unit |
| `PoolImplementsLifecycle` | `Vault` implements `PolicyLifecycle` |
| `SettlementImplementsPool`, `GovernanceImplementsPool`, `UnderwritingImplementsPool` | the three compositions implement `Vault` |
| `SettlementTypeCorrect`, `GovernanceTypeCorrect`, `UnderwritingTypeCorrect`, `ReviewTypeCorrect`, `PriceTypeCorrect` | evidence accounts, readings and rows are well formed |
| `PayoutsWithinFall` | a balance-proven payout is at most what was lost from a balance held during the cover |
| `OvershootsOfPricedEnvelope` | an agent-error payout is at most the overshoot of the priced envelope |
| `LoneDrainsMeasured` | while a payout could use it, the last reading before a lone fall is what the fall is measured from |
| `DeparturesFollowConsent` | the key a governance claim is paid for took its role after the set it departs from had matured, during the cover |
| `PayoutsWithinReach` | a governance payout is at most what the account lost from a balance held, or still holds out of reach |
| `LoneTakeoversProvable` | one change of control stays provable from the last reading before it |
| `ProposalsByIncumbent` | a pending handover was proposed by the admin in office |
| `PayoutsPricedAsSold` | an oracle-manipulation payout uses the quorum's price of the feed, and no more than the quantity, attested at the sale |
| `SoldByRecentOracles` | no policy is sold on a key that left office more than one validity ago |
| `EnvelopesPaidFor` | the premium is at least the quoted price of the envelope the policy got |
| `GapsNeverDenyAlways`, `GapsNeverPayAlways` | a verdict taken from a legible reading with gaps is not one full evidence would turn into, or out of, a payout |
| `GapsNeverRaise` | a pass that could read less is never surer, but where the missing history is itself the reason |
| `ApprovedHappened` | what is approved happened |
| `PaidProvable` | nothing is approved without a chain proof and recorded evidence |
| `KindsAlwaysDisjoint` | an incident without a stranger's change of control is not both an exploit and an agent error |
| `BackstopAlwaysRaises` | what a verifier would confirm is on record before the sweep loses sight of it, as long as fewer calls fail than the look-back has ticks to lose |
| `HalfLossOnRecord` | where no call failed, half a balance leaves no agent without a row |
| `KeeperTypeCorrect` | rows, jobs, slots and queues keep their types: a slot at work holds a job of some row |
| `PaidOnlyAfterThePayout` | no row says paid before the chain has paid |
| `OneWorkerPerClaim` | while nothing fails, a claim not taken over under a waiting retry has at most one job, slot or alert about to write its row |
| `MedianResistsMinority`, `ConsensusResistsMinority` | a minority of readings cannot move a median, nor the price of a window, out of the range of the rest |
| `ReadsTypeCorrect` | an endpoint is out only at the threshold of failures, and the mirror is never ahead of the chain |
| `MirrorNeverBackAlone` | a row goes back to an earlier slot only by a reconcile that another overtook, or where it was last written before a restart |
| `FairFillSafe` | while one source lies, or two where every leg needs three, and the stables hold, no fair fill is approved, and no approved loss is overstated by more than 2.4% of what was sold and bought |
| `SilenceSafe` | where no source lies, sources that are down, silent or late deny no claim of a fill 6% worse than a market that stood still |
| `PaidCorroborated` | whatever the sources answer, nothing is approved on one source, on fewer than two samples or without a signed price |

**Pool.** `TypeOK` is not inductive. `Inv` adds the token and solvency equations
and two facts: `SnapshotsBehind`, that a position's snapshots are never ahead of
the accumulator nor below the index (otherwise the reward delta and the revalued
principal could go negative), and `TermsSound`, that an opened policy ends after
it started and started no later than now, a pending one has a trigger, and the
unopened ones are exactly the numbers from `policy_counter` on, all still blank
(otherwise a refund could exceed the premium, or a new policy could overwrite an
open one). One lemma per instruction shows it is kept.
`ExitsHonourIssuanceLine` rests on `FloorKeepsTheLine`: a reserve rounded up
keeps a ratio rounded down at the threshold. `LossesAreShared` rests on
`LossShared`, the arithmetic of scaling by the index twice. The refinement maps
each instruction to the life-cycle step of the same meaning and everything else
to a stutter.

`PrincipalBacked` is not inductive either: principals are rounded down one by one,
and rounded principals may fit in one state and not in the next. `PrincipalWeighed`
says it of the unrounded ones, brought to a multiple of every index there may be
(`CommonScale`), whose sum no revaluation changes; a loss floors the index, which
only loses weight (`RewardsOwed` is the same of rewards, in units of the
accumulator's scale). `BooksMatchPolicies` needs only that a policy that is not
paid carries no payout (`PaidOnlyOnce`). The sums are folds over all stakers or
policies. What is needed of them (that a change of one summand changes the sum by
as much, that sums are monotonic) is proved without an induction schema: of the
finite sets for which it fails, a smallest one is contradictory.

**Settlement.** `SInv` adds to `Inv`: `ReadingsBelowPeak`, that no reading a
payout may still use (one taken no later than the claim was filed) is above the
highest balance the account held from the purchase to the filing, and
`EnvelopesNoNarrower`, that neither record of a mandate is narrower than the
priced one. From the first, a baseline is never above the peak, so a drop is
never more than was lost; from the second and the monotonicity of the overshoot
(`OvershootAntitone`) the last theorem follows. Both use that only the two
settlement instructions move a policy to paid (`PaidBySettlement`). `LoneDrainsMeasured`
needs `OneFallKept` beside it: while the account fell once, the reading before
the fall is the current one or, until it is too old to be paid from, the pin.

**Governance.** `GInv` is `GovernanceTypeOK` with `ReadingsHold`, that where a
reading differs from what is there now, the role changed hands no earlier than
the reading, and `ReadingsBelowPeak` as above. A departure is a difference
between a reading and now, so `ReadingsHold` dates it after the reading, and the
payout's guards date the reading after the declaration matured.
`LoneTakeoversProvable` needs `OneChangeKept` beside it: while control changed
once, some slot of the checkpoint still shows it as it was.

**Underwriting.** `OfficeInv` and `TermInv` add `OfficeDated` (the oracle in
office was so until now), `AttestedAtQuote` (an attestation was signed by a key
then in office, at its envelope's quoted price, for at most one validity) and
`TermsAsSold` (a policy carries the terms of the attestation it was sold on). A
sale then follows from the attestation it used.

**Claim review.** The verdict is a function, so most of the proof is about one
pass: `WholeView` and `EvidenceOfView` say what a legible reading shares with the
complete one, `ExploitSurvivesEvidence` and its two siblings that a verdict
survives the evidence that was missing, `ExploitMeansIntrusion` and its siblings
what a confirmation implies of the incident. `ReviewInv` then says of the row
that a rejected one was rejected by such a verdict (`Denied`), an approved one
approved by one (`Granted`), and that attempts are left (`PassesLeft`). `basis`,
which no code reads, keeps what that pass had read and what the agent held then.
For `GapsNeverRaise` a confidence is counted in units of its terms
(`ScoreCounts`), so that it can be compared term by term with that of full
evidence: `ExploitSurer`, `AgentErrorSurer` and `GovernanceSurer` show, verdict by
verdict, that each reason met with gaps is met without, and each penalty of full
evidence was there before. All of these are theorems of `DetectionSpec`: also a row
that was opened by an alert, re-pointed or taken over keeps `ReviewInv`.

**Detection.** `WatchInv` is the type: alerts name transactions that happened, under
kinds that open a claim. `WatchBooks` is what makes the two properties inductive.
`OneTickPerFault`: a transaction that a full reading would confirm and that has no
row yet is no older, in ticks, than the calls that failed, but for the tick that
still has it on its list and the one it fell into; each tick that passes it writes
the row or loses a call. `SweptRowsOpen`: a row the webhook did not write is of the
sweep's kind, which `SweepRaises` derives from what the verifiers ask for
(`StolenShows`, `StrayedShows`: whatever they would confirm, the screens let
through). `Measured`: while nothing is written down and nothing failed, holdings
only fall, no snapshot is below them, and a loss of half a balance is in front of
the tick that will measure it from a snapshot taken before it, or that tick has
found the drop. The first bounds the age of what is unseen below the look-back;
the last leaves an idle sweep no half loss older than one tick.

**Claim keeper.** `TypeInv` adds to `KeeperTypeOK` what each program counter implies of
the job held. `PaidInv` needs one fact more than the property: the payout worker at
its record step has seen the payment. `SoleWorker` counts jobs, slots and alerts of a
claim; `HandInv` says instead that each claim is in at most one of five places
(`OneHand`), that a row nobody inserted is in none, that one in review is in none
unless it is at the cap (otherwise an alert could take it over from under its
job), and that what a slot read of the number of takeovers is still the row's
when it writes it back (`SeenCount`). It is stated while nothing has failed and of
rows not in `taken`, and kept by every step of every worker.

**Price review.** It starts from what a median is: that the k-th value exists is
a well-foundedness argument over the values (`LeastNatural`), and `RankedBetween`
bounds it by any two values enough readings keep to. `PaidCorroborated` is arithmetic of the confidence budget: with one
source no sum of its terms passes 6599, with fewer than two samples none passes
7474, and the lane that settles starts at 7500. That a signed price does not
make the evidence complete (`SecondAnswerUnsigned`: of two answers one is
unsigned) is part of both bounds. `PriceInv` keeps that of the pass under way
(`PassKept`: more than one source means an unsigned answer) beside the type of
everything it has gathered.

`FairFillSafe` and `SilenceSafe` follow from `MarketInv`, which relates what a pass
has added up to what the legs so far were worth on the market. A window with more
contributors than there are liars has an honest one among them, and its stated
uncertainty covers half its own spread, so the consensus is off an honest price by
at most twice that uncertainty (`WindowFair`); agreement within 2% and the honest
source's 0.3% make 2.4%. Both survive multiplication by an amount and addition
(`FairTotals`, `FairTotalsAdd`): the shortfall has to pass three times the summed
uncertainty, so one that does is more than honest sources could make of a fair
fill (`FairShortfall`). Where nobody lies (`HeardTotals`) totals are within a 199th of the
market and no more uncertain than 166 parts allow, so that a misfill of 6% clears
each term of the threshold (`HeardShortfall`), the volatility term because the
samples of a market that stood still stay within 0.3% of it (`StillTurbulence`), and
the only rejection left is for the depth of the venue (`RejectedMeans`). `Pegged`
is needed: a stable without a usable feed is valued at par with half a per cent of
uncertainty, which valuation.ts:13-15 says keeps a marginal loss from resting on it;
a stable further off than that is not a marginal one. The bound used to read 3% of
what was sold; the proof shows that to be a property of the instance, and the
general one is 2.4% of both sides.

**Chain reads.** `ReadsInv` adds to the type that a listing with policies left to
write is one the chain has reached (`ListedIsReached`; an empty one from another
cluster may claim any slot), that one being written is the newest let through
unless another was since (`WritersBehind`), and that what this process wrote is
no newer than that (`MirroredBehind`). The second property is then one step.

Every invariant the runs check is a theorem but one. Only model-checked:
`FailedMeansUnpaid`, which a second fault breaks, so that it is a statement about
the run's one; and the liveness properties `CoverageReleased`, `ClaimResolved` and
`MirrorCatchesUp`, as liveness under fairness is out of the prover's reach.

## Where the code and what is said of it differ

Three differences are runs of their own (`vault_exit`, `settlement_breach`,
`keeper_unrecorded`). These were met while modelling and are in the models as
the code has them:

- Pool: `absorb_loss` floors `loss_index` at one (insurance_vault.rs:151), so
  after a wipe-out an untouched position keeps a claim of one part in
  `LOSS_INDEX_SCALE` on stake that came later, and the index no longer moves.
  `PrincipalBacked`, `RewardsBacked` and `LossIsShared` are stated above the
  floor.
- Settlement: a second drop replaces a young pin (checkpoint_balance.rs), so
  `LoneDrainMeasured` speaks of a drain alone; and two quick refreshes of a
  mandate leave two records of which neither has matured, so for a while no
  envelope is in force.
- Keeper: a row taken over while it waits for its retry gets a second job
  (claim-keeper.ts:1222-1223), which `SoleWorker` excepts; a leftover job
  reopens a row that was paid to `verifying` (claim-keeper.ts:1460).
- Exploit: `authority_mutation` counts a control change whose authority could not
  be read (signatures.ts:163), while authorization.ts:57-59 says an unread
  authority must never be read as hostile. An approval in the same transaction
  that was not decoded, or a history that was pruned (delegate-provenance.ts:192),
  makes a delegated movement look foreign. `agent_delegated_movement` cannot be
  reached: any foreign movement scores above the threshold it sits under.
- Agent error: an undecoded token instruction, or an outflow history that could
  not be read, can end in the terminal `within_mandate` or in a confirmation
  where full evidence says the mandate contradicts the history; both are why the
  `GapsNever*` properties ask for a legible reading. A stranger's change of
  control beside the agent's own movement is both an exploit and an agent error
  (agent-error/adjudicate.ts:44-49), which `KindsAreDisjoint` excepts.
- Governance: unattributed changes are consulted only when no controller was
  found; a freeze by an unread authority counts as a stranger's; the declared
  family is compared flat in one place and by role in another
  (`authority_left_manifest`); `no_measurable_exposure` is terminal while the
  drain window is still open (adjudicate.ts:288-294).
- Oracle manipulation: the moments around the trade are sampled without asking
  how many sources answered (signatures.ts:371-399). With every honest source
  silent at one moment and one poisoned source answering there, the volatility,
  and with it the threshold, rises until a real misfill is rejected for good,
  where docs/ORACLE_MANIPULATION_DETECTION.md:360 expects an unchanged verdict.
  `SilenceNeverDenies` is therefore stated of incidents with no poisoned source.
- Oracle manipulation: a stable without a usable feed is worth a dollar whatever its
  market says (valuation.ts:118-130). In a deeper fall of such a stable a fair
  sale of it looks like a misfill and can be paid with every source honest;
  the settlement compares the price that dollar implies for the other token with the
  signed one and agrees. `FairFillNeverPaid` is therefore stated of stables that hold.
- Oracle manipulation: the loss is measured against the median and settled
  against Pyth's signed price and the terms of sale, so an approved amount can
  revert and the row end `failed`; the implied price of an aggregated swap leaves
  out the other legs of the subject's side; a raw transaction that could not be
  read leaves the depth of the venue unknown, and a fill the depth rule would
  reject may be approved.
- Detection: a row of any kind makes the sweep skip its transaction
  (`alreadySeen`, exploit-watcher.ts:728-742), also one that opens no claim, such
  as the webhook's LargeTransfer or FailedTx, although the sweep would have filed
  one; and the webhook files a takeover with a drain as an exploit and so keeps
  the sweep's governance screen from it, which exploit-watcher.ts:385-398 puts
  first. `BackstopRaises` therefore leaves out what the webhook brought.
- Detection: governance/prefilter.ts describes a comparison of authority readings
  as its backstop, and there is none; an opaque multisig beside a foreign drain is
  raised as governance and rejected there; the snapshot is written before the drop
  is attributed, so a tick that dies in between loses a drain the history hides;
  a breach of the counterparty, program or window terms alone is screened by the
  webhook only; and "a mandate that cannot be read" raises a flag
  (agent-error/prefilter.ts) only above the value floor.
- Detection: the look-back is "comfortably wider than the interval so a slow tick or
  a restart does not open a hole" (exploit-watcher.ts:59-61), but the interval may
  be configured to twice the look-back (config/env.ts:139-148), whose comment
  weighs the ceiling against the age of a checkpoint only.
- Endpoints: a fallback on another cluster is "out of rotation for good"
  (rpc-pool.ts:456-458) only in what `status` and `corroboratingEndpoints` say:
  the pool that routes requests still holds it. One empty listing from it at a
  higher slot passes the slot guard, which is moved before the list is seen to be
  empty, and every listing is refused from then on until a restart.
  `MirrorCatchesUp` asks that no fallback is `foreign`; without that TLC finds it
  violated.
- Indexer: "Within one process it closes the window" (policy-indexer.ts:114-116)
  holds of one reconcile at a time; the first one is not a job of the queue and
  overlaps the scheduled one, and may write an older listing after a newer.
  `NeverBackAlone` excepts it.
- Indexer: an evidence account "exists or it does not" (policy-indexer.ts:265-266),
  but is looked for at whichever endpoint answers: one behind the payout makes a
  proven claim `unproven`, and no later pass looks at a label that is there.

## Not modelled

- Decoding: from a transaction's bytes, balances and logs to the instructions,
  movements and legs the incidents are made of (`raw-tx.ts`, `execution.ts` beyond
  its shapes, `position.ts`); a gap is any of it missing. Owner fields missing from
  token balances and errors while the agent's own balances are read are not among
  the gaps.
- The price sources' own protocols, the search for the transaction of a claim,
  and the oracle watcher's screen. Alerts are inputs of `ClaimKeeper`, answers of
  `PriceReview`. Of the detectors: the signature of an alert, the solvency rows,
  the cap on agents per sweep and the age at which a snapshot expires.
- The circuit breaker's window: any answer. The batches of the expiry crank and
  the order in which the watchers sweep: fairness and any order.
- Risk scoring, envelope derivation and quotes: numeric, no state beyond caches;
  an attestation with any contents is an input of `Underwriting`.
- Of the endpoint pool: reads corroborated by a second endpoint, the status
  report, routing by freshness (off) and latencies. Elsewhere callers see an
  answer, an error or nothing.
- Alert signing, HTTP routes, rate limiting, the web application, the
  demonstration fleet, account migrations, audit tools and deployment.
- Of the program: account validation by seeds and signers (an action is taken by
  whoever the constraints admit) and overflow of u64 and u128, which is out of the
  range of the amounts here.
- In `Governance`: the roles a baseline refuses, the manifest hash and delegated
  amounts, which nothing compares.
