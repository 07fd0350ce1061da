------------------------------- MODULE Vault -------------------------------
(***************************************************************************)
(* The insurance pool: the InsuranceVault account, the StakerPosition of   *)
(* every staker, the money side of every InsurancePolicy, and the          *)
(* ProtocolConfig fields they read.  One action per instruction of the     *)
(* Anchor program; an instruction whose `require!` or checked arithmetic   *)
(* fails reverts, so every such check is a guard here.                     *)
(*                                                                         *)
(* How a claim's evidence bounds the amount paid is the business of the    *)
(* settlement modules: here PayClaim pays any amount up to the coverage.   *)
(* u64/u128 overflow is out of range for the amounts modelled.             *)
(***************************************************************************)
EXTENDS Integers, FiniteSets, Functions

CONSTANTS
  Stakers,                     \* wallets that may hold a StakerPosition
  Triggers,                    \* claim kinds, TRIGGER_EXPLOIT ..
  LockPeriod,                  \* LockPeriod[t]: LOCK_EXPLOIT ..
  CLAIM_RESOLUTION_GRACE,
  UNSTAKE_COOLDOWN,
  BPS,                         \* basis points in a whole (10000)
  STAKER_SHARE_BPS, RESERVE_SHARE_BPS,
  SOLVENCY_CAUTION, SOLVENCY_CRITICAL,
  RATIO_MAX,                   \* u16::MAX
  CANCEL_PENALTY_BPS,
  MIN_PREMIUM,
  PREMIUM_BPS,                 \* PREMIUM_BPS[tier]: annual rate of a tier
  SECONDS_PER_YEAR,
  LOSS_INDEX_SCALE, REWARD_PER_STAKE_SCALE,
  MIN_MULTIPLIER, MAX_MULTIPLIER,  \* bounds of update_config
  StakeAmounts, Coverages, Durations, FlatPremiums, Multipliers,
  Payouts,                     \* the inputs callers choose from
  MaxStaked,                   \* bound: stake the pool may hold
  MaxPolicies,                 \* bound: policies ever sold
  Horizon                      \* bound: the last second of the clock

HIGH == "HIGH"
LOW  == "LOW"
Tiers == {LOW, HIGH}

ASSUME VaultAssumption ==
  /\ LockPeriod \in [Triggers -> Nat]
  /\ "none" \notin Triggers
  /\ CLAIM_RESOLUTION_GRACE \in Nat
  /\ UNSTAKE_COOLDOWN \in Nat
  /\ BPS \in Nat \ {0}
  /\ STAKER_SHARE_BPS \in Nat /\ RESERVE_SHARE_BPS \in Nat
  /\ STAKER_SHARE_BPS + RESERVE_SHARE_BPS <= BPS
  /\ SOLVENCY_CAUTION \in Nat /\ SOLVENCY_CRITICAL \in Nat
  /\ RATIO_MAX \in Nat /\ SOLVENCY_CAUTION <= RATIO_MAX
  /\ SOLVENCY_CRITICAL <= SOLVENCY_CAUTION
  /\ CANCEL_PENALTY_BPS \in 0..BPS
  /\ MIN_PREMIUM \in Nat
  /\ PREMIUM_BPS \in [Tiers -> Nat]
  /\ SECONDS_PER_YEAR \in Nat \ {0}
  /\ LOSS_INDEX_SCALE \in Nat \ {0}
  /\ REWARD_PER_STAKE_SCALE \in Nat \ {0}
  /\ MIN_MULTIPLIER \in Nat /\ MAX_MULTIPLIER \in Nat
  /\ BPS \in MIN_MULTIPLIER..MAX_MULTIPLIER
  /\ StakeAmounts \subseteq Nat
  /\ Coverages \subseteq Nat \ {0}
  /\ Durations \subseteq Nat \ {0}
  /\ FlatPremiums \subseteq Nat
  /\ Multipliers \subseteq Nat
  /\ Payouts \subseteq Nat
  /\ MaxStaked \in Nat /\ MaxPolicies \in Nat /\ Horizon \in Nat

\* Wallets are many, but never without end.
ASSUME StakersAssumption == IsFiniteSet(Stakers)

VARIABLES
  now,                         \* Clock::unix_timestamp
  \* ProtocolConfig
  paused, premium_multiplier_bps, policy_counter,
  \* InsuranceVault, and the USDC its token account holds
  vault_tokens,
  total_staked, total_coverage, total_premiums_collected, total_claims_paid,
  staker_count, solvency_ratio, total_staker_rewards, reward_per_stake_acc,
  reserve_fund, protocol_treasury, loss_index,
  position,                    \* position[s]: the StakerPosition of s
  policy                       \* policy[p]: the InsurancePolicy numbered p

clockVars  == <<now>>
configVars == <<paused, premium_multiplier_bps, policy_counter>>
poolVars   == <<total_staked, reserve_fund, protocol_treasury, loss_index>>
rewardVars == <<total_staker_rewards, reward_per_stake_acc>>
vars == <<now, paused, premium_multiplier_bps, policy_counter, vault_tokens,
          total_staked, total_coverage, total_premiums_collected,
          total_claims_paid, staker_count, solvency_ratio,
          total_staker_rewards, reward_per_stake_acc, reserve_fund,
          protocol_treasury, loss_index, position, policy>>

Policies == 0..MaxPolicies-1

Unopened == "unopened"
Active   == "Active"
Pending  == "ClaimPending"
Paid     == "ClaimPaid"
Expired  == "Expired"
Cancelled == "Cancelled"

PolicyStates == {Unopened, Active, Pending, Paid, Expired, Cancelled}
Live(p) == policy[p].state \in {Active, Pending}

StakerPosition ==
  [amount_staked: Nat, rewards_claimed: Nat, rewards_pending: Nat,
   reward_per_stake_snapshot: Nat, deposited: BOOLEAN,
   unstake_requested_at: Nat, loss_index_snapshot: Nat]

InsurancePolicy ==
  [state: PolicyStates, coverage_amount: Nat, premium_paid: Nat,
   start_time: Nat, expiry_time: Nat, claim_submitted_at: Nat,
   trigger_type: Triggers \cup {"none"}, payout_amount: Nat]

NoPosition ==
  [amount_staked |-> 0, rewards_claimed |-> 0, rewards_pending |-> 0,
   reward_per_stake_snapshot |-> 0, deposited |-> FALSE,
   unstake_requested_at |-> 0, loss_index_snapshot |-> 0]

NoPolicy ==
  [state |-> Unopened, coverage_amount |-> 0, premium_paid |-> 0,
   start_time |-> 0, expiry_time |-> 0, claim_submitted_at |-> 0,
   trigger_type |-> "none", payout_amount |-> 0]

TypeOK ==
  /\ now \in Nat \ {0}
  /\ paused \in BOOLEAN
  /\ premium_multiplier_bps \in MIN_MULTIPLIER..MAX_MULTIPLIER
  /\ policy_counter \in 0..MaxPolicies
  /\ vault_tokens \in Nat
  /\ total_staked \in Nat
  /\ total_coverage \in Nat
  /\ total_premiums_collected \in Nat
  /\ total_claims_paid \in Nat
  /\ staker_count \in Nat
  /\ solvency_ratio \in 0..RATIO_MAX
  /\ total_staker_rewards \in Nat
  /\ reward_per_stake_acc \in Nat
  /\ reserve_fund \in Nat
  /\ protocol_treasury \in Nat
  /\ loss_index \in 1..LOSS_INDEX_SCALE
  /\ position \in [Stakers -> StakerPosition]
  /\ policy \in [Policies -> InsurancePolicy]

\* The state the `initialize` instruction leaves behind.
Init ==
  /\ now = 1
  /\ paused = FALSE
  /\ premium_multiplier_bps = BPS
  /\ policy_counter = 0
  /\ vault_tokens = 0
  /\ total_staked = 0
  /\ total_coverage = 0
  /\ total_premiums_collected = 0
  /\ total_claims_paid = 0
  /\ staker_count = 0
  /\ solvency_ratio = RATIO_MAX
  /\ total_staker_rewards = 0
  /\ reward_per_stake_acc = 0
  /\ reserve_fund = 0
  /\ protocol_treasury = 0
  /\ loss_index = LOSS_INDEX_SCALE
  /\ position = [s \in Stakers |-> NoPosition]
  /\ policy = [p \in Policies |-> NoPolicy]

-----------------------------------------------------------------------------
(***************************************************************************)
(* Arithmetic shared by the instructions.                                  *)
(***************************************************************************)
Lesser(a, b)  == IF a <= b THEN a ELSE b
Greater(a, b) == IF a >= b THEN a ELSE b
Minus(a, b)   == IF a >= b THEN a - b ELSE 0          \* saturating_sub
CeilDiv(a, b) == (a + b - 1) \div b

\* InsuranceVault::recalculate_solvency
SolvencyRatio(staked, coverage) ==
  IF coverage = 0 THEN RATIO_MAX
  ELSE Lesser((staked * BPS) \div coverage, RATIO_MAX)

RecalculateSolvency == solvency_ratio' = SolvencyRatio(total_staked', total_coverage')

\* The part of a loss that reaches staker principal once the treasury and
\* the reserve are spent.
\* Slip: the reserve is spent and the principal charged for it again.
StakedLegPastTreasury(loss) == Minus(loss, protocol_treasury)

StakedLeg(loss) == Minus(loss, protocol_treasury + reserve_fund)

\* InsuranceVault::absorb_loss: treasury, then reserve, then principal, the
\* last leg scaling loss_index by what the pool shrank by.  Never to zero.
\* Slips: no floor; no scaling.
ScaledIndexUnfloored(before, after) == (loss_index * after) \div before
ScaledIndexUnmoved(before, after) == loss_index

ScaledIndex(before, after) == Greater((loss_index * after) \div before, 1)

AbsorbLoss(loss) ==
  LET from_treasury == Lesser(loss, protocol_treasury)
      from_reserve  == Lesser(loss - from_treasury, reserve_fund)
      staked_leg    == StakedLeg(loss)
  IN /\ staked_leg <= total_staked
     /\ protocol_treasury' = protocol_treasury - from_treasury
     /\ reserve_fund' = reserve_fund - from_reserve
     /\ total_staked' = total_staked - staked_leg
     /\ loss_index' = IF staked_leg = 0 THEN loss_index
                      ELSE ScaledIndex(total_staked, total_staked - staked_leg)

\* InsuranceVault::accrue_staker_rewards
AccrueStakerRewards(amount) ==
  /\ total_staker_rewards' = total_staker_rewards + amount
  /\ reward_per_stake_acc' =
       IF total_staked = 0 THEN reward_per_stake_acc
       ELSE reward_per_stake_acc
              + (amount * REWARD_PER_STAKE_SCALE) \div total_staked

\* settle_losses, then crystallize_rewards on what is left: every staker
\* instruction revalues the position it touches before using it.
\* Slip: a position keeps what was deposited.
LivePrincipalAsDeposited(pos) == pos.amount_staked

LivePrincipal(pos) ==
  IF pos.loss_index_snapshot = 0 \/ pos.amount_staked = 0 THEN pos.amount_staked
  ELSE (pos.amount_staked * loss_index) \div pos.loss_index_snapshot

SettleLosses(pos) ==
  [pos EXCEPT !.amount_staked = LivePrincipal(pos),
              !.loss_index_snapshot = loss_index]

PendingRewardDelta(pos) ==
  (pos.amount_staked * (reward_per_stake_acc - pos.reward_per_stake_snapshot))
     \div REWARD_PER_STAKE_SCALE

\* Slip: the snapshot stays, so the same rewards accrue at every touch.
CrystallizeRewardsAgain(pos) ==
  [pos EXCEPT !.rewards_pending = @ + PendingRewardDelta(pos)]

CrystallizeRewards(pos) ==
  [pos EXCEPT !.rewards_pending = @ + PendingRewardDelta(pos),
              !.reward_per_stake_snapshot = reward_per_stake_acc]

Touched(s) == CrystallizeRewards(SettleLosses(position[s]))

Premium(tier, coverage, duration, flat) ==
  LET annual == (coverage * PREMIUM_BPS[tier]) \div BPS
      tenor  == (annual * duration) \div SECONDS_PER_YEAR
  IN Greater(((tenor + flat) * premium_multiplier_bps) \div BPS, MIN_PREMIUM)

\* What cancel_policy hands back: the unused share of the premium, less the
\* penalty.
Refund(p) ==
  LET total     == policy[p].expiry_time - policy[p].start_time
      remaining == policy[p].expiry_time - now
  IN (((policy[p].premium_paid * remaining) \div total)
        * (BPS - CANCEL_PENALTY_BPS)) \div BPS

\* The stake that may not leave while coverage is outstanding.  Slip: rounded
\* down, as the ratio is.
ReserveRequiredRoundedDown == (total_coverage * SOLVENCY_CRITICAL) \div BPS

ReserveRequired == CeilDiv(total_coverage * SOLVENCY_CRITICAL, BPS)

-----------------------------------------------------------------------------
(***************************************************************************)
(* Staker instructions.                                                    *)
(***************************************************************************)
Stake(s, amount) ==
  LET pos    == Touched(s)
      is_new == pos.amount_staked = 0 /\ ~pos.deposited
  IN /\ ~paused
     /\ amount > 0
     /\ total_staked + amount <= MaxStaked
     /\ vault_tokens' = vault_tokens + amount
     /\ total_staked' = total_staked + amount
     /\ staker_count' = IF is_new THEN staker_count + 1 ELSE staker_count
     /\ position' = [position EXCEPT ![s] =
          [pos EXCEPT !.amount_staked = @ + amount, !.deposited = TRUE]]
     /\ UNCHANGED <<clockVars, configVars, rewardVars, total_coverage,
                    total_premiums_collected, total_claims_paid, reserve_fund,
                    protocol_treasury, loss_index, policy>>
     /\ RecalculateSolvency

RequestUnstake(s) ==
  /\ position[s].amount_staked > 0
  /\ position' = [position EXCEPT ![s].unstake_requested_at = now]
  /\ UNCHANGED <<clockVars, configVars, poolVars, rewardVars, vault_tokens,
                 total_coverage, total_premiums_collected, total_claims_paid,
                 staker_count, solvency_ratio, policy>>

CooledDown(s) ==
  /\ position[s].unstake_requested_at > 0
  /\ now >= position[s].unstake_requested_at + UNSTAKE_COOLDOWN

\* Pays what the solvency floor leaves; the rest of the request stays open.
ExecuteUnstake(s) ==
  LET pos       == Touched(s)
      requested == pos.amount_staked
      rewards   == pos.rewards_pending
      amount    == Lesser(Minus(total_staked, ReserveRequired), requested)
      leaves    == amount = requested
  IN /\ CooledDown(s)
     /\ amount > 0
     /\ rewards <= total_staker_rewards
     /\ amount + rewards <= vault_tokens
     /\ leaves => staker_count > 0
     /\ vault_tokens' = vault_tokens - (amount + rewards)
     /\ total_staker_rewards' = total_staker_rewards - rewards
     /\ total_staked' = total_staked - amount
     /\ staker_count' = IF leaves THEN staker_count - 1 ELSE staker_count
     /\ position' = [position EXCEPT ![s] =
          [pos EXCEPT !.amount_staked = requested - amount,
                      !.rewards_claimed = @ + rewards,
                      !.rewards_pending = 0,
                      !.unstake_requested_at = IF leaves THEN 0 ELSE @]]
     /\ UNCHANGED <<clockVars, configVars, reward_per_stake_acc,
                    total_coverage, total_premiums_collected,
                    total_claims_paid, reserve_fund, protocol_treasury,
                    loss_index, policy>>
     /\ RecalculateSolvency

ClaimRewards(s) ==
  LET pos     == Touched(s)
      rewards == pos.rewards_pending
  IN /\ rewards > 0
     /\ rewards <= total_staker_rewards
     /\ rewards <= vault_tokens
     /\ total_staker_rewards' = total_staker_rewards - rewards
     /\ vault_tokens' = vault_tokens - rewards
     /\ position' = [position EXCEPT ![s] =
          [pos EXCEPT !.rewards_claimed = @ + rewards, !.rewards_pending = 0]]
     /\ UNCHANGED <<clockVars, configVars, poolVars, reward_per_stake_acc,
                    total_coverage, total_premiums_collected,
                    total_claims_paid, staker_count, solvency_ratio, policy>>

-----------------------------------------------------------------------------
(***************************************************************************)
(* Policy instructions.                                                    *)
(***************************************************************************)
\* The ladder create_policy reads from the stored ratio.
Underwritable(tier) ==
  /\ tier = HIGH => solvency_ratio >= SOLVENCY_CAUTION
  /\ total_coverage > 0 => solvency_ratio >= SOLVENCY_CRITICAL

\* Bound: a policy is sold only if it can be closed before the clock stops.
ClosesInTime(duration) ==
  \A t \in Triggers :
    now + duration + LockPeriod[t] + CLAIM_RESOLUTION_GRACE <= Horizon

CreatePolicy(tier, coverage, duration, flat) ==
  LET p             == policy_counter
      premium       == Premium(tier, coverage, duration, flat)
      staker_share  == (premium * STAKER_SHARE_BPS) \div BPS
      reserve_share == (premium * RESERVE_SHARE_BPS) \div BPS
  IN /\ p < MaxPolicies
     /\ ClosesInTime(duration)
     /\ ~paused
     /\ Underwritable(tier)
     /\ flat <= coverage
     /\ vault_tokens' = vault_tokens + premium
     /\ AccrueStakerRewards(staker_share)
     /\ reserve_fund' = reserve_fund + reserve_share
     /\ protocol_treasury' =
          protocol_treasury + (premium - staker_share - reserve_share)
     /\ total_coverage' = total_coverage + coverage
     /\ total_premiums_collected' = total_premiums_collected + premium
     /\ policy_counter' = policy_counter + 1
     /\ policy' = [policy EXCEPT ![p] =
          [state |-> Active, coverage_amount |-> coverage,
           premium_paid |-> premium, start_time |-> now,
           expiry_time |-> now + duration, claim_submitted_at |-> 0,
           trigger_type |-> "none", payout_amount |-> 0]]
     /\ UNCHANGED <<clockVars, paused, premium_multiplier_bps, total_staked,
                    total_claims_paid, staker_count, loss_index, position>>
     /\ RecalculateSolvency

\* Every way of closing a policy returns its coverage to the pool.
\* Slip: only what was not paid out is returned.
ReleaseCoverageUnpaid(p) ==
  total_coverage' = total_coverage - policy[p].coverage_amount + policy'[p].payout_amount

ReleaseCoverage(p) ==
  /\ policy[p].coverage_amount <= total_coverage
  /\ total_coverage' = total_coverage - policy[p].coverage_amount

CancelPolicy(p) ==
  /\ policy[p].state = Active
  /\ now < policy[p].expiry_time
  /\ AbsorbLoss(Refund(p))
  /\ Refund(p) <= vault_tokens
  /\ vault_tokens' = vault_tokens - Refund(p)
  /\ policy' = [policy EXCEPT ![p].state = Cancelled]
  /\ ReleaseCoverage(p)
  /\ UNCHANGED <<clockVars, configVars, rewardVars, total_premiums_collected,
                 total_claims_paid, staker_count, position>>
  /\ RecalculateSolvency

\* Slip: the lock runs from the start of cover.
LockEndFromStart(p) == policy[p].start_time + LockPeriod[policy[p].trigger_type]

LockEnd(p) == policy[p].claim_submitted_at + LockPeriod[policy[p].trigger_type]

\* Slip: a claim that is never settled holds its policy open.
ExpirableUnclaimed(p) == policy[p].state = Active /\ now >= policy[p].expiry_time

Expirable(p) ==
  /\ now >= policy[p].expiry_time
  /\ \/ policy[p].state = Active
     \/ /\ policy[p].state = Pending
        /\ now >= LockEnd(p) + CLAIM_RESOLUTION_GRACE

ExpirePolicy(p) ==
  /\ Expirable(p)
  /\ policy' = [policy EXCEPT ![p].state = Expired]
  /\ ReleaseCoverage(p)
  /\ UNCHANGED <<clockVars, configVars, poolVars, rewardVars, vault_tokens,
                 total_premiums_collected, total_claims_paid, staker_count,
                 position>>
  /\ RecalculateSolvency

\* The holder files at any time of cover, paused or not.
SubmitClaim(p, trigger) ==
  /\ policy[p].state = Active
  /\ now < policy[p].expiry_time
  /\ policy' = [policy EXCEPT ![p].state = Pending,
                              ![p].trigger_type = trigger,
                              ![p].claim_submitted_at = now]
  /\ UNCHANGED <<clockVars, configVars, poolVars, rewardVars, vault_tokens,
                 total_coverage, total_premiums_collected, total_claims_paid,
                 staker_count, solvency_ratio, position>>

OracleSubmitClaim(p, trigger) == ~paused /\ SubmitClaim(p, trigger)

\* The part the four verify_and_payout instructions share: the gates on the
\* policy, and what paying does to the pool.
PayClaim(p, amount) ==
  /\ ~paused
  /\ policy[p].state = Pending
  /\ amount \in 1..policy[p].coverage_amount
  /\ now >= LockEnd(p)
  /\ amount <= vault_tokens
  /\ vault_tokens' = vault_tokens - amount
  /\ total_claims_paid' = total_claims_paid + amount
  /\ AbsorbLoss(amount)
  /\ policy' = [policy EXCEPT ![p].state = Paid, ![p].payout_amount = amount]
  /\ ReleaseCoverage(p)
  /\ UNCHANGED <<clockVars, configVars, rewardVars, total_premiums_collected,
                 staker_count, position>>
  /\ RecalculateSolvency

-----------------------------------------------------------------------------
UpdateConfig(new_paused, new_multiplier) ==
  /\ new_multiplier \in MIN_MULTIPLIER..MAX_MULTIPLIER
  /\ paused' = new_paused
  /\ premium_multiplier_bps' = new_multiplier
  /\ UNCHANGED <<clockVars, policy_counter, poolVars, rewardVars,
                 vault_tokens, total_coverage, total_premiums_collected,
                 total_claims_paid, staker_count, solvency_ratio, position,
                 policy>>

Tick ==
  /\ now < Horizon
  /\ now' = now + 1
  /\ UNCHANGED <<configVars, poolVars, rewardVars, vault_tokens,
                 total_coverage, total_premiums_collected, total_claims_paid,
                 staker_count, solvency_ratio, position, policy>>

StakerStep(s) ==
  \/ \E amount \in StakeAmounts : Stake(s, amount)
  \/ RequestUnstake(s)
  \/ ExecuteUnstake(s)
  \/ ClaimRewards(s)

PolicyStep(p) ==
  \/ CancelPolicy(p)
  \/ ExpirePolicy(p)
  \/ \E t \in Triggers : SubmitClaim(p, t) \/ OracleSubmitClaim(p, t)
  \/ \E amount \in Payouts : PayClaim(p, amount)

Next ==
  \/ Tick
  \/ \E s \in Stakers : StakerStep(s)
  \/ \E p \in Policies : PolicyStep(p)
  \/ \E tier \in Tiers, c \in Coverages, d \in Durations, f \in FlatPremiums :
       CreatePolicy(tier, c, d, f)
  \/ \E b \in BOOLEAN, m \in Multipliers : UpdateConfig(b, m)

Spec == Init /\ [][Next]_vars

-----------------------------------------------------------------------------
(***************************************************************************)
(* Properties.                                                             *)
(***************************************************************************)
\* Every USDC in the vault's token account is accounted for exactly once: as
\* principal, as unpaid rewards, as reserve or as treasury.  The refund of a
\* cancelled policy once broke this (cancel_policy.rs).
TokensBacked ==
  vault_tokens = total_staked + total_staker_rewards + reserve_fund
                   + protocol_treasury

\* The vault's totals are those of its policies: coverage counts the live
\* ones and only them, so closing one by any of the four ways releases it
\* exactly once; payouts and premiums add up.
BooksMatchPolicies ==
  /\ total_coverage =
       SumFunction([p \in Policies |-> IF Live(p) THEN policy[p].coverage_amount ELSE 0])
  /\ total_claims_paid = SumFunction([p \in Policies |-> policy[p].payout_amount])
  /\ total_premiums_collected =
       SumFunction([p \in Policies |-> policy[p].premium_paid])

\* The stored ratio that create_policy's gates read is never stale: every
\* instruction that moves stake or coverage recalculates it.
SolvencyFresh == solvency_ratio = SolvencyRatio(total_staked, total_coverage)

\* Losses are socialised: what every staker could be credited with, together,
\* is in the pool, however late each position is revalued (absorb_loss and
\* settle_losses).  Once the index has hit its floor of one it no longer
\* tracks losses, and this does not hold.
PrincipalBacked ==
  loss_index > 1 =>
    SumFunction([s \in Stakers |-> LivePrincipal(position[s])]) <= total_staked

\* The rewards every staker could claim, together, are in the reward ledger,
\* so no claim or exit ever fails for want of it.
RewardsBacked ==
  loss_index > 1 =>
    SumFunction([s \in Stakers |-> Touched(s).rewards_pending])
      <= total_staker_rewards

\* A loss that reaches principal costs every staker the share the pool lost,
\* up to the rounding of one unit: nobody keeps more by staying untouched.
LossIsShared ==
  [][ loss_index' < loss_index /\ loss_index' > 1 =>
        \A s \in Stakers :
          LivePrincipal(position[s])' * total_staked
            < (LivePrincipal(position[s]) + 1) * total_staked' ]_vars

\* Capital that leaves with a staker never takes the pool below the line at
\* which create_policy refuses to write cover: issuance and exit honour the
\* same threshold, the one rounded down and the other up.
ExitHonoursIssuanceLine ==
  [][ (\E s \in Stakers :
         position'[s].amount_staked < LivePrincipal(position[s]))
        => solvency_ratio' >= SOLVENCY_CRITICAL ]_vars

\* Once its cooldown is served and no coverage is outstanding, a staker can
\* take out what is left of the position: nothing but the floor holds stake
\* back (unstake.rs, "that bounds how long a staker can be held").
ExitOpenWhenUncovered ==
  \A s \in Stakers :
    /\ CooledDown(s)
    /\ total_coverage = 0
    /\ LivePrincipal(position[s]) > 0
    => ENABLED ExecuteUnstake(s)

\* The policies of the pool follow the life cycle a policy promises.
Lifecycle == INSTANCE PolicyLifecycle WITH
  Grace  <- CLAIM_RESOLUTION_GRACE,
  phase  <- [p \in Policies |-> policy[p].state],
  cover  <- [p \in Policies |-> policy[p].coverage_amount],
  expiry <- [p \in Policies |-> policy[p].expiry_time],
  claim  <- [p \in Policies |-> [at |-> policy[p].claim_submitted_at,
                                 trigger |-> policy[p].trigger_type]],
  paid   <- [p \in Policies |-> policy[p].payout_amount]

ImplementsLifecycle == Lifecycle!LifecycleSpec

\* Coverage is never reserved forever: a policy that is sold is eventually
\* paid, cancelled or expired, filed claims included.
CoverageReleased ==
  \A p \in Policies :
    policy[p].state = Active ~> policy[p].state \in {Paid, Expired, Cancelled}
=============================================================================
