---------------------------- MODULE VaultProofs ----------------------------
(***************************************************************************)
(* Theorems about the insurance pool, for any number of stakers and        *)
(* policies and any value of the protocol's constants.                     *)
(*                                                                         *)
(* TypeOK is not inductive: a position that had seen a later reward        *)
(* accumulator than the pool's would be owed a negative reward, and a      *)
(* policy that expires before it starts would be refunded more than its    *)
(* premium.  SnapshotsBehind and TermsSound exclude those.                 *)
(***************************************************************************)
EXTENDS Vault, FiniteSetTheorems, TLAPS

SnapshotsBehind ==
  \A s \in Stakers :
    /\ position[s].reward_per_stake_snapshot <= reward_per_stake_acc
    /\ position[s].amount_staked > 0 =>
         position[s].loss_index_snapshot >= loss_index

TermsSound ==
  \A p \in Policies :
    /\ policy[p].state # Unopened => policy[p].start_time < policy[p].expiry_time
    /\ policy[p].start_time <= now
    /\ policy[p].state = Pending => policy[p].trigger_type \in Triggers
    /\ p >= policy_counter <=> policy[p].state = Unopened
    /\ policy[p].state = Unopened => policy[p] = NoPolicy

Inv ==
  /\ TypeOK
  /\ SnapshotsBehind
  /\ TermsSound
  /\ TokensBacked
  /\ SolvencyFresh

-----------------------------------------------------------------------------
(* Integer division, as the program rounds it. *)
LEMMA DivNat == ASSUME NEW a \in Nat, NEW b \in Nat \ {0} PROVE a \div b \in Nat
  OBVIOUS

LEMMA MulNat == ASSUME NEW a \in Nat, NEW b \in Nat PROVE a * b \in Nat
  OBVIOUS

LEMMA DivBelow ==
  ASSUME NEW a \in Nat, NEW b \in Nat \ {0} PROVE b * (a \div b) <= a
  OBVIOUS

LEMMA DivMul ==
  ASSUME NEW a \in Nat, NEW b \in Nat \ {0} PROVE (a * b) \div b = a
  OBVIOUS

LEMMA MulMono ==
  ASSUME NEW a \in Nat, NEW b \in Nat, NEW c \in Nat, a <= b
  PROVE  a * c <= b * c
  OBVIOUS

LEMMA DivMono ==
  ASSUME NEW a \in Nat, NEW b \in Nat, NEW c \in Nat \ {0}, a <= b
  PROVE  a \div c <= b \div c
  OBVIOUS

LEMMA MulDiv ==
  ASSUME NEW a \in Nat, NEW b \in Nat, NEW c \in Nat \ {0}, b <= c
  PROVE  (a * b) \div c <= a
<1>1. a * b <= a * c  BY MulMono
<1>2. (a * b) \div c <= (a * c) \div c  BY <1>1, DivMono, MulNat
<1> QED  BY <1>2, DivMul

\* The shares of a premium never add up to more than the premium.
LEMMA SplitFits ==
  ASSUME NEW x \in Nat, NEW a \in Nat, NEW b \in Nat, NEW c \in Nat \ {0},
         a + b <= c
  PROVE  (x * a) \div c + (x * b) \div c <= x
<1> DEFINE q == (x * a) \div c
           r == (x * b) \div c
<1>1. q \in Nat /\ r \in Nat  BY DivNat, MulNat
<1>2. c * q <= x * a /\ c * r <= x * b  BY DivBelow, MulNat
<1>3. c * (q + r) <= x * (a + b)  BY <1>1, <1>2
<1>4. x * (a + b) <= x * c  BY MulMono
<1> QED  BY <1>1, <1>3, <1>4

-----------------------------------------------------------------------------
(* The helpers of the instructions. *)

\* The stored ratio fits its width whatever the pool holds.
LEMMA SolvencyRatioTyped ==
  ASSUME NEW staked \in Nat, NEW coverage \in Nat
  PROVE  SolvencyRatio(staked, coverage) \in 0..RATIO_MAX
<1>1. coverage # 0 => (staked * BPS) \div coverage \in Nat
  BY DivNat, MulNat, VaultAssumption
<1> QED  BY <1>1, VaultAssumption DEF SolvencyRatio, Lesser

\* absorb_loss takes exactly the loss out of the three buckets, none of them
\* below zero, and only ever lowers the index.
LEMMA AbsorbLossExact ==
  ASSUME TypeOK, NEW loss \in Nat, AbsorbLoss(loss)
  PROVE  /\ total_staked' \in Nat /\ reserve_fund' \in Nat
         /\ protocol_treasury' \in Nat
         /\ loss_index' \in 1..loss_index
         /\ total_staked' + reserve_fund' + protocol_treasury' + loss
              = total_staked + reserve_fund + protocol_treasury
<1> DEFINE leg == StakedLeg(loss)
           left == total_staked - leg
<1> USE DEF TypeOK
<1>1. leg \in Nat /\ leg <= total_staked
  BY DEF AbsorbLoss, StakedLeg, Minus
<1>2. /\ total_staked' \in Nat /\ reserve_fund' \in Nat
      /\ protocol_treasury' \in Nat
      /\ total_staked' + reserve_fund' + protocol_treasury' + loss
           = total_staked + reserve_fund + protocol_treasury
  BY <1>1 DEF AbsorbLoss, StakedLeg, Minus, Lesser
<1>3. leg # 0 => /\ (loss_index * left) \div total_staked \in Nat
                 /\ (loss_index * left) \div total_staked <= loss_index
  <2> SUFFICES ASSUME leg # 0
               PROVE  /\ (loss_index * left) \div total_staked \in Nat
                      /\ (loss_index * left) \div total_staked <= loss_index
    OBVIOUS
  <2>1. total_staked \in Nat \ {0} /\ left \in Nat /\ left <= total_staked
    BY <1>1
  <2>2. loss_index \in Nat  OBVIOUS
  <2> QED  BY <2>1, <2>2, MulDiv, DivNat, MulNat
<1>4. loss_index' \in 1..loss_index
  BY <1>3 DEF AbsorbLoss, ScaledIndex, Greater
<1> QED  BY <1>2, <1>4

\* crystallize_rewards moves the pending rewards and the snapshot, no more.
LEMMA CrystallizeTyped ==
  ASSUME NEW r \in StakerPosition, PendingRewardDelta(r) \in Nat,
         reward_per_stake_acc \in Nat
  PROVE  /\ CrystallizeRewards(r) \in StakerPosition
         /\ CrystallizeRewards(r).amount_staked = r.amount_staked
         /\ CrystallizeRewards(r).reward_per_stake_snapshot = reward_per_stake_acc
         /\ CrystallizeRewards(r).loss_index_snapshot = r.loss_index_snapshot
<1> DEFINE pending == r.rewards_pending + PendingRewardDelta(r)
<1>1. pending \in Nat
  BY DEF StakerPosition
<1>2. CrystallizeRewards(r) =
        [r EXCEPT !.rewards_pending = pending,
                  !.reward_per_stake_snapshot = reward_per_stake_acc]
  BY DEF CrystallizeRewards
<1> HIDE DEF pending
<1> QED  BY <1>1, <1>2 DEF StakerPosition

\* What every staker instruction does to the position first.
LEMMA TouchedTyped ==
  ASSUME TypeOK, SnapshotsBehind, NEW s \in Stakers
  PROVE  /\ Touched(s) \in StakerPosition
         /\ Touched(s).amount_staked = LivePrincipal(position[s])
         /\ Touched(s).reward_per_stake_snapshot = reward_per_stake_acc
         /\ Touched(s).loss_index_snapshot = loss_index
<1> DEFINE pos == position[s]
           live == LivePrincipal(pos)
           settled == SettleLosses(pos)
<1>1. pos \in StakerPosition /\ loss_index \in Nat \ {0}
      /\ reward_per_stake_acc \in Nat
  BY DEF TypeOK
<1>2. live \in Nat
  <2>1. pos.loss_index_snapshot # 0 =>
          (pos.amount_staked * loss_index) \div pos.loss_index_snapshot \in Nat
    BY <1>1, DivNat, MulNat DEF StakerPosition
  <2> QED  BY <1>1, <2>1 DEF LivePrincipal, StakerPosition
<1>3. /\ settled \in StakerPosition
      /\ settled.amount_staked = live
      /\ settled.loss_index_snapshot = loss_index
      /\ settled.reward_per_stake_snapshot = pos.reward_per_stake_snapshot
  BY <1>1, <1>2 DEF SettleLosses, StakerPosition
<1>4. PendingRewardDelta(settled) \in Nat
  <2>1. reward_per_stake_acc - settled.reward_per_stake_snapshot \in Nat
    BY <1>1, <1>3 DEF SnapshotsBehind, StakerPosition
  <2>2. settled.amount_staked * (reward_per_stake_acc
           - settled.reward_per_stake_snapshot) \in Nat
    BY <1>2, <1>3, <2>1, MulNat
  <2> QED  BY <2>2, DivNat, VaultAssumption DEF PendingRewardDelta
<1> HIDE DEF live, settled, pos
<1>5. Touched(s) = CrystallizeRewards(settled)
  BY DEF Touched, settled, pos
<1>6. /\ CrystallizeRewards(settled) \in StakerPosition
      /\ CrystallizeRewards(settled).amount_staked = settled.amount_staked
      /\ CrystallizeRewards(settled).reward_per_stake_snapshot = reward_per_stake_acc
      /\ CrystallizeRewards(settled).loss_index_snapshot
           = settled.loss_index_snapshot
  BY <1>1, <1>3, <1>4, CrystallizeTyped
<1> QED  BY <1>1, <1>3, <1>5, <1>6 DEF live, pos

\* A staker instruction writes one position, already revalued.
LEMMA PositionWritten ==
  ASSUME TypeOK, SnapshotsBehind, NEW s \in Stakers, NEW r \in StakerPosition,
         r.reward_per_stake_snapshot <= reward_per_stake_acc,
         r.amount_staked > 0 => r.loss_index_snapshot >= loss_index,
         position' = [position EXCEPT ![s] = r],
         reward_per_stake_acc' = reward_per_stake_acc, loss_index' = loss_index
  PROVE  position' \in [Stakers -> StakerPosition] /\ SnapshotsBehind'
BY DEF TypeOK, SnapshotsBehind

\* A policy instruction leaves positions alone, and rewards only accumulate.
LEMMA PositionsKept ==
  ASSUME TypeOK, SnapshotsBehind, position' = position,
         reward_per_stake_acc' \in Nat,
         reward_per_stake_acc <= reward_per_stake_acc',
         loss_index' \in 1..loss_index
  PROVE  position' \in [Stakers -> StakerPosition] /\ SnapshotsBehind'
<1> SUFFICES ASSUME NEW s \in Stakers
             PROVE /\ position[s].reward_per_stake_snapshot <= reward_per_stake_acc'
                   /\ position[s].amount_staked > 0 =>
                        position[s].loss_index_snapshot >= loss_index'
  BY DEF TypeOK, SnapshotsBehind
<1> QED  BY DEF TypeOK, SnapshotsBehind, StakerPosition

\* The terms of a policy are written once; later steps move its state, and
\* file a claim of a known kind.
LEMMA TermsKept ==
  ASSUME TypeOK, TermsSound, policy' = policy, policy_counter' = policy_counter,
         now' \in Nat, now <= now'
  PROVE  TermsSound'
BY DEF TypeOK, TermsSound, InsurancePolicy

-----------------------------------------------------------------------------
(* Each instruction preserves the invariant. *)
LEMMA StakeInv ==
  ASSUME Inv, NEW s \in Stakers, NEW amount \in StakeAmounts, Stake(s, amount)
  PROVE  Inv'
<1> DEFINE pos == Touched(s)
           sum == pos.amount_staked + amount
           r == [pos EXCEPT !.amount_staked = sum, !.deposited = TRUE]
<1> USE DEF Inv
<1>1. /\ pos \in StakerPosition
      /\ pos.reward_per_stake_snapshot = reward_per_stake_acc
      /\ pos.loss_index_snapshot = loss_index
  BY TouchedTyped
<1>2. amount \in Nat  BY VaultAssumption
<1>3. position' = [position EXCEPT ![s] = r]  BY DEF Stake
<1> HIDE DEF pos
<1>4. sum \in Nat  BY <1>1, <1>2 DEF StakerPosition
<1> HIDE DEF sum
<1>5. /\ r \in StakerPosition
      /\ r.reward_per_stake_snapshot = reward_per_stake_acc
      /\ r.loss_index_snapshot = loss_index
  BY <1>1, <1>4 DEF StakerPosition
<1> HIDE DEF r
<1>6. /\ r.reward_per_stake_snapshot <= reward_per_stake_acc
      /\ r.loss_index_snapshot >= loss_index
  BY <1>5 DEF TypeOK
<1>7. position' \in [Stakers -> StakerPosition] /\ SnapshotsBehind'
  BY <1>3, <1>5, <1>6, PositionWritten DEF Stake, rewardVars
<1>8. TermsSound'
  BY TermsKept DEF Stake, configVars, clockVars, TypeOK
<1>9. solvency_ratio' \in 0..RATIO_MAX /\ SolvencyFresh'
  BY <1>2, SolvencyRatioTyped
  DEF Stake, RecalculateSolvency, SolvencyFresh, TypeOK
<1>10. TokensBacked'
  BY <1>2 DEF Stake, TokensBacked, TypeOK, rewardVars
<1>11. TypeOK'
  BY <1>2, <1>7, <1>9 DEF Stake, TypeOK, clockVars, configVars, rewardVars
<1> QED  BY <1>7, <1>8, <1>9, <1>10, <1>11

LEMMA RequestUnstakeInv ==
  ASSUME Inv, NEW s \in Stakers, RequestUnstake(s)
  PROVE  Inv'
<1> DEFINE r == [position[s] EXCEPT !.unstake_requested_at = now]
<1> USE DEF Inv
<1>1. position' = [position EXCEPT ![s] = r]  BY DEF RequestUnstake
<1>2. /\ r \in StakerPosition
      /\ r.reward_per_stake_snapshot <= reward_per_stake_acc
      /\ r.amount_staked > 0 => r.loss_index_snapshot >= loss_index
  BY DEF TypeOK, SnapshotsBehind, StakerPosition
<1> HIDE DEF r
<1>3. position' \in [Stakers -> StakerPosition] /\ SnapshotsBehind'
  BY <1>1, <1>2, PositionWritten DEF RequestUnstake, rewardVars, poolVars
<1>4. TermsSound'
  BY TermsKept DEF RequestUnstake, configVars, clockVars, TypeOK
<1>5. TypeOK' /\ TokensBacked' /\ SolvencyFresh'
  BY <1>3 DEF RequestUnstake, TypeOK, TokensBacked, SolvencyFresh,
     SolvencyRatio, Lesser, clockVars, configVars, poolVars, rewardVars
<1> QED  BY <1>3, <1>4, <1>5

LEMMA ExecuteUnstakeInv ==
  ASSUME Inv, NEW s \in Stakers, ExecuteUnstake(s)
  PROVE  Inv'
<1> DEFINE pos     == Touched(s)
           amount  == Lesser(Minus(total_staked, ReserveRequired),
                             pos.amount_staked)
           rest    == pos.amount_staked - amount
           claimed == pos.rewards_claimed + pos.rewards_pending
           request == IF amount = pos.amount_staked THEN 0
                      ELSE pos.unstake_requested_at
           r == [pos EXCEPT !.amount_staked = rest,
                            !.rewards_claimed = claimed,
                            !.rewards_pending = 0,
                            !.unstake_requested_at = request]
<1> USE DEF Inv
<1>1. /\ pos \in StakerPosition
      /\ pos.reward_per_stake_snapshot = reward_per_stake_acc
      /\ pos.loss_index_snapshot = loss_index
  BY TouchedTyped
<1>2. position' = [position EXCEPT ![s] = r]  BY DEF ExecuteUnstake
<1>3. /\ amount > 0 /\ amount + pos.rewards_pending <= vault_tokens
      /\ pos.rewards_pending <= total_staker_rewards
      /\ amount = pos.amount_staked => staker_count > 0
      /\ vault_tokens' = vault_tokens - (amount + pos.rewards_pending)
      /\ total_staker_rewards' = total_staker_rewards - pos.rewards_pending
      /\ total_staked' = total_staked - amount
      /\ staker_count' = IF amount = pos.amount_staked THEN staker_count - 1
                         ELSE staker_count
  BY DEF ExecuteUnstake
<1> HIDE DEF pos
<1>4. ReserveRequired \in Nat
  <2>1. total_coverage * SOLVENCY_CRITICAL + BPS - 1 \in Nat
    BY MulNat, VaultAssumption DEF TypeOK
  <2> QED  BY <2>1, DivNat, VaultAssumption DEF ReserveRequired, CeilDiv
<1>5. amount \in Nat /\ amount <= pos.amount_staked /\ amount <= total_staked
  <2>1. total_staked \in Nat /\ pos.amount_staked \in Nat
    BY <1>1 DEF TypeOK, StakerPosition
  <2> QED  BY <1>4, <2>1 DEF Lesser, Minus
<1> HIDE DEF amount
<1>6. rest \in Nat /\ claimed \in Nat /\ request \in Nat
  BY <1>1, <1>5 DEF StakerPosition
<1> HIDE DEF rest, claimed, request
<1>7. /\ r \in StakerPosition
      /\ r.reward_per_stake_snapshot = reward_per_stake_acc
      /\ r.loss_index_snapshot = loss_index
  BY <1>1, <1>6 DEF StakerPosition
<1> HIDE DEF r
<1>8. /\ r.reward_per_stake_snapshot <= reward_per_stake_acc
      /\ r.loss_index_snapshot >= loss_index
  BY <1>7 DEF TypeOK
<1>9. position' \in [Stakers -> StakerPosition] /\ SnapshotsBehind'
  BY <1>2, <1>7, <1>8, PositionWritten DEF ExecuteUnstake
<1>10. TermsSound'
  BY TermsKept DEF ExecuteUnstake, configVars, clockVars, TypeOK
<1>11. /\ vault_tokens' \in Nat /\ total_staker_rewards' \in Nat
       /\ total_staked' \in Nat /\ staker_count' \in Nat
       /\ TokensBacked'
  <2>1. pos.rewards_pending \in Nat  BY <1>1 DEF StakerPosition
  <2>2. reserve_fund' = reserve_fund /\ protocol_treasury' = protocol_treasury
    BY DEF ExecuteUnstake
  <2> QED  BY <1>3, <1>5, <2>1, <2>2 DEF TypeOK, TokensBacked
<1>12. solvency_ratio' \in 0..RATIO_MAX /\ SolvencyFresh'
  BY <1>11, SolvencyRatioTyped
  DEF ExecuteUnstake, RecalculateSolvency, SolvencyFresh, TypeOK
<1>13. TypeOK'
  BY <1>9, <1>11, <1>12 DEF ExecuteUnstake, TypeOK, clockVars, configVars
<1> QED  BY <1>9, <1>10, <1>11, <1>12, <1>13

LEMMA ClaimRewardsInv ==
  ASSUME Inv, NEW s \in Stakers, ClaimRewards(s)
  PROVE  Inv'
<1> DEFINE pos     == Touched(s)
           claimed == pos.rewards_claimed + pos.rewards_pending
           r == [pos EXCEPT !.rewards_claimed = claimed, !.rewards_pending = 0]
<1> USE DEF Inv
<1>1. /\ pos \in StakerPosition
      /\ pos.reward_per_stake_snapshot = reward_per_stake_acc
      /\ pos.loss_index_snapshot = loss_index
  BY TouchedTyped
<1>2. position' = [position EXCEPT ![s] = r]  BY DEF ClaimRewards
<1>3. /\ pos.rewards_pending <= total_staker_rewards
      /\ pos.rewards_pending <= vault_tokens
      /\ total_staker_rewards' = total_staker_rewards - pos.rewards_pending
      /\ vault_tokens' = vault_tokens - pos.rewards_pending
  BY DEF ClaimRewards
<1> HIDE DEF pos
<1>4. pos.rewards_pending \in Nat /\ claimed \in Nat
  BY <1>1 DEF StakerPosition
<1> HIDE DEF claimed
<1>5. /\ r \in StakerPosition
      /\ r.reward_per_stake_snapshot = reward_per_stake_acc
      /\ r.loss_index_snapshot = loss_index
  BY <1>1, <1>4 DEF StakerPosition
<1> HIDE DEF r
<1>6. /\ r.reward_per_stake_snapshot <= reward_per_stake_acc
      /\ r.loss_index_snapshot >= loss_index
  BY <1>5 DEF TypeOK
<1>7. position' \in [Stakers -> StakerPosition] /\ SnapshotsBehind'
  BY <1>2, <1>5, <1>6, PositionWritten DEF ClaimRewards, poolVars
<1>8. TermsSound'
  BY TermsKept DEF ClaimRewards, configVars, clockVars, TypeOK
<1>9. /\ vault_tokens' \in Nat /\ total_staker_rewards' \in Nat
      /\ TokensBacked'
  BY <1>3, <1>4 DEF ClaimRewards, TypeOK, TokensBacked, poolVars
<1>10. SolvencyFresh'
  BY DEF ClaimRewards, SolvencyFresh, SolvencyRatio, Lesser, poolVars
<1>11. TypeOK'
  BY <1>7, <1>9 DEF ClaimRewards, TypeOK, clockVars, configVars, poolVars
<1> QED  BY <1>7, <1>8, <1>9, <1>10, <1>11

LEMMA PremiumTyped ==
  ASSUME TypeOK, NEW tier \in Tiers, NEW coverage \in Nat, NEW duration \in Nat,
         NEW flat \in Nat
  PROVE  Premium(tier, coverage, duration, flat) \in Nat
<1> DEFINE annual == (coverage * PREMIUM_BPS[tier]) \div BPS
           tenor  == (annual * duration) \div SECONDS_PER_YEAR
           scaled == ((tenor + flat) * premium_multiplier_bps) \div BPS
<1>1. PREMIUM_BPS[tier] \in Nat /\ BPS \in Nat \ {0} /\ MIN_PREMIUM \in Nat
      /\ SECONDS_PER_YEAR \in Nat \ {0} /\ premium_multiplier_bps \in Nat
  BY VaultAssumption DEF TypeOK
<1>2. annual \in Nat  BY <1>1, DivNat, MulNat
<1>3. tenor \in Nat  BY <1>1, <1>2, DivNat, MulNat
<1>4. tenor + flat \in Nat  BY <1>3
<1>5. scaled \in Nat  BY <1>1, <1>4, DivNat, MulNat
<1> HIDE DEF scaled
<1>6. Premium(tier, coverage, duration, flat) = Greater(scaled, MIN_PREMIUM)
  BY DEF Premium, scaled
<1> QED  BY <1>1, <1>5, <1>6 DEF Greater

LEMMA CreatePolicyInv ==
  ASSUME Inv, NEW tier \in Tiers, NEW coverage \in Coverages,
         NEW duration \in Durations, NEW flat \in FlatPremiums,
         CreatePolicy(tier, coverage, duration, flat)
  PROVE  Inv'
<1> DEFINE premium == Premium(tier, coverage, duration, flat)
           staker  == (premium * STAKER_SHARE_BPS) \div BPS
           reserve == (premium * RESERVE_SHARE_BPS) \div BPS
           p       == policy_counter
           new     == [state |-> Active, coverage_amount |-> coverage,
                       premium_paid |-> premium, start_time |-> now,
                       expiry_time |-> now + duration, claim_submitted_at |-> 0,
                       trigger_type |-> "none", payout_amount |-> 0]
<1> USE DEF Inv
<1>1. /\ coverage \in Nat /\ duration \in Nat \ {0} /\ flat \in Nat
      /\ STAKER_SHARE_BPS \in Nat /\ RESERVE_SHARE_BPS \in Nat
      /\ STAKER_SHARE_BPS + RESERVE_SHARE_BPS <= BPS /\ BPS \in Nat \ {0}
      /\ REWARD_PER_STAKE_SCALE \in Nat /\ MaxPolicies \in Nat
  BY VaultAssumption
<1>2. premium \in Nat  BY <1>1, PremiumTyped
<1>3. /\ p < MaxPolicies
      /\ vault_tokens' = vault_tokens + premium
      /\ total_staker_rewards' = total_staker_rewards + staker
      /\ reward_per_stake_acc' =
           IF total_staked = 0 THEN reward_per_stake_acc
           ELSE reward_per_stake_acc
                  + (staker * REWARD_PER_STAKE_SCALE) \div total_staked
      /\ reserve_fund' = reserve_fund + reserve
      /\ protocol_treasury' = protocol_treasury + (premium - staker - reserve)
      /\ total_premiums_collected' = total_premiums_collected + premium
      /\ policy' = [policy EXCEPT ![p] = new]
      /\ total_coverage' = total_coverage + coverage
      /\ policy_counter' = policy_counter + 1
      /\ total_staked' = total_staked
      /\ RecalculateSolvency
  BY DEF CreatePolicy, AccrueStakerRewards
<1> HIDE DEF premium
<1>4. staker \in Nat /\ reserve \in Nat /\ staker + reserve <= premium
  BY <1>1, <1>2, SplitFits, DivNat, MulNat
<1> HIDE DEF staker, reserve
<1>5. /\ vault_tokens' \in Nat /\ total_staker_rewards' \in Nat
      /\ reserve_fund' \in Nat /\ protocol_treasury' \in Nat
      /\ total_premiums_collected' \in Nat
      /\ TokensBacked'
  BY <1>2, <1>3, <1>4 DEF TypeOK, TokensBacked
<1>6. reward_per_stake_acc' \in Nat /\ reward_per_stake_acc <= reward_per_stake_acc'
  <2>1. total_staked # 0 =>
          (staker * REWARD_PER_STAKE_SCALE) \div total_staked \in Nat
    BY <1>1, <1>4, DivNat, MulNat DEF TypeOK
  <2> QED  BY <1>3, <2>1 DEF TypeOK
<1>7. position' \in [Stakers -> StakerPosition] /\ SnapshotsBehind'
  BY <1>6, PositionsKept DEF CreatePolicy, TypeOK
<1>8. p \in Policies /\ now' = now
  BY <1>1, <1>3 DEF CreatePolicy, clockVars, Policies, TypeOK
<1>9. new \in InsurancePolicy
  BY <1>1, <1>2 DEF TypeOK, InsurancePolicy, PolicyStates, Active
<1>10. /\ new.start_time < new.expiry_time /\ new.start_time <= now
       /\ new.state = Active
  BY <1>1 DEF TypeOK
<1> HIDE DEF new
<1>11. policy' \in [Policies -> InsurancePolicy]
  BY <1>3, <1>8, <1>9 DEF TypeOK
<1>12. TermsSound'
  <2> SUFFICES ASSUME NEW q \in Policies
               PROVE  /\ policy'[q].state # Unopened =>
                            policy'[q].start_time < policy'[q].expiry_time
                      /\ policy'[q].start_time <= now
                      /\ policy'[q].state = Pending =>
                            policy'[q].trigger_type \in Triggers
                      /\ q >= policy_counter' <=> policy'[q].state = Unopened
                      /\ policy'[q].state = Unopened => policy'[q] = NoPolicy
    BY <1>8 DEF TermsSound
  <2>1. CASE q = p
    BY <1>3, <1>8, <1>10, <2>1 DEF TypeOK, Active, Pending, Unopened
  <2>2. CASE q # p
    BY <1>3, <1>8, <2>2 DEF TypeOK, TermsSound, Policies
  <2> QED  BY <2>1, <2>2
<1>13. solvency_ratio' \in 0..RATIO_MAX /\ SolvencyFresh'
  <2>1. total_staked' \in Nat /\ total_coverage' \in Nat
    BY <1>1, <1>3 DEF TypeOK
  <2> QED  BY <1>3, <2>1, SolvencyRatioTyped
    DEF RecalculateSolvency, SolvencyFresh
<1>14. TypeOK'
  BY <1>1, <1>3, <1>5, <1>6, <1>7, <1>11, <1>13
  DEF CreatePolicy, TypeOK, clockVars
<1> QED  BY <1>5, <1>7, <1>12, <1>13, <1>14

\* The terms of cover a step of another kind leaves alone.
LEMMA StateMoved ==
  ASSUME TypeOK, TermsSound, NEW p \in Policies, NEW r \in InsurancePolicy,
         policy' = [policy EXCEPT ![p] = r],
         policy[p].state # Unopened, r.state # Unopened,
         r.start_time = policy[p].start_time,
         r.expiry_time = policy[p].expiry_time,
         r.state = Pending => r.trigger_type \in Triggers,
         now' = now, policy_counter' = policy_counter
  PROVE  policy' \in [Policies -> InsurancePolicy] /\ TermsSound'
<1>1. policy' \in [Policies -> InsurancePolicy]
  BY DEF TypeOK
<1>2. TermsSound'
  <2> SUFFICES ASSUME NEW q \in Policies
               PROVE  /\ policy'[q].state # Unopened =>
                            policy'[q].start_time < policy'[q].expiry_time
                      /\ policy'[q].start_time <= now
                      /\ policy'[q].state = Pending =>
                            policy'[q].trigger_type \in Triggers
                      /\ q >= policy_counter <=> policy'[q].state = Unopened
                      /\ policy'[q].state = Unopened => policy'[q] = NoPolicy
    BY DEF TermsSound
  <2>1. CASE q = p  BY <2>1 DEF TypeOK, TermsSound
  <2>2. CASE q # p  BY <2>2 DEF TypeOK, TermsSound
  <2> QED  BY <2>1, <2>2
<1> QED  BY <1>1, <1>2

LEMMA RefundTyped ==
  ASSUME TypeOK, TermsSound, NEW p \in Policies, policy[p].state = Active,
         now < policy[p].expiry_time
  PROVE  Refund(p) \in Nat
<1> DEFINE total     == policy[p].expiry_time - policy[p].start_time
           remaining == policy[p].expiry_time - now
           unused    == (policy[p].premium_paid * remaining) \div total
<1>1. total \in Nat \ {0} /\ remaining \in Nat /\ policy[p].premium_paid \in Nat
  BY DEF TypeOK, TermsSound, InsurancePolicy, Active, Unopened
<1>2. unused \in Nat  BY <1>1, DivNat, MulNat
<1>3. BPS - CANCEL_PENALTY_BPS \in Nat /\ BPS \in Nat \ {0}
  BY VaultAssumption
<1> HIDE DEF unused
<1>4. (unused * (BPS - CANCEL_PENALTY_BPS)) \div BPS \in Nat
  BY <1>2, <1>3, DivNat, MulNat
<1> QED  BY <1>4 DEF Refund, unused

LEMMA CancelPolicyInv ==
  ASSUME Inv, NEW p \in Policies, CancelPolicy(p)
  PROVE  Inv'
<1> DEFINE r == [policy[p] EXCEPT !.state = Cancelled]
           refund == Refund(p)
<1> USE DEF Inv
<1>1. /\ policy[p].state = Active /\ now < policy[p].expiry_time
      /\ AbsorbLoss(refund) /\ refund <= vault_tokens
      /\ policy[p].coverage_amount <= total_coverage
      /\ vault_tokens' = vault_tokens - refund
      /\ total_coverage' = total_coverage - policy[p].coverage_amount
      /\ policy' = [policy EXCEPT ![p] = r]
      /\ RecalculateSolvency
      /\ UNCHANGED <<clockVars, configVars, rewardVars,
                     total_premiums_collected, total_claims_paid,
                     staker_count, position>>
  BY DEF CancelPolicy, ReleaseCoverage
<1>2. refund \in Nat  BY <1>1, RefundTyped
<1> HIDE DEF refund
<1>3. /\ total_staked' \in Nat /\ reserve_fund' \in Nat
      /\ protocol_treasury' \in Nat /\ loss_index' \in 1..loss_index
      /\ total_staked' + reserve_fund' + protocol_treasury' + refund
           = total_staked + reserve_fund + protocol_treasury
  BY <1>1, <1>2, AbsorbLossExact
<1>4. policy[p].coverage_amount \in Nat  BY DEF TypeOK, InsurancePolicy
<1>5. vault_tokens' \in Nat /\ total_coverage' \in Nat /\ TokensBacked'
  BY <1>1, <1>2, <1>3, <1>4 DEF TypeOK, TokensBacked, rewardVars
<1>6. position' \in [Stakers -> StakerPosition] /\ SnapshotsBehind'
  BY <1>1, <1>3, PositionsKept DEF rewardVars, poolVars, TypeOK
<1>7. /\ r \in InsurancePolicy /\ r.state = Cancelled
      /\ r.start_time = policy[p].start_time
      /\ r.expiry_time = policy[p].expiry_time
  BY DEF TypeOK, InsurancePolicy, PolicyStates
<1> HIDE DEF r
<1>8. policy' \in [Policies -> InsurancePolicy] /\ TermsSound'
  BY <1>1, <1>7, StateMoved
  DEF Active, Cancelled, Unopened, Pending, clockVars, configVars
<1>9. solvency_ratio' \in 0..RATIO_MAX /\ SolvencyFresh'
  BY <1>1, <1>3, <1>5, SolvencyRatioTyped DEF RecalculateSolvency, SolvencyFresh
<1>10. loss_index' \in 1..LOSS_INDEX_SCALE
  BY <1>3, VaultAssumption DEF TypeOK
<1>11. TypeOK'
  BY <1>1, <1>3, <1>5, <1>6, <1>8, <1>9, <1>10
  DEF TypeOK, clockVars, configVars, rewardVars
<1> QED  BY <1>5, <1>6, <1>8, <1>9, <1>11

LEMMA ExpirePolicyInv ==
  ASSUME Inv, NEW p \in Policies, ExpirePolicy(p)
  PROVE  Inv'
<1> DEFINE r == [policy[p] EXCEPT !.state = Expired]
<1> USE DEF Inv
<1>1. /\ policy[p].state \in {Active, Pending}
      /\ policy[p].coverage_amount <= total_coverage
      /\ total_coverage' = total_coverage - policy[p].coverage_amount
      /\ policy' = [policy EXCEPT ![p] = r]
      /\ RecalculateSolvency
      /\ UNCHANGED <<clockVars, configVars, poolVars, rewardVars, vault_tokens,
                     total_premiums_collected, total_claims_paid,
                     staker_count, position>>
  BY DEF ExpirePolicy, Expirable, ReleaseCoverage
<1>2. policy[p].coverage_amount \in Nat  BY DEF TypeOK, InsurancePolicy
<1>3. total_coverage' \in Nat /\ TokensBacked'
  BY <1>1, <1>2 DEF TypeOK, TokensBacked, rewardVars, poolVars
<1>4. position' \in [Stakers -> StakerPosition] /\ SnapshotsBehind'
  BY <1>1, PositionsKept DEF rewardVars, poolVars, TypeOK
<1>5. /\ r \in InsurancePolicy /\ r.state = Expired
      /\ r.start_time = policy[p].start_time
      /\ r.expiry_time = policy[p].expiry_time
  BY DEF TypeOK, InsurancePolicy, PolicyStates
<1> HIDE DEF r
<1>6. policy' \in [Policies -> InsurancePolicy] /\ TermsSound'
  BY <1>1, <1>5, StateMoved
  DEF Active, Expired, Unopened, Pending, clockVars, configVars
<1>7. solvency_ratio' \in 0..RATIO_MAX /\ SolvencyFresh'
  BY <1>1, <1>3, SolvencyRatioTyped
  DEF RecalculateSolvency, SolvencyFresh, poolVars, TypeOK
<1>8. TypeOK'
  BY <1>1, <1>3, <1>4, <1>6, <1>7
  DEF TypeOK, clockVars, configVars, poolVars, rewardVars
<1> QED  BY <1>3, <1>4, <1>6, <1>7, <1>8

LEMMA SubmitClaimInv ==
  ASSUME Inv, NEW p \in Policies, NEW t \in Triggers, SubmitClaim(p, t)
  PROVE  Inv'
<1> DEFINE r == [policy[p] EXCEPT !.state = Pending, !.trigger_type = t,
                                  !.claim_submitted_at = now]
<1> USE DEF Inv
<1>1. /\ policy[p].state = Active
      /\ policy' = [policy EXCEPT ![p] = r]
      /\ UNCHANGED <<clockVars, configVars, poolVars, rewardVars, vault_tokens,
                     total_coverage, total_premiums_collected,
                     total_claims_paid, staker_count, solvency_ratio, position>>
  BY DEF SubmitClaim
<1>2. position' \in [Stakers -> StakerPosition] /\ SnapshotsBehind'
  BY <1>1, PositionsKept DEF rewardVars, poolVars, TypeOK
<1>3. /\ r \in InsurancePolicy /\ r.state = Pending /\ r.trigger_type = t
      /\ r.start_time = policy[p].start_time
      /\ r.expiry_time = policy[p].expiry_time
  BY DEF TypeOK, InsurancePolicy, PolicyStates
<1> HIDE DEF r
<1>4. policy' \in [Policies -> InsurancePolicy] /\ TermsSound'
  BY <1>1, <1>3, StateMoved
  DEF Active, Unopened, Pending, clockVars, configVars
<1>5. TypeOK' /\ TokensBacked' /\ SolvencyFresh'
  BY <1>1, <1>2, <1>4 DEF TypeOK, TokensBacked, SolvencyFresh, SolvencyRatio,
     Lesser, clockVars, configVars, poolVars, rewardVars
<1> QED  BY <1>2, <1>4, <1>5

LEMMA PayClaimInv ==
  ASSUME Inv, NEW p \in Policies, NEW amount \in Payouts, PayClaim(p, amount)
  PROVE  Inv'
<1> DEFINE r == [policy[p] EXCEPT !.state = Paid, !.payout_amount = amount]
<1> USE DEF Inv
<1>1. /\ policy[p].state = Pending
      /\ AbsorbLoss(amount) /\ amount <= vault_tokens
      /\ policy[p].coverage_amount <= total_coverage
      /\ vault_tokens' = vault_tokens - amount
      /\ total_claims_paid' = total_claims_paid + amount
      /\ total_coverage' = total_coverage - policy[p].coverage_amount
      /\ policy' = [policy EXCEPT ![p] = r]
      /\ RecalculateSolvency
      /\ UNCHANGED <<clockVars, configVars, rewardVars,
                     total_premiums_collected, staker_count, position>>
  BY DEF PayClaim, ReleaseCoverage
<1>2. amount \in Nat  BY VaultAssumption
<1>3. /\ total_staked' \in Nat /\ reserve_fund' \in Nat
      /\ protocol_treasury' \in Nat /\ loss_index' \in 1..loss_index
      /\ total_staked' + reserve_fund' + protocol_treasury' + amount
           = total_staked + reserve_fund + protocol_treasury
  BY <1>1, <1>2, AbsorbLossExact
<1>4. policy[p].coverage_amount \in Nat  BY DEF TypeOK, InsurancePolicy
<1>5. /\ vault_tokens' \in Nat /\ total_coverage' \in Nat
      /\ total_claims_paid' \in Nat /\ TokensBacked'
  BY <1>1, <1>2, <1>3, <1>4 DEF TypeOK, TokensBacked, rewardVars
<1>6. position' \in [Stakers -> StakerPosition] /\ SnapshotsBehind'
  BY <1>1, <1>3, PositionsKept DEF rewardVars, poolVars, TypeOK
<1>7. /\ r \in InsurancePolicy /\ r.state = Paid
      /\ r.start_time = policy[p].start_time
      /\ r.expiry_time = policy[p].expiry_time
  BY <1>2 DEF TypeOK, InsurancePolicy, PolicyStates
<1> HIDE DEF r
<1>8. policy' \in [Policies -> InsurancePolicy] /\ TermsSound'
  BY <1>1, <1>7, StateMoved
  DEF Paid, Unopened, Pending, clockVars, configVars
<1>9. solvency_ratio' \in 0..RATIO_MAX /\ SolvencyFresh'
  BY <1>1, <1>3, <1>5, SolvencyRatioTyped DEF RecalculateSolvency, SolvencyFresh
<1>10. loss_index' \in 1..LOSS_INDEX_SCALE
  BY <1>3, VaultAssumption DEF TypeOK
<1>11. TypeOK'
  BY <1>1, <1>3, <1>5, <1>6, <1>8, <1>9, <1>10
  DEF TypeOK, clockVars, configVars, rewardVars
<1> QED  BY <1>5, <1>6, <1>8, <1>9, <1>11

LEMMA UpdateConfigInv ==
  ASSUME Inv, NEW b \in BOOLEAN, NEW m \in Multipliers, UpdateConfig(b, m)
  PROVE  Inv'
<1> USE DEF Inv
<1>1. position' \in [Stakers -> StakerPosition] /\ SnapshotsBehind'
  BY PositionsKept DEF UpdateConfig, rewardVars, poolVars, TypeOK
<1>2. TermsSound'
  BY TermsKept DEF UpdateConfig, clockVars, TypeOK
<1>3. TypeOK' /\ TokensBacked' /\ SolvencyFresh'
  BY <1>1 DEF UpdateConfig, TypeOK, TokensBacked, SolvencyFresh, SolvencyRatio,
     Lesser, clockVars, poolVars, rewardVars
<1> QED  BY <1>1, <1>2, <1>3

LEMMA TickInv ==
  ASSUME Inv, Tick
  PROVE  Inv'
<1> USE DEF Inv
<1>1. position' \in [Stakers -> StakerPosition] /\ SnapshotsBehind'
  BY PositionsKept DEF Tick, rewardVars, poolVars, TypeOK
<1>2. TermsSound'
  BY TermsKept DEF Tick, configVars, TypeOK
<1>3. TypeOK' /\ TokensBacked' /\ SolvencyFresh'
  BY <1>1 DEF Tick, TypeOK, TokensBacked, SolvencyFresh, SolvencyRatio,
     Lesser, configVars, poolVars, rewardVars
<1> QED  BY <1>1, <1>2, <1>3

-----------------------------------------------------------------------------
LEMMA InitInv ==
  ASSUME Init
  PROVE  Inv
<1>1. TypeOK
  <2>1. NoPosition \in StakerPosition  BY DEF NoPosition, StakerPosition
  <2>2. NoPolicy \in InsurancePolicy
    BY DEF NoPolicy, InsurancePolicy, PolicyStates
  <2>3. /\ position \in [Stakers -> StakerPosition]
        /\ policy \in [Policies -> InsurancePolicy]
    BY <2>1, <2>2 DEF Init
  <2>4. /\ BPS \in MIN_MULTIPLIER..MAX_MULTIPLIER
        /\ MaxPolicies \in Nat /\ RATIO_MAX \in Nat
        /\ LOSS_INDEX_SCALE \in Nat \ {0}
    BY VaultAssumption
  <2>5. paused \in BOOLEAN  BY DEF Init
  <2>6. /\ policy_counter \in 0..MaxPolicies
        /\ loss_index \in 1..LOSS_INDEX_SCALE
        /\ solvency_ratio \in 0..RATIO_MAX
    BY <2>4 DEF Init
  <2> QED  BY <2>3, <2>4, <2>5, <2>6 DEF Init, TypeOK
<1>2. SnapshotsBehind
  BY DEF Init, SnapshotsBehind, NoPosition
<1>3. TermsSound
  BY DEF Init, TermsSound, NoPolicy, Policies, Unopened, Pending
<1>4. TokensBacked /\ SolvencyFresh
  BY DEF Init, TokensBacked, SolvencyFresh, SolvencyRatio
<1> QED  BY <1>1, <1>2, <1>3, <1>4 DEF Inv

LEMMA StutterInv ==
  ASSUME Inv, UNCHANGED vars
  PROVE  Inv'
<1>1. TypeOK' /\ TokensBacked' /\ SolvencyFresh'
  BY DEF Inv, vars, TypeOK, TokensBacked, SolvencyFresh
<1>2. SnapshotsBehind' /\ TermsSound'
  BY DEF Inv, vars, SnapshotsBehind, TermsSound
<1> QED  BY <1>1, <1>2 DEF Inv

LEMMA StepInv ==
  ASSUME Inv, [Next]_vars
  PROVE  Inv'
<1>1. CASE Tick  BY <1>1, TickInv
<1>2. ASSUME NEW s \in Stakers, StakerStep(s)  PROVE Inv'
  BY <1>2, StakeInv, RequestUnstakeInv, ExecuteUnstakeInv, ClaimRewardsInv
  DEF StakerStep
<1>3. ASSUME NEW p \in Policies, PolicyStep(p)  PROVE Inv'
  BY <1>3, CancelPolicyInv, ExpirePolicyInv, SubmitClaimInv, PayClaimInv
  DEF PolicyStep, OracleSubmitClaim
<1>4. ASSUME NEW tier \in Tiers, NEW c \in Coverages, NEW d \in Durations,
             NEW f \in FlatPremiums, CreatePolicy(tier, c, d, f)
      PROVE  Inv'
  BY <1>4, CreatePolicyInv
<1>5. ASSUME NEW b \in BOOLEAN, NEW m \in Multipliers, UpdateConfig(b, m)
      PROVE  Inv'
  BY <1>5, UpdateConfigInv
<1>6. CASE UNCHANGED vars  BY <1>6, StutterInv
<1> QED  BY <1>1, <1>2, <1>3, <1>4, <1>5, <1>6 DEF Next

LEMMA Invariance == Spec => []Inv
<1>1. Init => Inv  BY InitInv
<1>2. Inv /\ [Next]_vars => Inv'  BY StepInv
<1> QED  BY <1>1, <1>2, PTL DEF Spec

\* Every account keeps its type, whatever instructions run: no counter of the
\* pool, no position and no policy ever goes below zero.
THEOREM TypeCorrect == Spec => []TypeOK
<1>1. Inv => TypeOK  BY DEF Inv
<1> QED  BY <1>1, Invariance, PTL

\* The vault's tokens are the sum of its four obligations after every
\* instruction, cancellations and payouts included.
THEOREM TokensAlwaysBacked == Spec => []TokensBacked
<1>1. Inv => TokensBacked  BY DEF Inv
<1> QED  BY <1>1, Invariance, PTL

\* The ratio the underwriting gates read is the one the pool has.
THEOREM SolvencyAlwaysFresh == Spec => []SolvencyFresh
<1>1. Inv => SolvencyFresh  BY DEF Inv
<1> QED  BY <1>1, Invariance, PTL

-----------------------------------------------------------------------------
(* Finite sums.  Induction takes the form of a minimal counterexample: the
   library's induction theorems have an operator for a parameter. *)

\* Every non-empty set of naturals has a least member.
LEMMA LeastNatural ==
  ASSUME NEW T \in SUBSET Nat, T # {}
  PROVE  \E x \in T : \A y \in T : x <= y
<1> DEFINE Less == {ss \in Nat \X Nat : ss[1] < ss[2]}
<1>1. IsWellFoundedOn(Less, Nat)
  BY NatLessThanWellFounded, Zenon DEF OpToRel
<1>2. PICK x \in T : \A y \in T : ~(<<y, x>> \in Less)
  <2> HIDE DEF Less
  <2> QED
    BY <1>1, WFMin
<1>3. ASSUME NEW y \in T PROVE x <= y
  <2>1. ASSUME y < x PROVE FALSE
    <3>1. <<y, x>> \in Nat \X Nat /\ <<y, x>>[1] < <<y, x>>[2]
      BY <2>1
    <3>2. <<y, x>> \in Less
      BY <3>1, Zenon
    <3> QED
      BY <1>2, <3>2
  <2> QED
    BY <2>1
<1> QED
  BY <1>3

\* Induction, for a set of naturals.
LEMMA NaturalSetInduction ==
  ASSUME NEW P \in SUBSET Nat, 0 \in P, \A n \in P : n + 1 \in P
  PROVE  P = Nat
<1> SUFFICES ASSUME Nat \ P # {} PROVE FALSE
  OBVIOUS
<1>1. PICK n \in Nat \ P : \A m \in Nat \ P : n <= m
  BY LeastNatural
<1>2. n - 1 \in P
  BY <1>1
<1> QED
  BY <1>1, <1>2

\* Induction over the subsets of a finite set, by a minimal counterexample.
LEMMA SubsetInduction ==
  ASSUME NEW S, IsFiniteSet(S), NEW Q,
         \A T \in SUBSET S : (\A x \in T : T \ {x} \in Q) => T \in Q
  PROVE  \A T \in SUBSET S : T \in Q
<1> DEFINE Failing == {T \in SUBSET S : T \notin Q}
<1> SUFFICES ASSUME Failing # {} PROVE FALSE
  OBVIOUS
<1>1. IsWellFoundedOn(StrictSubsetOrdering(S), SUBSET S)
  <2>1. FiniteSubsetsOf(S) = SUBSET S
    BY FS_FiniteSubsetsOfFinite
  <2>2. IsWellFoundedOn(StrictSubsetOrdering(S), FiniteSubsetsOf(S))
    BY FS_StrictSubsetOrderingWellFounded
  <2> QED
    BY <2>1, <2>2, Zenon
<1>2. PICK T \in Failing :
        \A U \in Failing : ~(<<U, T>> \in StrictSubsetOrdering(S))
  <2>1. Failing \subseteq SUBSET S
    OBVIOUS
  <2> HIDE DEF Failing
  <2> QED
    BY <1>1, <2>1, WFMin
<1>3. ASSUME NEW x \in T PROVE T \ {x} \in Q
  <2>1. /\ T \ {x} \in SUBSET S /\ T \in SUBSET S
        /\ T \ {x} \subseteq T /\ T \ {x} # T
    BY <1>2
  <2>2. <<T \ {x}, T>> \in StrictSubsetOrdering(S)
    BY <2>1, Zenon DEF StrictSubsetOrdering
  <2> QED
    BY <1>2, <2>1, <2>2
<1> QED
  BY <1>2, <1>3

\* f is what a recursion over S leads to, taking from each set the element that
\* pick names.
FoldsTo(f, S, base, step, pick) ==
  \A T \in SUBSET S :
    f[T] = IF T = {} THEN base ELSE step[pick[T], f[T \ {pick[T]}]]

\* That recursion defines a function into V.
Foldable(S, V, base, step, pick) ==
  \E f \in [SUBSET S -> V] : FoldsTo(f, S, base, step, pick)

\* Every such recursion over a finite set does: the function is built up over
\* the sizes of its arguments.
LEMMA FoldDefined ==
  ASSUME NEW S, IsFiniteSet(S), NEW V, NEW base \in V, NEW step \in [S \X V -> V],
         NEW pick, \A T \in SUBSET S : T # {} => pick[T] \in T
  PROVE  Foldable(S, V, base, step, pick)
<1> DEFINE Step(f, T) == IF T = {} THEN base ELSE step[pick[T], f[T \ {pick[T]}]]
           RightTo(f, n) ==
             \A T \in SUBSET S : Cardinality(T) <= n => f[T] = Step(f, T)
           Sizes == {n \in Nat : \E f \in [SUBSET S -> V] : RightTo(f, n)}
<1>1. ASSUME NEW f \in [SUBSET S -> V], NEW T \in SUBSET S PROVE Step(f, T) \in V
  OBVIOUS
<1>2. ASSUME NEW T \in SUBSET S, T # {}
      PROVE  /\ Cardinality(T) \in Nat
             /\ Cardinality(T \ {pick[T]}) = Cardinality(T) - 1
             /\ T \ {pick[T]} \in SUBSET S
  BY <1>2, FS_Subset, FS_RemoveElement, FS_CardinalityType
<1>3. 0 \in Sizes
  <2> DEFINE f == [T \in SUBSET S |-> base]
  <2>1. ASSUME NEW T \in SUBSET S, Cardinality(T) <= 0 PROVE T = {}
    BY <2>1, FS_Subset, FS_EmptySet, FS_CardinalityType
  <2>2. f \in [SUBSET S -> V] /\ RightTo(f, 0)
    BY <2>1
  <2> HIDE DEF f, RightTo
  <2> QED
    BY <2>2
<1>4. ASSUME NEW n \in Sizes PROVE n + 1 \in Sizes
  <2>1. PICK f \in [SUBSET S -> V] : RightTo(f, n)
    BY <1>4
  <2> DEFINE g == [T \in SUBSET S |-> IF Cardinality(T) <= n THEN f[T] ELSE Step(f, T)]
  <2>4. n \in Nat
    BY <1>4
  <2>2. g \in [SUBSET S -> V]
    <3> HIDE DEF Step
    <3> QED
      BY <1>1
  <2>3. ASSUME NEW T \in SUBSET S, Cardinality(T) <= n + 1 PROVE g[T] = Step(g, T)
    <3>1. T # {} => g[T \ {pick[T]}] = f[T \ {pick[T]}]
      <4> SUFFICES ASSUME T # {} PROVE g[T \ {pick[T]}] = f[T \ {pick[T]}]
        OBVIOUS
      <4>1. /\ Cardinality(T) \in Nat /\ T \ {pick[T]} \in SUBSET S
            /\ Cardinality(T \ {pick[T]}) = Cardinality(T) - 1
        BY <1>2
      <4>2. Cardinality(T) <= n + 1
        BY <2>3
      <4>3. Cardinality(T \ {pick[T]}) <= n
        <5> HIDE DEF Sizes
        <5> QED  BY <2>4, <4>1, <4>2
      <4> HIDE DEF Step
      <4> QED
        BY <4>1, <4>3
    <3>2. g[T] = Step(f, T)
      <4> HIDE DEF Step
      <4> QED  BY <2>1
    <3> QED
      BY <3>1, <3>2
  <2> HIDE DEF g, Step
  <2> QED
    BY <2>2, <2>3
<1>5. Cardinality(S) \in Sizes
  <2> HIDE DEF Sizes
  <2>1. Sizes \in SUBSET Nat
    BY DEF Sizes
  <2> QED
    BY <1>3, <1>4, <2>1, NaturalSetInduction, FS_CardinalityType
<1>6. PICK f \in [SUBSET S -> V] : RightTo(f, Cardinality(S))
  BY <1>5
<1>7. ASSUME NEW T \in SUBSET S PROVE Cardinality(T) <= Cardinality(S)
  BY FS_Subset
<1>8. FoldsTo(f, S, base, step, pick)
  BY <1>6, <1>7 DEF FoldsTo
<1> QED
  BY <1>6, <1>8 DEF Foldable

\* g sums f over each subset of S, whichever element is taken out of it.
IsSum(g, f, S) ==
  /\ g \in [SUBSET S -> Int]
  /\ g[{}] = 0
  /\ \A T \in SUBSET S : \A x \in T : g[T] = f[x] + g[T \ {x}]

\* The community modules' sum of a function is a sum.
LEMMA SumIsSum ==
  ASSUME NEW S, IsFiniteSet(S), NEW f \in [S -> Int]
  PROVE  \E g : IsSum(g, f, S) /\ SumFunction(f) = g[S]
<1> DEFINE pick == [T \in SUBSET S |-> CHOOSE x \in T : TRUE]
           step == [xv \in S \X Int |-> f[xv[1]] + xv[2]]
           Sum(g) == [T \in SUBSET S |-> IF T = {} THEN 0
                        ELSE f[CHOOSE x \in T : TRUE] + g[T \ {CHOOSE x \in T : TRUE}]]
           sum == CHOOSE g : g = Sum(g)
<1>1. step \in [S \X Int -> Int]
  OBVIOUS
<1>2. \A T \in SUBSET S : T # {} => pick[T] \in T
  OBVIOUS
<1>12. Foldable(S, Int, 0, step, pick)
  <2> HIDE DEF pick, step
  <2>1. 0 \in Int
    OBVIOUS
  <2> QED
    BY <1>1, <1>2, <2>1, FoldDefined, Zenon
<1>3. PICK g \in [SUBSET S -> Int] : FoldsTo(g, S, 0, step, pick)
  BY <1>12 DEF Foldable
<1>11. \A T \in SUBSET S :
        g[T] = IF T = {} THEN 0 ELSE step[pick[T], g[T \ {pick[T]}]]
  BY <1>3 DEF FoldsTo
<1>4. g = Sum(g)
  <2>1. ASSUME NEW T \in SUBSET S, T # {}
        PROVE g[T] = f[CHOOSE x \in T : TRUE] + g[T \ {CHOOSE x \in T : TRUE}]
    BY <1>2, <1>11, <2>1
  <2>2. \A T \in SUBSET S : g[T] = Sum(g)[T]
    BY <1>11, <2>1
  <2> QED
    BY <2>2
<1>5. sum = Sum(sum)
  <2> HIDE DEF Sum
  <2> QED
    BY <1>4
<1>6. SumFunction(f) = sum[S]
  BY DEF SumFunction, SumFunctionOnSet, FoldFunctionOnSet, MapThenFoldSet
<1> HIDE DEF sum
<1>7. \A T \in SUBSET S : sum[T] = IF T = {} THEN 0
                        ELSE f[CHOOSE x \in T : TRUE] + sum[T \ {CHOOSE x \in T : TRUE}]
  BY <1>5
<1>8. sum \in [SUBSET S -> Int]
  <2> DEFINE Q == {T \in SUBSET S : sum[T] \in Int}
  <2>1. ASSUME NEW T \in SUBSET S, \A x \in T : T \ {x} \in Q PROVE T \in Q
    <3>1. CASE T = {}
      BY <1>7, <3>1
    <3>2. CASE T # {}
      <4> DEFINE y == CHOOSE z \in T : TRUE
      <4>1. y \in T /\ sum[T] = f[y] + sum[T \ {y}]
        BY <1>7, <3>2
      <4> HIDE DEF y
      <4>2. f[y] \in Int
        BY <4>1
      <4>3. sum[T \ {y}] \in Int
        BY <2>1, <4>1
      <4> QED
        BY <4>1, <4>2, <4>3
    <3> QED
      BY <3>1, <3>2
  <2> HIDE DEF Q
  <2>2. \A T \in SUBSET S : T \in Q
    BY <2>1, SubsetInduction
  <2>3. \A T \in SUBSET S : sum[T] \in Int
    BY <2>2 DEF Q
  <2> QED
    BY <1>5, <2>3
<1>9. \A T \in SUBSET S : \A x \in T : sum[T] = f[x] + sum[T \ {x}]
  <2> DEFINE Q == {T \in SUBSET S : \A x \in T : sum[T] = f[x] + sum[T \ {x}]}
  <2>1. ASSUME NEW T \in SUBSET S, \A x \in T : T \ {x} \in Q PROVE T \in Q
    <3> SUFFICES ASSUME NEW x \in T PROVE sum[T] = f[x] + sum[T \ {x}]
      OBVIOUS
    <3> DEFINE y == CHOOSE z \in T : TRUE
    <3>1. y \in T /\ sum[T] = f[y] + sum[T \ {y}]
      BY <1>7
    <3> HIDE DEF y
    <3>2. CASE x = y
      BY <3>1, <3>2
    <3>3. CASE x # y
      <4>1. /\ T \ {y} \in Q /\ T \ {x} \in Q
            /\ x \in T \ {y} /\ y \in T \ {x}
        BY <2>1, <3>1, <3>3
      <4>4. /\ sum[T \ {y}] = f[x] + sum[(T \ {y}) \ {x}]
            /\ sum[T \ {x}] = f[y] + sum[(T \ {x}) \ {y}]
        BY <4>1
      <4>2. (T \ {y}) \ {x} = (T \ {x}) \ {y}
        OBVIOUS
      <4>3. f[x] \in Int /\ f[y] \in Int /\ sum[(T \ {y}) \ {x}] \in Int
        BY <1>8, <3>1
      <4> DEFINE rest == sum[(T \ {y}) \ {x}]
      <4>5. /\ sum[T] = f[y] + (f[x] + rest)
            /\ sum[T \ {x}] = f[y] + rest
            /\ f[x] \in Int /\ f[y] \in Int /\ rest \in Int
        BY <3>1, <4>2, <4>3, <4>4
      <4> HIDE DEF rest
      <4> QED
        BY <4>5
    <3> QED
      BY <3>2, <3>3
  <2> HIDE DEF Q
  <2>2. \A T \in SUBSET S : T \in Q
    BY <2>1, SubsetInduction
  <2> QED
    BY <2>2 DEF Q
<1>10. sum[{}] = 0
  BY <1>7
<1> QED
  BY <1>6, <1>8, <1>9, <1>10 DEF IsSum
\* A finite sum of integers is one.
LEMMA SumTyped ==
  ASSUME NEW S, IsFiniteSet(S), NEW f \in [S -> Int]
  PROVE  SumFunction(f) \in Int
<1>1. PICK g : IsSum(g, f, S) /\ SumFunction(f) = g[S]
  BY SumIsSum
<1> QED
  BY <1>1 DEF IsSum

\* Sums keep an inequality between what is summed.
LEMMA SumBounded ==
  ASSUME NEW S, IsFiniteSet(S), NEW f \in [S -> Int], NEW h \in [S -> Int],
         NEW k \in [S -> Int], NEW a \in Int, NEW b \in Int,
         \A x \in S : k[x] <= a * f[x] + b * h[x]
  PROVE  SumFunction(k) <= a * SumFunction(f) + b * SumFunction(h)
<1>1. PICK F : IsSum(F, f, S) /\ SumFunction(f) = F[S]
  BY SumIsSum
<1>2. PICK H : IsSum(H, h, S) /\ SumFunction(h) = H[S]
  BY SumIsSum
<1>3. PICK K : IsSum(K, k, S) /\ SumFunction(k) = K[S]
  BY SumIsSum
<1> DEFINE Q == {T \in SUBSET S : K[T] <= a * F[T] + b * H[T]}
<1>4. ASSUME NEW T \in SUBSET S, \A x \in T : T \ {x} \in Q PROVE T \in Q
  <2>1. CASE T = {}
    BY <1>1, <1>2, <1>3, <2>1 DEF IsSum
  <2>2. CASE T # {}
    <3>1. PICK x \in T : TRUE
      BY <2>2
    <3> DEFINE U == T \ {x}
    <3>2. /\ F[T] = f[x] + F[U] /\ H[T] = h[x] + H[U] /\ K[T] = k[x] + K[U]
          /\ F[U] \in Int /\ H[U] \in Int /\ K[U] \in Int
          /\ f[x] \in Int /\ h[x] \in Int /\ k[x] \in Int
      BY <1>1, <1>2, <1>3, <3>1 DEF IsSum
    <3>3. K[U] <= a * F[U] + b * H[U]
      BY <1>4, <3>1
    <3>4. k[x] <= a * f[x] + b * h[x]
      BY <3>1
    <3>5. a * F[T] = a * f[x] + a * F[U] /\ b * H[T] = b * h[x] + b * H[U]
      <4> HIDE DEF U
      <4> QED  BY <3>2
    <3> HIDE DEF U
    <3>6. K[T] <= a * F[T] + b * H[T]
      <4> DEFINE p == a * f[x]
                 q == b * h[x]
                 u == a * F[U]
                 v == b * H[U]
      <4>1. p \in Int /\ q \in Int /\ u \in Int /\ v \in Int
        BY <3>2
      <4>2. /\ K[U] <= u + v /\ k[x] <= p + q
            /\ a * F[T] = p + u /\ b * H[T] = q + v
        BY <3>3, <3>4, <3>5
      <4> HIDE DEF p, q, u, v
      <4> QED  BY <3>2, <4>1, <4>2
    <3> QED
      BY <3>6
  <2> QED
    BY <2>1, <2>2
<1> HIDE DEF Q
<1>5. \A T \in SUBSET S : T \in Q
  BY <1>4, SubsetInduction
<1>6. S \in Q
  BY <1>5
<1> QED
  BY <1>1, <1>2, <1>3, <1>6 DEF Q

\* Sums of no greater terms are no greater.
LEMMA SumMonotone ==
  ASSUME NEW S, IsFiniteSet(S), NEW f \in [S -> Int], NEW k \in [S -> Int],
         \A x \in S : k[x] <= f[x]
  PROVE  SumFunction(k) <= SumFunction(f)
<1> DEFINE one == 1
           none == 0
<1>1. \A x \in S : k[x] <= one * f[x] + none * f[x]
  OBVIOUS
<1>2. one \in Int /\ none \in Int
  OBVIOUS
<1>3. SumFunction(k) <= one * SumFunction(f) + none * SumFunction(f)
  <2> HIDE DEF one, none
  <2> QED
    BY <1>1, <1>2, SumBounded
<1>4. SumFunction(f) \in Int /\ SumFunction(k) \in Int
  BY SumTyped
<1> QED
  BY <1>3, <1>4

\* Nothing adds up to nothing.
LEMMA SumZero ==
  ASSUME NEW S, IsFiniteSet(S), NEW f \in [S -> Int], \A x \in S : f[x] = 0
  PROVE  SumFunction(f) = 0
<1>2. PICK F : IsSum(F, f, S) /\ SumFunction(f) = F[S]
  BY SumIsSum
<1> DEFINE Q == {T \in SUBSET S : F[T] = 0}
<1>3. ASSUME NEW T \in SUBSET S, \A x \in T : T \ {x} \in Q PROVE T \in Q
  <2>1. CASE T = {}
    BY <1>2, <2>1 DEF IsSum
  <2>2. CASE T # {}
    <3>1. PICK x \in T : TRUE
      BY <2>2
    <3>2. F[T] = f[x] + F[T \ {x}]
      BY <1>2, <3>1 DEF IsSum
    <3>3. F[T \ {x}] = 0 /\ f[x] = 0
      BY <1>3, <3>1
    <3> QED
      BY <3>2, <3>3
  <2> QED
    BY <2>1, <2>2
<1> HIDE DEF Q
<1>4. \A T \in SUBSET S : T \in Q
  BY <1>3, SubsetInduction
<1>5. S \in Q
  BY <1>4
<1> QED
  BY <1>2, <1>5 DEF Q

\* A sum moves with the one summand that does.
LEMMA SumChanged ==
  ASSUME NEW S, IsFiniteSet(S), NEW f \in [S -> Int], NEW k \in [S -> Int],
         NEW x \in S, \A y \in S \ {x} : k[y] = f[y]
  PROVE  SumFunction(k) = SumFunction(f) - f[x] + k[x]
<1>1. PICK F : IsSum(F, f, S) /\ SumFunction(f) = F[S]
  BY SumIsSum
<1>2. PICK K : IsSum(K, k, S) /\ SumFunction(k) = K[S]
  BY SumIsSum
<1> DEFINE rest == S \ {x}
           Q == {T \in SUBSET rest : K[T] = F[T]}
<1>3. IsFiniteSet(rest)
  BY FS_Subset
<1>4. ASSUME NEW T \in SUBSET rest, \A y \in T : T \ {y} \in Q PROVE T \in Q
  <2>1. CASE T = {}
    BY <1>1, <1>2, <2>1 DEF IsSum
  <2>2. CASE T # {}
    <3>1. PICK y \in T : TRUE
      BY <2>2
    <3>2. F[T] = f[y] + F[T \ {y}] /\ K[T] = k[y] + K[T \ {y}]
      BY <1>1, <1>2, <3>1 DEF IsSum
    <3>3. K[T \ {y}] = F[T \ {y}] /\ k[y] = f[y]
      BY <1>4, <3>1
    <3> QED
      BY <3>2, <3>3
  <2> QED
    BY <2>1, <2>2
<1>5. rest \in Q
  <2> HIDE DEF Q, rest
  <2>1. \A T \in SUBSET rest : T \in Q
    BY <1>3, <1>4, SubsetInduction
  <2> QED
    BY <2>1
<1>6. /\ F[S] = f[x] + F[rest] /\ K[S] = k[x] + K[rest]
      /\ F[rest] \in Int /\ f[x] \in Int /\ k[x] \in Int
  BY <1>1, <1>2 DEF IsSum
<1> QED
  BY <1>1, <1>2, <1>5, <1>6

\* Sums keep an inequality that a factor is part of.
LEMMA SumScaled ==
  ASSUME NEW S, IsFiniteSet(S), NEW f \in [S -> Int], NEW k \in [S -> Int],
         NEW c \in Nat, \A x \in S : k[x] * c <= f[x]
  PROVE  SumFunction(k) * c <= SumFunction(f)
<1> DEFINE zero == [x \in S |-> 0]
           one == 1
           less == -c
<1>1. /\ zero \in [S -> Int] /\ one \in Int /\ less \in Int
      /\ \A x \in S : zero[x] = 0
  OBVIOUS
<1>2. ASSUME NEW x \in S PROVE zero[x] <= one * f[x] + less * k[x]
  <2>1. f[x] \in Int /\ k[x] \in Int /\ k[x] * c <= f[x]
    OBVIOUS
  <2>2. k[x] * c \in Int /\ less * k[x] = - (k[x] * c)
    BY <2>1
  <2> QED
    BY <2>1, <2>2
<1>3. SumFunction(zero) = 0
  <2> HIDE DEF zero
  <2> QED
    BY <1>1, SumZero
<1>4. SumFunction(zero) <= one * SumFunction(f) + less * SumFunction(k)
  <2> HIDE DEF zero, one, less
  <2> QED
    BY <1>1, <1>2, SumBounded
<1>5. SumFunction(k) \in Int /\ SumFunction(f) \in Int
  BY SumTyped
<1> QED
  BY <1>3, <1>4, <1>5

-----------------------------------------------------------------------------
(* Principal and rewards are backed. *)

\* A multiple of every index there may be, in which shares of principal can be
\* compared exactly.
CommonScale ==
  CHOOSE m \in Nat \ {0} :
    \A d \in 1..LOSS_INDEX_SCALE : \E q \in Nat : m = q * d

\* What one unit staked at an index weighs.
Unit(index) == CommonScale \div index

\* A position weighs its principal over its snapshot, unrounded.
Weight(pos) ==
  IF pos.amount_staked = 0 THEN 0
  ELSE pos.amount_staked * Unit(pos.loss_index_snapshot)

\* The rewards of a position, unrounded, in units of the accumulator's scale.
Owed(pos) ==
  pos.rewards_pending * REWARD_PER_STAKE_SCALE
    + LivePrincipal(pos) * (reward_per_stake_acc - pos.reward_per_stake_snapshot)

SnapshotsInScale ==
  \A s \in Stakers : position[s].loss_index_snapshot <= LOSS_INDEX_SCALE

\* Rounded principals can be backed in one state and not in the next; it is the
\* unrounded ones, whose sum no rounding changes, that every instruction keeps
\* within the pool, while the index is above its floor.
PrincipalWeighed ==
  loss_index > 1 =>
    SumFunction([s \in Stakers |-> Weight(position[s])])
      <= total_staked * Unit(loss_index)

\* As much for rewards: a loss lowers what later rewards are shared over.
RewardsOwed ==
  loss_index > 1 =>
    SumFunction([s \in Stakers |-> Owed(position[s])])
      <= total_staker_rewards * REWARD_PER_STAKE_SCALE

\* A factor is cancelled.
LEMMA MulLeft ==
  ASSUME NEW a \in Nat, NEW b \in Nat, NEW c \in Nat \ {0}, a * c <= b * c
  PROVE  a <= b
<1>1. ASSUME b < a PROVE FALSE
  <2>1. PICK e \in Nat : a = b + 1 + e
    <3>1. a - b - 1 \in Nat /\ a = b + 1 + (a - b - 1)
      BY <1>1
    <3> QED  BY <3>1
  <2>2. a * c = b * c + c + e * c
    BY <2>1
  <2>3. e * c \in Nat /\ b * c \in Nat
    BY MulNat
  <2> QED
    BY <2>2, <2>3
<1> QED
  BY <1>1

\* The product of the first naturals is such a multiple.
LEMMA CommonScaleExists ==
  ASSUME NEW n \in Nat
  PROVE  \E m \in Nat \ {0} : \A d \in 1..n : \E q \in Nat : m = q * d
<1> DEFINE Scaled(m, k) == \A d \in 1..k : \E q \in Nat : m = q * d
           P == {k \in Nat : \E m \in Nat \ {0} : Scaled(m, k)}
<1>1. 0 \in P
  <2>1. Scaled(1, 0)
    OBVIOUS
  <2> QED
    BY <2>1
<1>2. ASSUME NEW k \in P PROVE k + 1 \in P
  <2>1. PICK m \in Nat \ {0} : Scaled(m, k)
    BY <1>2
  <2>2. m * (k + 1) \in Nat \ {0}
    <3>1. k \in Nat
      OBVIOUS
    <3>2. m * (k + 1) = m * k + m /\ m * k \in Nat
      BY <3>1, MulNat
    <3> QED
      BY <3>2
  <2>3. ASSUME NEW d \in 1..(k + 1) PROVE \E q \in Nat : m * (k + 1) = q * d
    <3>1. CASE d = k + 1
      BY <3>1
    <3>2. CASE d # k + 1
      <4>1. PICK q \in Nat : m = q * d
        <5>1. k \in Nat
          OBVIOUS
        <5>2. d \in 1..k
          <6> HIDE DEF P, Scaled
          <6> QED  BY <3>2, <5>1
        <5> QED  BY <2>1, <5>2
      <4>2. q * (k + 1) \in Nat /\ m * (k + 1) = (q * (k + 1)) * d
        BY <4>1
      <4> QED
        BY <4>2
    <3> QED
      BY <3>1, <3>2
  <2>4. Scaled(m * (k + 1), k + 1)
    BY <2>3
  <2> HIDE DEF Scaled
  <2> QED
    BY <2>2, <2>4
<1>3. P = Nat
  <2> HIDE DEF P
  <2>1. P \in SUBSET Nat
    BY DEF P
  <2> QED
    BY <1>1, <1>2, <2>1, NaturalSetInduction
<1> QED
  BY <1>3

\* Weights are exact at every index.
LEMMA UnitDivides ==
  ASSUME NEW d \in 1..LOSS_INDEX_SCALE
  PROVE  /\ CommonScale \in Nat \ {0}
         /\ Unit(d) \in Nat \ {0}
         /\ Unit(d) * d = CommonScale
<1>1. /\ CommonScale \in Nat \ {0}
      /\ \A e \in 1..LOSS_INDEX_SCALE : \E q \in Nat : CommonScale = q * e
  <2>1. LOSS_INDEX_SCALE \in Nat
    BY VaultAssumption
  <2> QED
    BY <2>1, CommonScaleExists DEF CommonScale
<1>2. PICK q \in Nat : CommonScale = q * d
  BY <1>1
<1>3. d \in Nat \ {0}
  BY VaultAssumption
<1>4. Unit(d) = q
  BY <1>2, <1>3, DivMul DEF Unit
<1> QED
  BY <1>1, <1>2, <1>3, <1>4

\* Revaluing a position at the present index never makes it weigh more.
LEMMA RevaluedWeighsLess ==
  ASSUME NEW a \in Nat, NEW from \in 1..LOSS_INDEX_SCALE,
         NEW to \in 1..LOSS_INDEX_SCALE
  PROVE  ((a * to) \div from) * Unit(to) <= a * Unit(from)
<1> DEFINE x == (a * to) \div from
<1>1. /\ from \in Nat \ {0} /\ to \in Nat \ {0}
      /\ Unit(from) \in Nat /\ Unit(to) \in Nat /\ CommonScale \in Nat
      /\ Unit(from) * from = CommonScale /\ Unit(to) * to = CommonScale
  BY UnitDivides, VaultAssumption
<1>2. x \in Nat /\ from * x <= a * to
  BY <1>1, DivNat, DivBelow, MulNat
<1> HIDE DEF x
<1>3. (x * Unit(to)) * (from * to) <= (a * Unit(from)) * (from * to)
  <2>1. (x * Unit(to)) * (from * to) = (from * x) * CommonScale
    <3>1. (x * Unit(to)) * (from * to) = (from * x) * (Unit(to) * to)
      BY <1>1, <1>2
    <3> QED  BY <1>1, <3>1
  <2>2. (a * Unit(from)) * (from * to) = (a * to) * CommonScale
    <3>1. (a * Unit(from)) * (from * to) = (a * to) * (Unit(from) * from)
      BY <1>1
    <3> QED  BY <1>1, <3>1
  <2>3. (from * x) * CommonScale <= (a * to) * CommonScale
    BY <1>1, <1>2, MulMono, MulNat
  <2> QED
    BY <2>1, <2>2, <2>3
<1>4. from * to \in Nat \ {0} /\ x * Unit(to) \in Nat /\ a * Unit(from) \in Nat
  BY <1>1, <1>2, MulNat
<1>5. x * Unit(to) <= a * Unit(from)
  BY <1>3, <1>4, MulLeft
<1> QED
  BY <1>5 DEF x

\* What is left of a pool after a loss weighs no less, at the index it leaves.
LEMMA LossKeepsWeight ==
  ASSUME NEW before \in Nat \ {0}, NEW after \in 0..before,
         NEW index \in 1..LOSS_INDEX_SCALE,
         (index * after) \div before \in Nat \ {0}
  PROVE  before * Unit(index) <= after * Unit((index * after) \div before)
<1> DEFINE low == (index * after) \div before
<1>1. after \in Nat /\ index \in Nat \ {0}
  BY VaultAssumption
<1>2. /\ low \in Nat \ {0} /\ before * low <= index * after /\ low <= index
  BY <1>1, MulDiv, DivBelow, MulNat
<1>3. low \in 1..LOSS_INDEX_SCALE
  BY <1>2, VaultAssumption
<1> HIDE DEF low
<1>4. /\ Unit(index) \in Nat /\ Unit(low) \in Nat /\ CommonScale \in Nat
      /\ Unit(index) * index = CommonScale /\ Unit(low) * low = CommonScale
  BY <1>3, UnitDivides
<1>5. (before * Unit(index)) * (index * low) <= (after * Unit(low)) * (index * low)
  <2>1. (before * Unit(index)) * (index * low) = (before * low) * CommonScale
    <3>1. (before * Unit(index)) * (index * low)
            = (before * low) * (Unit(index) * index)
      BY <1>1, <1>2, <1>4
    <3> QED  BY <1>4, <3>1
  <2>2. (after * Unit(low)) * (index * low) = (index * after) * CommonScale
    <3>1. (after * Unit(low)) * (index * low) = (index * after) * (Unit(low) * low)
      BY <1>1, <1>2, <1>4
    <3> QED  BY <1>4, <3>1
  <2>3. (before * low) * CommonScale <= (index * after) * CommonScale
    BY <1>1, <1>2, <1>4, MulMono, MulNat
  <2> QED
    BY <2>1, <2>2, <2>3
<1>6. index * low \in Nat \ {0} /\ before * Unit(index) \in Nat /\ after * Unit(low) \in Nat
  BY <1>1, <1>2, <1>4, MulNat
<1>7. before * Unit(index) <= after * Unit(low)
  BY <1>5, <1>6, MulLeft
<1> QED
  BY <1>7 DEF low

\* What a position weighs and is owed covers what a touch would credit it with.
LEMMA PositionCovered ==
  ASSUME Inv, SnapshotsInScale, NEW q \in Stakers
  PROVE  /\ LivePrincipal(position[q]) \in Nat
         /\ Weight(position[q]) \in Nat
         /\ LivePrincipal(position[q]) * Unit(loss_index) <= Weight(position[q])
         /\ Owed(position[q]) \in Nat
         /\ Touched(q).rewards_pending \in Nat
         /\ Touched(q).rewards_pending * REWARD_PER_STAKE_SCALE <= Owed(position[q])
<1> DEFINE pos == position[q]
           live == LivePrincipal(pos)
           a == pos.amount_staked
           from == pos.loss_index_snapshot
           missed == reward_per_stake_acc - pos.reward_per_stake_snapshot
           delta == (live * missed) \div REWARD_PER_STAKE_SCALE
<1>1. /\ pos \in StakerPosition /\ loss_index \in 1..LOSS_INDEX_SCALE
      /\ LOSS_INDEX_SCALE \in Nat /\ reward_per_stake_acc \in Nat
      /\ REWARD_PER_STAKE_SCALE \in Nat \ {0}
      /\ a \in Nat /\ from \in Nat /\ pos.rewards_pending \in Nat
  BY VaultAssumption DEF Inv, TypeOK, StakerPosition
<1>2. live \in Nat /\ Touched(q).rewards_pending \in Nat
  BY TouchedTyped DEF Inv, StakerPosition
<1>3. missed \in Nat
  BY <1>1 DEF Inv, SnapshotsBehind, StakerPosition
<1>4. Weight(pos) \in Nat /\ live * Unit(loss_index) <= Weight(pos)
  <2>1. Unit(loss_index) \in Nat
    BY <1>1, UnitDivides
  <2>2. CASE a = 0
    BY <2>1, <2>2 DEF Weight, LivePrincipal
  <2>3. CASE a # 0
    <3>1. from \in 1..LOSS_INDEX_SCALE
      BY <1>1, <2>3 DEF Inv, SnapshotsBehind, SnapshotsInScale
    <3>2. live = (a * loss_index) \div from /\ Weight(pos) = a * Unit(from)
      BY <1>1, <2>3, <3>1 DEF Weight, LivePrincipal
    <3>3. Unit(from) \in Nat
      BY <3>1, UnitDivides
    <3>4. ((a * loss_index) \div from) * Unit(loss_index) <= a * Unit(from)
      BY <1>1, <3>1, RevaluedWeighsLess
    <3> QED
      BY <1>1, <3>2, <3>3, <3>4, MulNat
  <2> QED
    BY <2>2, <2>3
<1>5. Touched(q).rewards_pending = pos.rewards_pending + delta
  <2>1. SettleLosses(pos) = [pos EXCEPT !.amount_staked = live,
                                        !.loss_index_snapshot = loss_index]
    BY DEF SettleLosses
  <2>2. PendingRewardDelta(SettleLosses(pos)) = delta
    BY <1>1, <2>1 DEF PendingRewardDelta, StakerPosition
  <2>3. Touched(q) = CrystallizeRewards(SettleLosses(pos))
    BY DEF Touched
  <2>4. SettleLosses(pos) \in StakerPosition
        /\ SettleLosses(pos).rewards_pending = pos.rewards_pending
    <3>1. loss_index \in Nat
      BY <1>1
    <3> HIDE DEF live, pos
    <3> QED
      BY <1>1, <1>2, <2>1, <3>1 DEF StakerPosition
  <2> HIDE DEF delta, live, pos
  <2> QED
    BY <2>2, <2>3, <2>4 DEF CrystallizeRewards, StakerPosition
<1>6. /\ live * missed \in Nat /\ delta \in Nat
      /\ REWARD_PER_STAKE_SCALE * delta <= live * missed
  <2> HIDE DEF live, missed
  <2> QED
    BY <1>1, <1>2, <1>3, DivNat, DivBelow, MulNat
<1>7. Owed(pos) = pos.rewards_pending * REWARD_PER_STAKE_SCALE + live * missed
  BY DEF Owed
<1>8. pos.rewards_pending * REWARD_PER_STAKE_SCALE \in Nat
  BY <1>1, MulNat
<1>9. (pos.rewards_pending + delta) * REWARD_PER_STAKE_SCALE
        = pos.rewards_pending * REWARD_PER_STAKE_SCALE
            + REWARD_PER_STAKE_SCALE * delta
  <2> HIDE DEF delta
  <2> QED
    BY <1>1, <1>6
<1>10. /\ Owed(pos) \in Nat
       /\ Touched(q).rewards_pending * REWARD_PER_STAKE_SCALE <= Owed(pos)
  <2> DEFINE due == pos.rewards_pending * REWARD_PER_STAKE_SCALE
             late == live * missed
             credit == REWARD_PER_STAKE_SCALE * delta
  <2>1. credit \in Nat
    BY <1>1, <1>6, MulNat
  <2>2. /\ Owed(pos) = due + late /\ credit <= late /\ due \in Nat /\ late \in Nat
        /\ Touched(q).rewards_pending * REWARD_PER_STAKE_SCALE = due + credit
    BY <1>5, <1>6, <1>7, <1>8, <1>9
  <2> HIDE DEF due, late, credit, pos
  <2> QED
    BY <2>1, <2>2
<1> QED
  BY <1>2, <1>4, <1>10


\* Crediting a position with the losses and rewards since it was last touched
\* promises its staker nothing new; what it then takes out or pays in moves
\* the ledgers by as much.
LEMMA TouchKeepsBacking ==
  ASSUME Inv, SnapshotsInScale, PrincipalWeighed, RewardsOwed,
         NEW s \in Stakers, NEW r \in StakerPosition,
         position' = [position EXCEPT ![s] = r],
         r.loss_index_snapshot = loss_index,
         r.reward_per_stake_snapshot = reward_per_stake_acc,
         loss_index' = loss_index, reward_per_stake_acc' = reward_per_stake_acc,
         total_staked' \in Nat, total_staker_rewards' \in Nat,
         total_staked' - total_staked
           = r.amount_staked - LivePrincipal(position[s]),
         total_staker_rewards' - total_staker_rewards
           = r.rewards_pending - Touched(s).rewards_pending
  PROVE  SnapshotsInScale' /\ PrincipalWeighed' /\ RewardsOwed'
<1> DEFINE pos == position[s]
           live == LivePrincipal(pos)
           unit == Unit(loss_index)
           earned == Touched(s).rewards_pending
<1>1. /\ pos \in StakerPosition /\ loss_index \in 1..LOSS_INDEX_SCALE
      /\ LOSS_INDEX_SCALE \in Nat /\ total_staked \in Nat
      /\ total_staker_rewards \in Nat /\ reward_per_stake_acc \in Nat
      /\ REWARD_PER_STAKE_SCALE \in Nat \ {0} /\ IsFiniteSet(Stakers)
      /\ position \in [Stakers -> StakerPosition]
  BY VaultAssumption, StakersAssumption DEF Inv, TypeOK
<1>2. unit \in Nat \ {0}
  BY <1>1, UnitDivides
<1>3. SnapshotsInScale'
  BY <1>1 DEF SnapshotsInScale
<1>4. \A q \in Stakers :
        /\ LivePrincipal(position[q]) \in Nat
        /\ Weight(position[q]) \in Nat
        /\ LivePrincipal(position[q]) * unit <= Weight(position[q])
        /\ Owed(position[q]) \in Nat
        /\ Touched(q).rewards_pending \in Nat
        /\ Touched(q).rewards_pending * REWARD_PER_STAKE_SCALE <= Owed(position[q])
  BY PositionCovered DEF unit
<1> HIDE DEF unit
<1>5. r.amount_staked \in Nat /\ r.rewards_pending \in Nat
  BY DEF StakerPosition
<1>6. Weight(r) = r.amount_staked * unit
  BY <1>2, <1>5 DEF Weight, unit
<1>7. Owed(r)' = r.rewards_pending * REWARD_PER_STAKE_SCALE
  <2>1. LivePrincipal(r)' \in Nat
    <3>1. (r.amount_staked * loss_index) \div loss_index = r.amount_staked
      BY <1>1, <1>5, DivMul
    <3> QED  BY <1>5, <3>1 DEF LivePrincipal
  <2>2. LivePrincipal(r)' * 0 = 0
    BY <2>1
  <2>3. r.rewards_pending * REWARD_PER_STAKE_SCALE \in Nat
    BY <1>1, <1>5, MulNat
  <2> QED
    BY <1>1, <2>2, <2>3 DEF Owed
<1>8. PrincipalWeighed'
  <2> SUFFICES ASSUME loss_index > 1
               PROVE SumFunction([q \in Stakers |-> Weight(position[q])])'
                       <= total_staked' * unit
    BY DEF PrincipalWeighed, unit
  <2> DEFINE f == [q \in Stakers |-> Weight(position[q])]
             k == [q \in Stakers |-> Weight(position'[q])]
  <2>1. f \in [Stakers -> Int]
    BY <1>4
  <2>2. k \in [Stakers -> Int] /\ k[s] = Weight(r)
        /\ \A q \in Stakers \ {s} : k[q] = f[q]
    <3>1. Weight(r) \in Int
      BY <1>2, <1>5, <1>6, MulNat
    <3> QED
      BY <1>1, <1>4, <3>1
  <2>3. f[s] = Weight(pos)
    OBVIOUS
  <2>4. SumFunction(f) <= total_staked * unit
    BY DEF PrincipalWeighed, unit
  <2> HIDE DEF f, k
  <2>5. SumFunction(k) = SumFunction(f) - f[s] + k[s] /\ SumFunction(f) \in Int
    BY <1>1, <2>1, <2>2, SumChanged, SumTyped
  <2>6. total_staked' * unit = total_staked * unit + (r.amount_staked * unit - live * unit)
    <3>1. total_staked' = total_staked + (r.amount_staked - live)
      BY <1>1, <1>4, <1>5
    <3> HIDE DEF live
    <3>2. live \in Nat
      BY <1>4 DEF live
    <3> QED
      BY <1>1, <1>2, <1>5, <3>1, <3>2
  <2>7. SumFunction(k) <= total_staked' * unit
    <3>1. live * unit <= Weight(pos) /\ live * unit \in Nat /\ Weight(pos) \in Nat
      BY <1>2, <1>4, MulNat
    <3>2. /\ r.amount_staked * unit \in Nat /\ total_staked * unit \in Nat
      BY <1>1, <1>2, <1>5, MulNat
    <3> HIDE DEF live, pos
    <3> QED
      BY <1>6, <2>2, <2>3, <2>4, <2>5, <2>6, <3>1, <3>2
  <2> QED
    BY <2>7 DEF k
<1>9. RewardsOwed'
  <2> DEFINE scale == REWARD_PER_STAKE_SCALE
  <2> SUFFICES ASSUME loss_index > 1
               PROVE SumFunction([q \in Stakers |-> Owed(position[q])])'
                       <= total_staker_rewards' * scale
    BY DEF RewardsOwed
  <2> DEFINE f == [q \in Stakers |-> Owed(position[q])]
             k == [q \in Stakers |-> Owed(position[q])']
  <2>1. f \in [Stakers -> Int]
    BY <1>4
  <2>2. k \in [Stakers -> Int] /\ k[s] = r.rewards_pending * scale
        /\ \A q \in Stakers \ {s} : k[q] = f[q]
    <3>1. r.rewards_pending * scale \in Int
      BY <1>1, <1>5, MulNat
    <3>2. ASSUME NEW q \in Stakers \ {s} PROVE Owed(position[q])' = Owed(position[q])
      <4>1. position'[q] = position[q]
        BY <1>1
      <4> QED
        BY <4>1 DEF Owed, LivePrincipal
    <3>3. Owed(position[s])' = r.rewards_pending * scale
      <4>1. position'[s] = r
        BY <1>1
      <4>2. Owed(position[s])' = Owed(r)'
        BY <4>1 DEF Owed, LivePrincipal
      <4> QED
        BY <1>7, <4>2
    <3> QED
      BY <1>1, <1>4, <3>1, <3>2, <3>3
  <2>3. f[s] = Owed(pos)
    OBVIOUS
  <2>4. SumFunction(f) <= total_staker_rewards * scale
    BY DEF RewardsOwed
  <2> HIDE DEF f, k
  <2>5. SumFunction(k) = SumFunction(f) - f[s] + k[s] /\ SumFunction(f) \in Int
    BY <1>1, <2>1, <2>2, SumChanged, SumTyped
  <2>6. total_staker_rewards' * scale
          = total_staker_rewards * scale + (r.rewards_pending * scale - earned * scale)
    <3>1. earned \in Nat
      BY <1>4
    <3>2. total_staker_rewards' = total_staker_rewards + (r.rewards_pending - earned)
      BY <1>1, <1>5, <3>1
    <3> HIDE DEF earned
    <3> QED
      BY <1>1, <1>5, <3>1, <3>2
  <2>7. SumFunction(k) <= total_staker_rewards' * scale
    <3>1. earned * scale <= Owed(pos) /\ earned * scale \in Nat /\ Owed(pos) \in Nat
      BY <1>1, <1>4, MulNat
    <3>2. /\ r.rewards_pending * scale \in Nat /\ total_staker_rewards * scale \in Nat
      BY <1>1, <1>5, MulNat
    <3> HIDE DEF earned, pos, scale
    <3> QED
      BY <2>2, <2>3, <2>4, <2>5, <2>6, <3>1, <3>2
  <2> QED
    BY <2>7 DEF k
<1> QED
  BY <1>3, <1>8, <1>9

\* A loss takes from each position, and from the pool, in the same proportion.
LEMMA LossKeepsBacking ==
  ASSUME Inv, SnapshotsInScale, PrincipalWeighed, RewardsOwed,
         NEW loss \in Nat, AbsorbLoss(loss), position' = position,
         reward_per_stake_acc' = reward_per_stake_acc,
         total_staker_rewards' = total_staker_rewards
  PROVE  SnapshotsInScale' /\ PrincipalWeighed' /\ RewardsOwed'
<1>1. /\ loss_index \in 1..LOSS_INDEX_SCALE /\ loss_index' \in 1..loss_index
      /\ LOSS_INDEX_SCALE \in Nat /\ total_staked \in Nat /\ total_staked' \in Nat
      /\ reward_per_stake_acc \in Nat /\ total_staker_rewards \in Nat
      /\ REWARD_PER_STAKE_SCALE \in Nat \ {0} /\ IsFiniteSet(Stakers)
      /\ position \in [Stakers -> StakerPosition]
  BY AbsorbLossExact, VaultAssumption, StakersAssumption DEF Inv, TypeOK
<1>2. SnapshotsInScale'
  BY DEF SnapshotsInScale
<1>3. PrincipalWeighed'
  <2> SUFFICES ASSUME loss_index' > 1
               PROVE  SumFunction([q \in Stakers |-> Weight(position[q])])
                        <= total_staked' * Unit(loss_index')
    BY DEF PrincipalWeighed
  <2> DEFINE f == [q \in Stakers |-> Weight(position[q])]
             leg == StakedLeg(loss)
  <2>1. SumFunction(f) <= total_staked * Unit(loss_index)
    BY <1>1 DEF PrincipalWeighed
  <2>2. SumFunction(f) \in Int
    <3>1. f \in [Stakers -> Int]
      BY PositionCovered
    <3> HIDE DEF f
    <3> QED  BY <1>1, <3>1, SumTyped
  <2>3. total_staked * Unit(loss_index) <= total_staked' * Unit(loss_index')
    <3>1. CASE leg = 0
      BY <1>1, <3>1, UnitDivides, MulNat DEF AbsorbLoss
    <3>2. CASE leg # 0
      <4>1. /\ leg \in Nat /\ leg <= total_staked /\ total_staked' = total_staked - leg
            /\ loss_index' = ScaledIndex(total_staked, total_staked - leg)
        BY <3>2 DEF AbsorbLoss, StakedLeg, Minus, Inv, TypeOK
      <4>2. total_staked \in Nat \ {0} /\ total_staked' \in 0..total_staked
        BY <1>1, <3>2, <4>1
      <4> HIDE DEF leg
      <4>3. /\ (loss_index * total_staked') \div total_staked \in Nat
            /\ loss_index' = (loss_index * total_staked') \div total_staked
        <5>1. (loss_index * total_staked') \div total_staked \in Nat
          <6>1. loss_index \in Nat /\ total_staked' \in Nat
            BY <1>1
          <6> QED  BY <4>2, <6>1, DivNat, MulNat
        <5> QED  BY <4>1, <5>1 DEF ScaledIndex, Greater
      <4>4. (loss_index * total_staked') \div total_staked \in Nat \ {0}
        BY <4>3
      <4>5. total_staked * Unit(loss_index)
              <= total_staked' * Unit((loss_index * total_staked') \div total_staked)
        BY <1>1, <4>2, <4>4, LossKeepsWeight
      <4> QED
        BY <4>3, <4>5
    <3> QED
      BY <3>1, <3>2
  <2>4. total_staked * Unit(loss_index) \in Int /\ total_staked' * Unit(loss_index') \in Int
    BY <1>1, UnitDivides
  <2> QED
    BY <2>1, <2>2, <2>3, <2>4
<1>4. RewardsOwed'
  <2> SUFFICES ASSUME loss_index' > 1
               PROVE  SumFunction([q \in Stakers |-> Owed(position[q])'])
                        <= total_staker_rewards * REWARD_PER_STAKE_SCALE
    BY DEF RewardsOwed
  <2> DEFINE f == [q \in Stakers |-> Owed(position[q])]
             k == [q \in Stakers |-> Owed(position[q])']
  <2>1. SumFunction(f) <= total_staker_rewards * REWARD_PER_STAKE_SCALE
    BY <1>1 DEF RewardsOwed
  <2>2. ASSUME NEW q \in Stakers
        PROVE  Owed(position[q])' \in Int /\ Owed(position[q])' <= Owed(position[q])
    <3> DEFINE pos == position[q]
               missed == reward_per_stake_acc - pos.reward_per_stake_snapshot
               live == LivePrincipal(pos)
               less == LivePrincipal(pos)'
               due == pos.rewards_pending * REWARD_PER_STAKE_SCALE
    <3>1. live \in Nat /\ less \in Nat /\ less <= live
      <4>1. live \in Nat
        BY PositionCovered
      <4>2. CASE pos.loss_index_snapshot = 0 \/ pos.amount_staked = 0
        BY <4>1, <4>2 DEF LivePrincipal
      <4>3. CASE ~(pos.loss_index_snapshot = 0 \/ pos.amount_staked = 0)
        <5> DEFINE a == pos.amount_staked
                   from == pos.loss_index_snapshot
        <5>1. a \in Nat /\ from \in Nat \ {0}
          BY <1>1, <4>3 DEF StakerPosition
        <5>2. /\ live = (a * loss_index) \div from
              /\ less = (a * loss_index') \div from
          BY <4>3 DEF LivePrincipal
        <5> HIDE DEF a, from, live, less
        <5>3. loss_index \in Nat /\ loss_index' \in Nat /\ loss_index' <= loss_index
          BY <1>1
        <5>4. a * loss_index' <= a * loss_index
          <6>1. loss_index' * a <= loss_index * a
            BY <5>1, <5>3, MulMono
          <6>2. loss_index' * a = a * loss_index' /\ loss_index * a = a * loss_index
            BY <5>1, <5>3
          <6> QED  BY <6>1, <6>2
        <5> QED
          BY <5>1, <5>2, <5>3, <5>4, DivMono, DivNat, MulNat
      <4> QED
        BY <4>2, <4>3
    <3>2. missed \in Nat /\ due \in Nat
      BY <1>1, MulNat DEF Inv, SnapshotsBehind, StakerPosition
    <3>3. Owed(pos) = due + live * missed /\ Owed(pos)' = due + less * missed
      BY DEF Owed
    <3> HIDE DEF missed, live, less, due
    <3>4. less * missed <= live * missed /\ live * missed \in Nat /\ less * missed \in Nat
      BY <3>1, <3>2, MulMono, MulNat
    <3> QED
      BY <3>2, <3>3, <3>4
  <2>3. f \in [Stakers -> Int] /\ k \in [Stakers -> Int]
    BY <2>2, PositionCovered
  <2>4. \A q \in Stakers : k[q] <= f[q]
    BY <2>2
  <2> HIDE DEF f, k
  <2>5. SumFunction(k) <= SumFunction(f) /\ SumFunction(f) \in Int /\ SumFunction(k) \in Int
    BY <1>1, <2>3, <2>4, SumMonotone, SumTyped
  <2>6. total_staker_rewards * REWARD_PER_STAKE_SCALE \in Int
    BY <1>1
  <2>7. SumFunction(k) <= total_staker_rewards * REWARD_PER_STAKE_SCALE
    BY <2>1, <2>5, <2>6
  <2> QED
    BY <2>7 DEF k
<1> QED
  BY <1>2, <1>3, <1>4

\* While the index moves, the pool holds the principal of every staker.
LEMMA WeighedIsBacked ==
  ASSUME Inv, SnapshotsInScale, PrincipalWeighed
  PROVE  PrincipalBacked
<1> SUFFICES ASSUME loss_index > 1
             PROVE  SumFunction([q \in Stakers |-> LivePrincipal(position[q])])
                      <= total_staked
  BY DEF PrincipalBacked
<1> DEFINE live == [q \in Stakers |-> LivePrincipal(position[q])]
           f == [q \in Stakers |-> Weight(position[q])]
           unit == Unit(loss_index)
           scaled == [q \in Stakers |-> live[q] * unit]
<1>1. /\ loss_index \in 1..LOSS_INDEX_SCALE /\ total_staked \in Nat
      /\ IsFiniteSet(Stakers)
  BY VaultAssumption, StakersAssumption DEF Inv, TypeOK
<1>2. unit \in Nat \ {0}
  BY <1>1, UnitDivides
<1>3. live \in [Stakers -> Int] /\ f \in [Stakers -> Int]
      /\ \A q \in Stakers : live[q] * unit <= f[q] /\ live[q] \in Nat
  BY PositionCovered
<1>4. SumFunction(f) <= total_staked * unit
  BY DEF PrincipalWeighed
<1> HIDE DEF live, f, unit
<1>5. SumFunction(live) * unit <= SumFunction(f)
  BY <1>1, <1>2, <1>3, SumScaled
<1>6. SumFunction(live) \in Int /\ SumFunction(f) \in Int
  BY <1>1, <1>3, SumTyped
<1>7. SumFunction(live) * unit <= total_staked * unit
  BY <1>1, <1>2, <1>4, <1>5, <1>6
<1>8. SumFunction(live) <= total_staked
  <2>1. CASE SumFunction(live) < 0
    BY <1>1, <1>6, <2>1
  <2>2. CASE SumFunction(live) >= 0
    <3>1. SumFunction(live) \in Nat
      BY <1>6, <2>2
    <3> QED
      BY <1>1, <1>2, <1>7, <3>1, MulLeft
  <2> QED
    BY <1>6, <2>1, <2>2
<1> QED
  BY <1>8 DEF live

\* The ledger holds the rewards of every staker.
LEMMA OwedIsBacked ==
  ASSUME Inv, SnapshotsInScale, RewardsOwed
  PROVE  RewardsBacked
<1> SUFFICES ASSUME loss_index > 1
             PROVE  SumFunction([q \in Stakers |-> Touched(q).rewards_pending])
                      <= total_staker_rewards
  BY DEF RewardsBacked
<1> DEFINE earned == [q \in Stakers |-> Touched(q).rewards_pending]
           f == [q \in Stakers |-> Owed(position[q])]
           scale == REWARD_PER_STAKE_SCALE
<1>1. /\ total_staker_rewards \in Nat /\ IsFiniteSet(Stakers)
      /\ scale \in Nat \ {0}
  BY VaultAssumption, StakersAssumption DEF Inv, TypeOK
<1>2. /\ earned \in [Stakers -> Int] /\ f \in [Stakers -> Int]
      /\ \A q \in Stakers : earned[q] * scale <= f[q]
  BY PositionCovered
<1>3. SumFunction(f) <= total_staker_rewards * scale
  BY DEF RewardsOwed
<1> HIDE DEF earned, f, scale
<1>4. SumFunction(earned) * scale <= SumFunction(f)
  BY <1>1, <1>2, SumScaled
<1>5. SumFunction(earned) \in Int /\ SumFunction(f) \in Int
  BY <1>1, <1>2, SumTyped
<1>6. SumFunction(earned) * scale <= total_staker_rewards * scale
  BY <1>1, <1>3, <1>4, <1>5
<1>7. SumFunction(earned) <= total_staker_rewards
  <2>1. CASE SumFunction(earned) < 0
    BY <1>1, <1>5, <2>1
  <2>2. CASE SumFunction(earned) >= 0
    <3>1. SumFunction(earned) \in Nat
      BY <1>5, <2>2
    <3> QED
      BY <1>1, <1>6, <3>1, MulLeft
  <2> QED
    BY <1>5, <2>1, <2>2
<1> QED
  BY <1>7 DEF earned

\* A reward shared out over the stake promises the stakers, together, no more
\* than was put aside for them.
LEMMA AccrualKeepsBacking ==
  ASSUME Inv, SnapshotsInScale, PrincipalWeighed, RewardsOwed,
         NEW amount \in Nat, AccrueStakerRewards(amount), position' = position,
         total_staked' = total_staked, loss_index' = loss_index
  PROVE  SnapshotsInScale' /\ PrincipalWeighed' /\ RewardsOwed'
<1> DEFINE scale == REWARD_PER_STAKE_SCALE
           delta == IF total_staked = 0 THEN 0
                    ELSE (amount * scale) \div total_staked
<1>1. /\ total_staked \in Nat /\ total_staker_rewards \in Nat
      /\ reward_per_stake_acc \in Nat /\ scale \in Nat \ {0}
      /\ IsFiniteSet(Stakers) /\ position \in [Stakers -> StakerPosition]
  BY VaultAssumption, StakersAssumption DEF Inv, TypeOK
<1>2. /\ delta \in Nat /\ total_staked * delta <= amount * scale
      /\ reward_per_stake_acc' = reward_per_stake_acc + delta
      /\ total_staker_rewards' = total_staker_rewards + amount
  <2>1. amount * scale \in Nat
    BY <1>1, MulNat
  <2>2. CASE total_staked = 0
    BY <1>1, <2>1, <2>2 DEF AccrueStakerRewards
  <2>3. CASE total_staked # 0
    <3> HIDE DEF scale
    <3> QED
      BY <1>1, <2>1, <2>3, DivNat, DivBelow DEF AccrueStakerRewards, scale
  <2> QED
    BY <2>2, <2>3
<1>3. SnapshotsInScale' /\ PrincipalWeighed'
  BY DEF SnapshotsInScale, PrincipalWeighed
<1>4. RewardsOwed'
  <2> SUFFICES ASSUME loss_index > 1
               PROVE  SumFunction([q \in Stakers |-> Owed(position[q])'])
                        <= total_staker_rewards' * scale
    BY DEF RewardsOwed
  <2> DEFINE f == [q \in Stakers |-> Owed(position[q])]
             live == [q \in Stakers |-> LivePrincipal(position[q])]
             k == [q \in Stakers |-> Owed(position[q])']
             one == 1
  <2>1. SumFunction(f) <= total_staker_rewards * scale
    BY DEF RewardsOwed
  <2>2. SumFunction(live) <= total_staked
    BY WeighedIsBacked DEF PrincipalBacked
  <2>3. ASSUME NEW q \in Stakers
        PROVE  /\ Owed(position[q])' \in Int
               /\ Owed(position[q])' = one * f[q] + delta * live[q]
    <3> DEFINE pos == position[q]
               missed == reward_per_stake_acc - pos.reward_per_stake_snapshot
               principal == LivePrincipal(pos)
               due == pos.rewards_pending * scale
    <3>1. principal \in Nat /\ due \in Nat /\ missed \in Int
      BY <1>1, PositionCovered, MulNat DEF StakerPosition
    <3>2. /\ Owed(pos) = due + principal * missed
          /\ Owed(pos)' = due + principal * (missed + delta)
      <4>1. LivePrincipal(pos)' = principal
        BY DEF LivePrincipal
      <4>2. reward_per_stake_acc' - pos.reward_per_stake_snapshot = missed + delta
        BY <1>1, <1>2 DEF StakerPosition
      <4> HIDE DEF delta, principal
      <4> QED
        BY <4>1, <4>2 DEF Owed, principal
    <3>3. f[q] = Owed(pos) /\ live[q] = principal
      OBVIOUS
    <3> HIDE DEF missed, principal, due, delta, f, live
    <3>4. principal * (missed + delta) = principal * missed + delta * principal
      BY <1>2, <3>1
    <3>5. principal * missed \in Int /\ delta * principal \in Int
      BY <1>2, <3>1
    <3> QED
      BY <3>1, <3>2, <3>3, <3>4, <3>5
  <2>4. /\ f \in [Stakers -> Int] /\ k \in [Stakers -> Int]
        /\ live \in [Stakers -> Int]
    BY <2>3, PositionCovered
  <2>5. \A q \in Stakers : k[q] <= one * f[q] + delta * live[q]
    <3> HIDE DEF f, live, delta, one
    <3> QED
      BY <2>3
  <2>6. one \in Int /\ delta \in Int
    <3> HIDE DEF delta
    <3> QED
      BY <1>2
  <2> HIDE DEF f, live, k, delta, one, scale
  <2>7. SumFunction(k) <= one * SumFunction(f) + delta * SumFunction(live)
    BY <1>1, <1>2, <2>4, <2>5, <2>6, SumBounded
  <2>8. SumFunction(f) \in Int /\ SumFunction(live) \in Int /\ SumFunction(k) \in Int
    BY <1>1, <2>4, SumTyped
  <2>9. delta * SumFunction(live) <= total_staked * delta
    BY <1>1, <1>2, <2>2, <2>8
  <2>10. /\ one * SumFunction(f) = SumFunction(f)
         /\ total_staker_rewards' * scale = total_staker_rewards * scale + amount * scale
    BY <1>1, <1>2, <2>8 DEF one
  <2>11. SumFunction(k) <= total_staker_rewards' * scale
    <3> DEFINE u == delta * SumFunction(live)
               v == total_staked * delta
               w == amount * scale
               x == total_staker_rewards * scale
    <3>1. u \in Int /\ v \in Int /\ w \in Int /\ x \in Int
      BY <1>1, <1>2, <2>8
    <3>2. /\ SumFunction(k) <= SumFunction(f) + u /\ u <= v /\ v <= w
          /\ SumFunction(f) <= x /\ total_staker_rewards' * scale = x + w
      BY <1>2, <2>1, <2>7, <2>9, <2>10
    <3> HIDE DEF u, v, w, x
    <3> QED
      BY <2>8, <3>1, <3>2
  <2> QED
    BY <2>11 DEF k
<1> QED
  BY <1>3, <1>4

Backing == SnapshotsInScale /\ PrincipalWeighed /\ RewardsOwed

BackedInv == Inv /\ Backing

\* Steps that leave the stake, the rewards and every position's value alone.
LEMMA IdleKeepsBacking ==
  ASSUME Inv, Backing, position' = position, UNCHANGED rewardVars,
         total_staked' = total_staked, loss_index' = loss_index
  PROVE  Backing'
<1>1. \A q \in Stakers : Owed(position[q])' = Owed(position[q])
  BY DEF Owed, LivePrincipal, rewardVars
<1> QED
  BY <1>1 DEF Backing, SnapshotsInScale, PrincipalWeighed, RewardsOwed, rewardVars

\* Each instruction keeps principal and rewards backed.
LEMMA StakeKeepsBacking ==
  ASSUME BackedInv, NEW s \in Stakers, NEW amount \in StakeAmounts, Stake(s, amount)
  PROVE  Backing'
<1> DEFINE pos == Touched(s)
           sum == pos.amount_staked + amount
           r == [pos EXCEPT !.amount_staked = sum, !.deposited = TRUE]
<1>1. /\ pos \in StakerPosition
      /\ pos.amount_staked = LivePrincipal(position[s])
      /\ pos.reward_per_stake_snapshot = reward_per_stake_acc
      /\ pos.loss_index_snapshot = loss_index
  BY TouchedTyped DEF BackedInv, Inv
<1>2. amount \in Nat /\ total_staked \in Nat /\ total_staker_rewards \in Nat
  BY VaultAssumption DEF BackedInv, Inv, TypeOK
<1>3. position' = [position EXCEPT ![s] = r]
  BY DEF Stake
<1>4. /\ total_staked' = total_staked + amount /\ loss_index' = loss_index
      /\ reward_per_stake_acc' = reward_per_stake_acc
      /\ total_staker_rewards' = total_staker_rewards
  BY DEF Stake, rewardVars
<1> HIDE DEF pos
<1>5. sum \in Nat /\ sum = pos.amount_staked + amount /\ pos.amount_staked \in Nat
  BY <1>1, <1>2 DEF StakerPosition
<1> HIDE DEF sum
<1>6. /\ r \in StakerPosition /\ r.amount_staked = sum
      /\ r.rewards_pending = pos.rewards_pending /\ pos.rewards_pending \in Nat
      /\ r.reward_per_stake_snapshot = reward_per_stake_acc
      /\ r.loss_index_snapshot = loss_index
  BY <1>1, <1>5 DEF StakerPosition
<1> HIDE DEF r
<1>7. /\ total_staked' \in Nat /\ total_staker_rewards' \in Nat
      /\ total_staked' - total_staked = r.amount_staked - LivePrincipal(position[s])
      /\ total_staker_rewards' - total_staker_rewards
           = r.rewards_pending - pos.rewards_pending
  BY <1>1, <1>2, <1>4, <1>5, <1>6
<1> QED
  BY <1>3, <1>4, <1>6, <1>7, TouchKeepsBacking DEF BackedInv, Backing, pos

LEMMA ExecuteUnstakeKeepsBacking ==
  ASSUME BackedInv, Inv', NEW s \in Stakers, ExecuteUnstake(s)
  PROVE  Backing'
<1> DEFINE pos     == Touched(s)
           amount  == Lesser(Minus(total_staked, ReserveRequired),
                             pos.amount_staked)
           rest    == pos.amount_staked - amount
           claimed == pos.rewards_claimed + pos.rewards_pending
           request == IF amount = pos.amount_staked THEN 0
                      ELSE pos.unstake_requested_at
           r == [pos EXCEPT !.amount_staked = rest,
                            !.rewards_claimed = claimed,
                            !.rewards_pending = 0,
                            !.unstake_requested_at = request]
<1>1. /\ pos \in StakerPosition
      /\ pos.amount_staked = LivePrincipal(position[s])
      /\ pos.reward_per_stake_snapshot = reward_per_stake_acc
      /\ pos.loss_index_snapshot = loss_index
  BY TouchedTyped DEF BackedInv, Inv
<1>2. position' = [position EXCEPT ![s] = r]  BY DEF ExecuteUnstake
<1>3. /\ total_staker_rewards' = total_staker_rewards - pos.rewards_pending
      /\ total_staked' = total_staked - amount /\ loss_index' = loss_index
      /\ reward_per_stake_acc' = reward_per_stake_acc
  BY DEF ExecuteUnstake
<1>4. /\ total_staked' \in Nat /\ total_staker_rewards' \in Nat
      /\ total_staked \in Nat /\ total_staker_rewards \in Nat
      /\ position \in [Stakers -> StakerPosition]
      /\ position' \in [Stakers -> StakerPosition]
  BY DEF BackedInv, Inv, TypeOK
<1> HIDE DEF pos, amount
<1>5. r \in StakerPosition
  <2>1. position'[s] = r
    BY <1>2, <1>4
  <2> QED
    BY <1>4, <2>1
<1>6. /\ r.amount_staked = rest /\ r.rewards_pending = 0
      /\ r.reward_per_stake_snapshot = reward_per_stake_acc
      /\ r.loss_index_snapshot = loss_index
  <2> HIDE DEF rest, claimed, request
  <2> QED
    BY <1>1 DEF StakerPosition
<1>7. pos.amount_staked \in Nat /\ pos.rewards_pending \in Nat /\ rest \in Nat
  BY <1>1, <1>5, <1>6 DEF StakerPosition
<1> HIDE DEF r
<1>8. /\ total_staked' - total_staked = r.amount_staked - LivePrincipal(position[s])
      /\ total_staker_rewards' - total_staker_rewards
           = r.rewards_pending - pos.rewards_pending
  <2>1. total_staked' = total_staked - amount /\ amount \in Int
    <3>1. amount \in Int
      <4>1. ReserveRequired \in Nat
        <5>1. total_coverage * SOLVENCY_CRITICAL + BPS - 1 \in Nat
          BY MulNat, VaultAssumption DEF BackedInv, Inv, TypeOK
        <5> QED
          BY <5>1, DivNat, VaultAssumption DEF ReserveRequired, CeilDiv
      <4> QED
        BY <1>4, <1>7, <4>1 DEF amount, Lesser, Minus
    <3> QED
      BY <1>3, <3>1
  <2> QED
    BY <1>1, <1>3, <1>4, <1>6, <1>7, <2>1
<1> QED
  BY <1>2, <1>3, <1>4, <1>5, <1>6, <1>8, TouchKeepsBacking
  DEF BackedInv, Backing, pos

LEMMA ClaimRewardsKeepsBacking ==
  ASSUME BackedInv, Inv', NEW s \in Stakers, ClaimRewards(s)
  PROVE  Backing'
<1> DEFINE pos     == Touched(s)
           claimed == pos.rewards_claimed + pos.rewards_pending
           r == [pos EXCEPT !.rewards_claimed = claimed, !.rewards_pending = 0]
<1>1. /\ pos \in StakerPosition
      /\ pos.amount_staked = LivePrincipal(position[s])
      /\ pos.reward_per_stake_snapshot = reward_per_stake_acc
      /\ pos.loss_index_snapshot = loss_index
  BY TouchedTyped DEF BackedInv, Inv
<1>2. position' = [position EXCEPT ![s] = r]  BY DEF ClaimRewards
<1>3. /\ total_staker_rewards' = total_staker_rewards - pos.rewards_pending
      /\ total_staked' = total_staked /\ loss_index' = loss_index
      /\ reward_per_stake_acc' = reward_per_stake_acc
  BY DEF ClaimRewards, poolVars
<1>4. /\ total_staked' \in Nat /\ total_staker_rewards' \in Nat
      /\ total_staked \in Nat /\ total_staker_rewards \in Nat
      /\ position \in [Stakers -> StakerPosition]
      /\ position' \in [Stakers -> StakerPosition]
  BY DEF BackedInv, Inv, TypeOK
<1> HIDE DEF pos
<1>5. r \in StakerPosition
  <2>1. position'[s] = r
    BY <1>2, <1>4
  <2> QED
    BY <1>4, <2>1
<1>6. /\ r.amount_staked = pos.amount_staked /\ r.rewards_pending = 0
      /\ r.reward_per_stake_snapshot = reward_per_stake_acc
      /\ r.loss_index_snapshot = loss_index
      /\ pos.amount_staked \in Nat /\ pos.rewards_pending \in Nat
  <2> HIDE DEF claimed
  <2> QED
    BY <1>1 DEF StakerPosition
<1> HIDE DEF r
<1>7. /\ total_staked' - total_staked = r.amount_staked - LivePrincipal(position[s])
      /\ total_staker_rewards' - total_staker_rewards
           = r.rewards_pending - pos.rewards_pending
  BY <1>1, <1>3, <1>4, <1>6
<1> QED
  BY <1>2, <1>3, <1>4, <1>5, <1>6, <1>7, TouchKeepsBacking
  DEF BackedInv, Backing, pos

\* Asking to leave changes nothing of what a position is worth.
LEMMA RequestUnstakeKeepsBacking ==
  ASSUME BackedInv, NEW s \in Stakers, RequestUnstake(s)
  PROVE  Backing'
<1>1. /\ position \in [Stakers -> StakerPosition]
      /\ position' = [position EXCEPT ![s].unstake_requested_at = now]
      /\ UNCHANGED <<poolVars, rewardVars>>
  BY DEF RequestUnstake, BackedInv, Inv, TypeOK
<1>2. ASSUME NEW q \in Stakers
      PROVE  /\ position'[q].amount_staked = position[q].amount_staked
             /\ position'[q].loss_index_snapshot = position[q].loss_index_snapshot
             /\ position'[q].reward_per_stake_snapshot
                  = position[q].reward_per_stake_snapshot
             /\ position'[q].rewards_pending = position[q].rewards_pending
  BY <1>1 DEF StakerPosition
<1>3. ASSUME NEW q \in Stakers
      PROVE  /\ Weight(position[q])' = Weight(position[q])
             /\ Owed(position[q])' = Owed(position[q])
  BY <1>1, <1>2 DEF Weight, Owed, LivePrincipal, poolVars, rewardVars
<1>4. SnapshotsInScale'
  BY <1>2 DEF BackedInv, Backing, SnapshotsInScale
<1>5. /\ [q \in Stakers |-> Weight(position[q])']
           = [q \in Stakers |-> Weight(position[q])]
      /\ [q \in Stakers |-> Owed(position[q])']
           = [q \in Stakers |-> Owed(position[q])]
  BY <1>3
<1>6. PrincipalWeighed'
  BY <1>1, <1>5 DEF BackedInv, Backing, PrincipalWeighed, poolVars
<1>7. RewardsOwed'
  BY <1>1, <1>5 DEF BackedInv, Backing, RewardsOwed, poolVars, rewardVars
<1> QED
  BY <1>4, <1>6, <1>7 DEF Backing

LEMMA BackingStep ==
  ASSUME BackedInv, [Next]_vars
  PROVE  BackedInv'
<1> USE DEF BackedInv
<1>1. Inv'
  BY StepInv
<1>2. CASE Tick
  BY <1>1, <1>2, IdleKeepsBacking DEF Tick, poolVars
<1>3. ASSUME NEW s \in Stakers, StakerStep(s) PROVE Backing'
  BY <1>1, <1>3, StakeKeepsBacking, RequestUnstakeKeepsBacking,
     ExecuteUnstakeKeepsBacking, ClaimRewardsKeepsBacking
  DEF StakerStep
<1>4. ASSUME NEW p \in Policies, PolicyStep(p) PROVE Backing'
  <2>1. CASE CancelPolicy(p)
    <3>1. /\ AbsorbLoss(Refund(p)) /\ position' = position
          /\ reward_per_stake_acc' = reward_per_stake_acc
          /\ total_staker_rewards' = total_staker_rewards
      BY <2>1 DEF CancelPolicy, rewardVars
    <3>2. Refund(p) \in Nat
      BY <2>1, RefundTyped DEF CancelPolicy, Inv
    <3> QED
      BY <3>1, <3>2, LossKeepsBacking DEF Backing
  <2>2. CASE ExpirePolicy(p)
    BY <1>1, <2>2, IdleKeepsBacking DEF ExpirePolicy, poolVars
  <2>3. ASSUME NEW t \in Triggers, SubmitClaim(p, t) \/ OracleSubmitClaim(p, t)
        PROVE  Backing'
    BY <1>1, <2>3, IdleKeepsBacking DEF SubmitClaim, OracleSubmitClaim, poolVars
  <2>4. ASSUME NEW amount \in Payouts, PayClaim(p, amount) PROVE Backing'
    <3>1. /\ AbsorbLoss(amount) /\ position' = position
          /\ reward_per_stake_acc' = reward_per_stake_acc
          /\ total_staker_rewards' = total_staker_rewards
      BY <2>4 DEF PayClaim, rewardVars
    <3>2. amount \in Nat
      BY VaultAssumption
    <3> QED
      BY <3>1, <3>2, LossKeepsBacking DEF Backing
  <2> QED
    BY <1>4, <2>1, <2>2, <2>3, <2>4 DEF PolicyStep
<1>5. ASSUME NEW tier \in Tiers, NEW c \in Coverages, NEW d \in Durations,
             NEW f \in FlatPremiums, CreatePolicy(tier, c, d, f)
      PROVE  Backing'
  <2> DEFINE share == (Premium(tier, c, d, f) * STAKER_SHARE_BPS) \div BPS
  <2>1. /\ AccrueStakerRewards(share) /\ position' = position
        /\ total_staked' = total_staked /\ loss_index' = loss_index
    BY <1>5 DEF CreatePolicy
  <2>2. share \in Nat
    <3>1. Premium(tier, c, d, f) \in Nat
      BY PremiumTyped, VaultAssumption DEF Inv
    <3> QED
      BY <3>1, DivNat, MulNat, VaultAssumption
  <2> HIDE DEF share
  <2> QED
    BY <2>1, <2>2, AccrualKeepsBacking DEF Backing
<1>6. ASSUME NEW b \in BOOLEAN, NEW m \in Multipliers, UpdateConfig(b, m)
      PROVE  Backing'
  BY <1>1, <1>6, IdleKeepsBacking DEF UpdateConfig, poolVars
<1>7. CASE UNCHANGED vars
  BY <1>1, <1>7, IdleKeepsBacking DEF vars, rewardVars
<1>8. Backing'
  BY <1>2, <1>3, <1>4, <1>5, <1>6, <1>7 DEF Next
<1> QED
  BY <1>1, <1>8

LEMMA BackingInit ==
  ASSUME Init
  PROVE  BackedInv
<1>1. Inv
  BY InitInv
<1>2. \A q \in Stakers : position[q] = NoPosition
  BY DEF Init
<1>3. \A q \in Stakers : Weight(position[q]) = 0 /\ Owed(position[q]) = 0
  BY <1>2, VaultAssumption DEF Init, Weight, Owed, LivePrincipal, NoPosition
<1>4. SnapshotsInScale
  BY <1>2, VaultAssumption DEF SnapshotsInScale, NoPosition
<1> DEFINE f == [q \in Stakers |-> Weight(position[q])]
           k == [q \in Stakers |-> Owed(position[q])]
<1>5. /\ f \in [Stakers -> Int] /\ k \in [Stakers -> Int]
      /\ \A q \in Stakers : f[q] = 0 /\ k[q] = 0
  BY <1>3
<1>6. SumFunction(f) = 0 /\ SumFunction(k) = 0
  <2> HIDE DEF f, k
  <2> QED
    BY <1>5, StakersAssumption, SumZero
<1>7. /\ total_staked = 0 /\ total_staker_rewards = 0
      /\ loss_index \in 1..LOSS_INDEX_SCALE
  BY <1>1 DEF Init, Inv, TypeOK
<1>8. total_staked * Unit(loss_index) = 0
      /\ total_staker_rewards * REWARD_PER_STAKE_SCALE = 0
  BY <1>7, UnitDivides, VaultAssumption
<1> QED
  BY <1>1, <1>4, <1>6, <1>8
  DEF BackedInv, Backing, PrincipalWeighed, RewardsOwed

LEMMA BackingInvariance == Spec => []BackedInv
<1>1. Init => BackedInv
  BY BackingInit
<1>2. BackedInv /\ [Next]_vars => BackedInv'
  BY BackingStep
<1> QED
  BY <1>1, <1>2, PTL DEF Spec

\* However losses were rounded and whenever positions were revalued, the pool
\* holds what all its stakers could be credited with together, until the index
\* reaches its floor.
THEOREM PrincipalAlwaysBacked == Spec => []PrincipalBacked
<1>1. BackedInv => PrincipalBacked
  BY WeighedIsBacked DEF BackedInv, Backing
<1> QED
  BY <1>1, BackingInvariance, PTL

\* The reward ledger holds what all stakers could claim together, so no claim
\* and no exit is ever refused for want of it.
THEOREM RewardsAlwaysBacked == Spec => []RewardsBacked
<1>1. BackedInv => RewardsBacked
  BY OwedIsBacked DEF BackedInv, Backing
<1> QED
  BY <1>1, BackingInvariance, PTL

-----------------------------------------------------------------------------
(* The vault's totals are sums over its policies. *)

\* What a policy adds to the coverage of the pool.
Covered(pol) == IF pol.state \in {Active, Pending} THEN pol.coverage_amount ELSE 0

\* Only a paid policy carries a payout.
PaidOnlyOnce ==
  \A p \in Policies : policy[p].state # Paid => policy[p].payout_amount = 0

BooksInv == Inv /\ PaidOnlyOnce /\ BooksMatchPolicies

LEMMA PoliciesFinite == IsFiniteSet(Policies)
  BY FS_Interval, VaultAssumption DEF Policies

\* The totals move with the one policy an instruction writes.
LEMMA OnePolicyMovesBooks ==
  ASSUME BooksInv, Inv', NEW p \in Policies, NEW r \in InsurancePolicy,
         policy' = [policy EXCEPT ![p] = r],
         r.state # Paid => r.payout_amount = 0,
         total_coverage' = total_coverage - Covered(policy[p]) + Covered(r),
         total_claims_paid'
           = total_claims_paid - policy[p].payout_amount + r.payout_amount,
         total_premiums_collected'
           = total_premiums_collected - policy[p].premium_paid + r.premium_paid
  PROVE  BooksInv'
<1> DEFINE cover1 == [q \in Policies |-> Covered(policy[q])]
           cover2 == [q \in Policies |-> Covered(policy'[q])]
           paid1 == [q \in Policies |-> policy[q].payout_amount]
           paid2 == [q \in Policies |-> policy'[q].payout_amount]
           premium1 == [q \in Policies |-> policy[q].premium_paid]
           premium2 == [q \in Policies |-> policy'[q].premium_paid]
<1>1. /\ policy \in [Policies -> InsurancePolicy]
      /\ policy' \in [Policies -> InsurancePolicy]
  BY DEF BooksInv, Inv, TypeOK
<1>2. policy'[p] = r /\ \A q \in Policies \ {p} : policy'[q] = policy[q]
  BY <1>1
<1>3. /\ cover1 \in [Policies -> Int] /\ cover2 \in [Policies -> Int]
      /\ paid1 \in [Policies -> Int] /\ paid2 \in [Policies -> Int]
      /\ premium1 \in [Policies -> Int] /\ premium2 \in [Policies -> Int]
  BY <1>1 DEF Covered, InsurancePolicy
<1>4. /\ cover1[p] = Covered(policy[p]) /\ cover2[p] = Covered(r)
      /\ paid1[p] = policy[p].payout_amount /\ paid2[p] = r.payout_amount
      /\ premium1[p] = policy[p].premium_paid /\ premium2[p] = r.premium_paid
  BY <1>2
<1>5. \A q \in Policies \ {p} :
        cover2[q] = cover1[q] /\ paid2[q] = paid1[q] /\ premium2[q] = premium1[q]
  BY <1>2
<1>6. /\ total_coverage = SumFunction(cover1)
      /\ total_claims_paid = SumFunction(paid1)
      /\ total_premiums_collected = SumFunction(premium1)
  BY DEF BooksInv, BooksMatchPolicies, Live, Covered
<1>7. /\ SumFunction(cover2) = total_coverage'
      /\ SumFunction(paid2) = total_claims_paid'
      /\ SumFunction(premium2) = total_premiums_collected'
  <2> HIDE DEF cover1, cover2, paid1, paid2, premium1, premium2
  <2>1. SumFunction(cover2) = SumFunction(cover1) - cover1[p] + cover2[p]
    BY <1>3, <1>5, PoliciesFinite, SumChanged
  <2>2. SumFunction(paid2) = SumFunction(paid1) - paid1[p] + paid2[p]
    BY <1>3, <1>5, PoliciesFinite, SumChanged
  <2>3. SumFunction(premium2) = SumFunction(premium1) - premium1[p] + premium2[p]
    BY <1>3, <1>5, PoliciesFinite, SumChanged
  <2> QED
    BY <1>4, <1>6, <2>1, <2>2, <2>3
<1>8. BooksMatchPolicies'
  BY <1>7 DEF BooksMatchPolicies, Live, Covered
<1>9. PaidOnlyOnce'
  BY <1>2 DEF BooksInv, PaidOnlyOnce
<1> QED
  BY <1>8, <1>9 DEF BooksInv

\* Steps that write no policy leave the totals of the policies alone.
LEMMA NoPolicyMovesNoBooks ==
  ASSUME BooksInv, Inv', policy' = policy, total_coverage' = total_coverage,
         total_claims_paid' = total_claims_paid,
         total_premiums_collected' = total_premiums_collected
  PROVE  BooksInv'
BY DEF BooksInv, BooksMatchPolicies, PaidOnlyOnce, Live

LEMMA BooksStep ==
  ASSUME BooksInv, [Next]_vars
  PROVE  BooksInv'
<1>1. Inv' /\ Inv
  BY StepInv DEF BooksInv
<1>2. /\ policy \in [Policies -> InsurancePolicy] /\ total_coverage \in Nat
      /\ total_claims_paid \in Nat /\ total_premiums_collected \in Nat
      /\ policy' \in [Policies -> InsurancePolicy]
  BY <1>1 DEF Inv, TypeOK
<1>3. CASE Tick
  BY <1>1, <1>3, NoPolicyMovesNoBooks DEF Tick
<1>4. ASSUME NEW s \in Stakers, StakerStep(s) PROVE BooksInv'
  BY <1>1, <1>4, NoPolicyMovesNoBooks
  DEF StakerStep, Stake, RequestUnstake, ExecuteUnstake, ClaimRewards
<1>5. ASSUME NEW p \in Policies, PolicyStep(p) PROVE BooksInv'
  <2>1. ASSUME NEW r \in InsurancePolicy, policy' = [policy EXCEPT ![p] = r],
               policy[p].state \in {Active, Pending}, r.state \in {Cancelled, Expired},
               r.payout_amount = policy[p].payout_amount,
               r.premium_paid = policy[p].premium_paid,
               ReleaseCoverage(p), total_claims_paid' = total_claims_paid,
               total_premiums_collected' = total_premiums_collected
        PROVE  BooksInv'
    <3>1. Covered(policy[p]) = policy[p].coverage_amount /\ Covered(r) = 0
      BY <2>1 DEF Covered, Active, Pending, Cancelled, Expired
    <3>2. r.payout_amount = 0
      BY <2>1 DEF BooksInv, PaidOnlyOnce, Active, Pending, Paid
    <3>3. policy[p].coverage_amount \in Nat /\ policy[p].premium_paid \in Nat
      BY <1>2 DEF InsurancePolicy
    <3>4. /\ total_coverage' = total_coverage - Covered(policy[p]) + Covered(r)
          /\ total_claims_paid'
               = total_claims_paid - policy[p].payout_amount + r.payout_amount
          /\ total_premiums_collected'
               = total_premiums_collected - policy[p].premium_paid + r.premium_paid
          /\ r.state # Paid => r.payout_amount = 0
      BY <1>2, <2>1, <3>1, <3>2, <3>3 DEF ReleaseCoverage
    <3> QED
      BY <1>1, <2>1, <3>4, OnePolicyMovesBooks
  <2>2. CASE CancelPolicy(p)
    <3> DEFINE r == [policy[p] EXCEPT !.state = Cancelled]
    <3>1. /\ policy' = [policy EXCEPT ![p] = r] /\ policy[p].state = Active
          /\ ReleaseCoverage(p) /\ total_claims_paid' = total_claims_paid
          /\ total_premiums_collected' = total_premiums_collected
      BY <2>2 DEF CancelPolicy
    <3>2. /\ r \in InsurancePolicy /\ r.state = Cancelled
          /\ r.payout_amount = policy[p].payout_amount
          /\ r.premium_paid = policy[p].premium_paid
      BY <1>2 DEF InsurancePolicy, PolicyStates
    <3> HIDE DEF r
    <3> QED
      BY <2>1, <3>1, <3>2
  <2>3. CASE ExpirePolicy(p)
    <3> DEFINE r == [policy[p] EXCEPT !.state = Expired]
    <3>1. /\ policy' = [policy EXCEPT ![p] = r] /\ policy[p].state \in {Active, Pending}
          /\ ReleaseCoverage(p) /\ total_claims_paid' = total_claims_paid
          /\ total_premiums_collected' = total_premiums_collected
      BY <2>3 DEF ExpirePolicy, Expirable
    <3>2. /\ r \in InsurancePolicy /\ r.state = Expired
          /\ r.payout_amount = policy[p].payout_amount
          /\ r.premium_paid = policy[p].premium_paid
      BY <1>2 DEF InsurancePolicy, PolicyStates
    <3> HIDE DEF r
    <3> QED
      BY <2>1, <3>1, <3>2
  <2>4. ASSUME NEW t \in Triggers, SubmitClaim(p, t) \/ OracleSubmitClaim(p, t)
        PROVE  BooksInv'
    <3> DEFINE r == [policy[p] EXCEPT !.state = Pending, !.trigger_type = t,
                                      !.claim_submitted_at = now]
    <3>1. /\ policy' = [policy EXCEPT ![p] = r] /\ policy[p].state = Active
          /\ total_coverage' = total_coverage
          /\ total_claims_paid' = total_claims_paid
          /\ total_premiums_collected' = total_premiums_collected
      BY <2>4 DEF SubmitClaim, OracleSubmitClaim
    <3>2. /\ r \in InsurancePolicy /\ r.state = Pending
          /\ r.payout_amount = policy[p].payout_amount
          /\ r.premium_paid = policy[p].premium_paid
          /\ r.coverage_amount = policy[p].coverage_amount
          /\ r.coverage_amount \in Nat /\ r.premium_paid \in Nat
      <4>1. now \in Nat
        BY <1>1 DEF Inv, TypeOK
      <4> QED
        BY <1>2, <4>1 DEF InsurancePolicy, PolicyStates
    <3> HIDE DEF r
    <3>3. Covered(policy[p]) = Covered(r) /\ Covered(r) \in Nat
      BY <3>1, <3>2 DEF Covered
    <3>4. r.payout_amount = 0
      BY <3>1, <3>2 DEF BooksInv, PaidOnlyOnce, Active, Paid
    <3>5. /\ total_coverage' = total_coverage - Covered(policy[p]) + Covered(r)
          /\ total_claims_paid'
               = total_claims_paid - policy[p].payout_amount + r.payout_amount
          /\ total_premiums_collected'
               = total_premiums_collected - policy[p].premium_paid + r.premium_paid
          /\ r.state # Paid => r.payout_amount = 0
      BY <1>2, <3>1, <3>2, <3>3, <3>4
    <3> QED
      BY <1>1, <3>1, <3>2, <3>5, OnePolicyMovesBooks
  <2>5. ASSUME NEW amount \in Payouts, PayClaim(p, amount) PROVE BooksInv'
    <3> DEFINE r == [policy[p] EXCEPT !.state = Paid, !.payout_amount = amount]
    <3>1. /\ policy' = [policy EXCEPT ![p] = r] /\ policy[p].state = Pending
          /\ total_coverage' = total_coverage - policy[p].coverage_amount
          /\ total_claims_paid' = total_claims_paid + amount
          /\ total_premiums_collected' = total_premiums_collected
      BY <2>5 DEF PayClaim, ReleaseCoverage
    <3>2. /\ r \in InsurancePolicy /\ r.state = Paid
          /\ r.payout_amount = amount /\ amount \in Nat
          /\ r.premium_paid = policy[p].premium_paid
          /\ policy[p].coverage_amount \in Nat /\ r.premium_paid \in Nat
      <4>1. amount \in Nat
        BY VaultAssumption
      <4> QED
        BY <1>2, <4>1 DEF InsurancePolicy, PolicyStates
    <3> HIDE DEF r
    <3>3. Covered(policy[p]) = policy[p].coverage_amount /\ Covered(r) = 0
      BY <3>1, <3>2 DEF Covered, Active, Pending, Paid
    <3>4. policy[p].payout_amount = 0
      BY <3>1 DEF BooksInv, PaidOnlyOnce, Pending, Paid
    <3>5. /\ total_coverage' = total_coverage - Covered(policy[p]) + Covered(r)
          /\ total_claims_paid'
               = total_claims_paid - policy[p].payout_amount + r.payout_amount
          /\ total_premiums_collected'
               = total_premiums_collected - policy[p].premium_paid + r.premium_paid
          /\ r.state # Paid => r.payout_amount = 0
      BY <1>2, <3>1, <3>2, <3>3, <3>4
    <3> QED
      BY <1>1, <3>1, <3>2, <3>5, OnePolicyMovesBooks
  <2> QED
    BY <1>5, <2>2, <2>3, <2>4, <2>5 DEF PolicyStep
<1>6. ASSUME NEW tier \in Tiers, NEW c \in Coverages, NEW d \in Durations,
             NEW f \in FlatPremiums, CreatePolicy(tier, c, d, f)
      PROVE  BooksInv'
  <2> DEFINE p == policy_counter
             premium == Premium(tier, c, d, f)
             r == [state |-> Active, coverage_amount |-> c,
                   premium_paid |-> premium, start_time |-> now,
                   expiry_time |-> now + d, claim_submitted_at |-> 0,
                   trigger_type |-> "none", payout_amount |-> 0]
  <2>1. /\ policy' = [policy EXCEPT ![p] = r] /\ p < MaxPolicies
        /\ total_coverage' = total_coverage + c
        /\ total_claims_paid' = total_claims_paid
        /\ total_premiums_collected' = total_premiums_collected + premium
    BY <1>6 DEF CreatePolicy
  <2>2. p \in Policies /\ policy[p] = NoPolicy
    <3>1. p \in Policies
      BY <1>1, <2>1, VaultAssumption DEF Inv, TypeOK, Policies
    <3> QED
      BY <1>1, <3>1 DEF Inv, TermsSound, TypeOK
  <2>3. premium \in Nat /\ c \in Nat
    BY <1>1, PremiumTyped, VaultAssumption DEF Inv
  <2> HIDE DEF p, premium
  <2>4. r \in InsurancePolicy
    <3>1. policy'[p] = r
      BY <1>2, <2>1, <2>2
    <3> QED
      BY <1>2, <2>2, <3>1
  <2>5. /\ Covered(policy[p]) = 0 /\ policy[p].payout_amount = 0
        /\ policy[p].premium_paid = 0
        /\ Covered(r) = c /\ r.payout_amount = 0 /\ r.premium_paid = premium
    BY <2>2 DEF Covered, NoPolicy, Unopened, Active, Pending
  <2> HIDE DEF r
  <2>6. /\ total_coverage' = total_coverage - Covered(policy[p]) + Covered(r)
        /\ total_claims_paid'
             = total_claims_paid - policy[p].payout_amount + r.payout_amount
        /\ total_premiums_collected'
             = total_premiums_collected - policy[p].premium_paid + r.premium_paid
        /\ r.state # Paid => r.payout_amount = 0
    BY <1>2, <2>1, <2>3, <2>5
  <2> QED
    BY <1>1, <2>1, <2>2, <2>4, <2>6, OnePolicyMovesBooks
<1>7. ASSUME NEW b \in BOOLEAN, NEW m \in Multipliers, UpdateConfig(b, m)
      PROVE  BooksInv'
  BY <1>1, <1>7, NoPolicyMovesNoBooks DEF UpdateConfig
<1>8. CASE UNCHANGED vars
  BY <1>1, <1>8, NoPolicyMovesNoBooks DEF vars
<1> QED
  BY <1>3, <1>4, <1>5, <1>6, <1>7, <1>8 DEF Next

LEMMA BooksInit ==
  ASSUME Init
  PROVE  BooksInv
<1>1. \A q \in Policies : policy[q] = NoPolicy
  BY DEF Init
<1> DEFINE cover == [q \in Policies |-> IF Live(q) THEN policy[q].coverage_amount ELSE 0]
           paid == [q \in Policies |-> policy[q].payout_amount]
           premium == [q \in Policies |-> policy[q].premium_paid]
<1>2. /\ cover \in [Policies -> Int] /\ paid \in [Policies -> Int]
      /\ premium \in [Policies -> Int]
      /\ \A q \in Policies : cover[q] = 0 /\ paid[q] = 0 /\ premium[q] = 0
  BY <1>1 DEF NoPolicy, Live, Unopened, Active, Pending
<1>3. SumFunction(cover) = 0 /\ SumFunction(paid) = 0 /\ SumFunction(premium) = 0
  <2> HIDE DEF cover, paid, premium
  <2> QED
    BY <1>2, PoliciesFinite, SumZero
<1>4. BooksMatchPolicies
  BY <1>3 DEF Init, BooksMatchPolicies
<1>5. PaidOnlyOnce
  BY <1>1 DEF PaidOnlyOnce, NoPolicy
<1> QED
  BY <1>4, <1>5, InitInv DEF BooksInv

\* Coverage, payouts and premiums in the vault are those of its policies, for
\* any number of policies closed in any of the four ways.
THEOREM BooksAlwaysMatch == Spec => []BooksMatchPolicies
<1>1. Init => BooksInv
  BY BooksInit
<1>2. BooksInv /\ [Next]_vars => BooksInv'
  BY BooksStep
<1>3. BooksInv => BooksMatchPolicies
  BY DEF BooksInv
<1> QED
  BY <1>1, <1>2, <1>3, PTL DEF Spec

-----------------------------------------------------------------------------
\* What the index leaves a staker is never more than what was staked.
LEMMA LiveAtMostStaked ==
  ASSUME TypeOK, SnapshotsBehind, NEW s \in Stakers
  PROVE  /\ LivePrincipal(position[s]) \in Nat
         /\ LivePrincipal(position[s]) <= position[s].amount_staked
<1> DEFINE a == position[s].amount_staked
           snap == position[s].loss_index_snapshot
<1>1. a \in Nat /\ snap \in Nat /\ loss_index \in Nat
  BY DEF TypeOK, StakerPosition
<1>2. CASE snap = 0 \/ a = 0
  BY <1>1, <1>2 DEF LivePrincipal
<1>3. CASE snap # 0 /\ a # 0
  <2>1. snap \in Nat \ {0} /\ loss_index <= snap
    BY <1>1, <1>3 DEF SnapshotsBehind
  <2>2. (a * loss_index) \div snap \in Nat /\ (a * loss_index) \div snap <= a
    BY <1>1, <2>1, MulDiv, DivNat, MulNat
  <2> QED  BY <1>3, <2>2 DEF LivePrincipal
<1> QED  BY <1>2, <1>3

\* Rounding the exit floor up pays for rounding the ratio down.
LEMMA FloorKeepsTheLine ==
  ASSUME NEW staked \in Nat, NEW coverage \in Nat,
         CeilDiv(coverage * SOLVENCY_CRITICAL, BPS) <= staked
  PROVE  SolvencyRatio(staked, coverage) >= SOLVENCY_CRITICAL
<1>1. /\ BPS \in Nat \ {0} /\ SOLVENCY_CRITICAL \in Nat /\ RATIO_MAX \in Nat
      /\ SOLVENCY_CRITICAL <= RATIO_MAX
  BY VaultAssumption
<1>2. CASE coverage = 0  BY <1>1, <1>2 DEF SolvencyRatio
<1>3. CASE coverage # 0
  <2> DEFINE due == coverage * SOLVENCY_CRITICAL
  <2>1. due \in Nat  BY <1>1, MulNat
  <2>2. due <= BPS * CeilDiv(due, BPS)
    <3> HIDE DEF due
    <3>1. due + BPS - 1 \in Nat  BY <1>1, <2>1
    <3>2. due + BPS - 1 < BPS * ((due + BPS - 1) \div BPS) + BPS
      BY <1>1, <3>1
    <3> QED  BY <1>1, <2>1, <3>2, DivNat, MulNat DEF CeilDiv
  <2>3. BPS * CeilDiv(due, BPS) <= BPS * staked
    <3>1. CeilDiv(due, BPS) \in Nat
      BY <1>1, <2>1, DivNat DEF CeilDiv
    <3> QED  BY <1>1, <3>1
  <2>4. due <= staked * BPS
    BY <1>1, <2>1, <2>2, <2>3, DivNat, MulNat DEF CeilDiv
  <2>5. due \div coverage <= (staked * BPS) \div coverage
    BY <1>1, <1>3, <2>1, <2>4, DivMono, MulNat
  <2>6. due \div coverage = SOLVENCY_CRITICAL
    BY <1>1, <1>3, DivMul
  <2>7. (staked * BPS) \div coverage \in Nat
    BY <1>1, <1>3, DivNat, MulNat
  <2> QED  BY <1>1, <1>3, <2>5, <2>6, <2>7 DEF SolvencyRatio, Lesser
<1> QED  BY <1>2, <1>3

LEMMA ExitStep ==
  ASSUME Inv, NEW s \in Stakers, ExecuteUnstake(s)
  PROVE  solvency_ratio' >= SOLVENCY_CRITICAL
<1> DEFINE amount == Lesser(Minus(total_staked, ReserveRequired),
                            Touched(s).amount_staked)
<1>1. /\ amount > 0 /\ total_staked' = total_staked - amount
      /\ total_coverage' = total_coverage
      /\ solvency_ratio' = SolvencyRatio(total_staked', total_coverage')
  BY DEF ExecuteUnstake, RecalculateSolvency
<1>2. Touched(s).amount_staked \in Nat
  BY TouchedTyped DEF Inv, StakerPosition
<1>3. total_staked \in Nat /\ total_coverage \in Nat  BY DEF Inv, TypeOK
<1>4. ReserveRequired \in Nat
  <2>1. total_coverage * SOLVENCY_CRITICAL + BPS - 1 \in Nat
    BY <1>3, MulNat, VaultAssumption
  <2> QED  BY <2>1, DivNat, VaultAssumption DEF ReserveRequired, CeilDiv
<1>5. ReserveRequired <= total_staked - amount /\ total_staked - amount \in Nat
  BY <1>1, <1>2, <1>3, <1>4 DEF Lesser, Minus
<1> HIDE DEF amount
<1> QED  BY <1>1, <1>3, <1>5, FloorKeepsTheLine DEF ReserveRequired

\* A staker instruction writes only the caller's position, and only an exit
\* takes principal out of it.
LEMMA OtherStepsKeep ==
  ASSUME Inv, NEW t \in Stakers, NEW s \in Stakers,
         \/ \E amount \in StakeAmounts : Stake(t, amount)
         \/ RequestUnstake(t)
         \/ ClaimRewards(t)
         \/ ExecuteUnstake(t) /\ s # t
  PROVE  position'[s].amount_staked >= LivePrincipal(position[s])
<1>1. /\ LivePrincipal(position[s]) \in Nat
      /\ LivePrincipal(position[s]) <= position[s].amount_staked
  BY LiveAtMostStaked DEF Inv
<1>2. position[s].amount_staked \in Nat  BY DEF Inv, TypeOK, StakerPosition
<1>3. CASE s # t
  <2>1. position'[s] = position[s]
    BY <1>3 DEF Stake, RequestUnstake, ClaimRewards, ExecuteUnstake, Inv, TypeOK
  <2> QED  BY <1>1, <1>2, <2>1
<1>4. CASE s = t
  <2> DEFINE pos == Touched(s)
  <2>1. pos \in StakerPosition /\ pos.amount_staked = LivePrincipal(position[s])
    BY TouchedTyped DEF Inv
  <2>2. ASSUME NEW amount \in StakeAmounts, Stake(s, amount)
        PROVE  position'[s].amount_staked >= LivePrincipal(position[s])
    <3> DEFINE sum == pos.amount_staked + amount
    <3>1. position'[s] = [pos EXCEPT !.amount_staked = sum, !.deposited = TRUE]
      BY <2>2 DEF Stake, Inv, TypeOK
    <3>2. amount \in Nat  BY VaultAssumption
    <3> HIDE DEF pos
    <3>3. sum >= LivePrincipal(position[s])  BY <1>1, <2>1, <3>2
    <3> HIDE DEF sum
    <3>4. position'[s].amount_staked = sum  BY <2>1, <3>1 DEF StakerPosition
    <3> QED  BY <3>3, <3>4
  <2>3. ASSUME RequestUnstake(s)
        PROVE  position'[s].amount_staked >= LivePrincipal(position[s])
    <3>1. position'[s].amount_staked = position[s].amount_staked
      BY <2>3 DEF RequestUnstake, Inv, TypeOK, StakerPosition
    <3> QED  BY <1>1, <1>2, <3>1
  <2>4. ASSUME ClaimRewards(s)
        PROVE  position'[s].amount_staked >= LivePrincipal(position[s])
    <3> DEFINE claimed == pos.rewards_claimed + pos.rewards_pending
    <3>1. position'[s] =
            [pos EXCEPT !.rewards_claimed = claimed, !.rewards_pending = 0]
      BY <2>4 DEF ClaimRewards, Inv, TypeOK
    <3> HIDE DEF pos, claimed
    <3>2. position'[s].amount_staked = pos.amount_staked
      BY <2>1, <3>1 DEF StakerPosition
    <3> QED  BY <1>1, <2>1, <3>2
  <2> QED  BY <1>4, <2>2, <2>3, <2>4
<1> QED  BY <1>3, <1>4

\* No instruction but a staker's own touches a position.
LEMMA OnlyStakersMove ==
  ASSUME [Next]_vars, position' # position
  PROVE  \E t \in Stakers : StakerStep(t)
<1>1. ~Tick  BY DEF Tick
<1>2. ASSUME NEW p \in Policies, PolicyStep(p)  PROVE FALSE
  <2>1. ~CancelPolicy(p)  BY DEF CancelPolicy
  <2>2. ~ExpirePolicy(p)  BY DEF ExpirePolicy
  <2>3. ASSUME NEW t \in Triggers, SubmitClaim(p, t)  PROVE FALSE
    BY <2>3 DEF SubmitClaim
  <2>4. ASSUME NEW amount \in Payouts, PayClaim(p, amount)  PROVE FALSE
    BY <2>4 DEF PayClaim
  <2> QED  BY <1>2, <2>1, <2>2, <2>3, <2>4 DEF PolicyStep, OracleSubmitClaim
<1>3. ASSUME NEW tier \in Tiers, NEW c \in Coverages, NEW d \in Durations,
             NEW f \in FlatPremiums, CreatePolicy(tier, c, d, f)
      PROVE  FALSE
  BY <1>3 DEF CreatePolicy
<1>4. ASSUME NEW b \in BOOLEAN, NEW m \in Multipliers, UpdateConfig(b, m)
      PROVE  FALSE
  BY <1>4 DEF UpdateConfig
<1>5. vars' # vars  BY DEF vars
<1> QED  BY <1>1, <1>2, <1>3, <1>4, <1>5 DEF Next

LEMMA ExitHonoursStep ==
  ASSUME Inv, [Next]_vars, NEW s \in Stakers,
         position'[s].amount_staked < LivePrincipal(position[s])
  PROVE  solvency_ratio' >= SOLVENCY_CRITICAL
<1>1. /\ LivePrincipal(position[s]) \in Nat
      /\ LivePrincipal(position[s]) <= position[s].amount_staked
      /\ position[s].amount_staked \in Nat
  BY LiveAtMostStaked DEF Inv, TypeOK, StakerPosition
<1>2. position' # position  BY <1>1
<1>3. PICK t \in Stakers : StakerStep(t)
  BY <1>2, OnlyStakersMove
<1>4. ~(position'[s].amount_staked >= LivePrincipal(position[s]))
  <2>1. CASE position'[s].amount_staked \in Nat  BY <1>1, <2>1
  <2>2. position' \in [Stakers -> StakerPosition]
    BY StepInv DEF Inv, TypeOK
  <2> QED  BY <2>1, <2>2 DEF StakerPosition
<1>5. ExecuteUnstake(t) /\ s = t
  BY <1>3, <1>4, OtherStepsKeep DEF StakerStep
<1> QED  BY <1>5, ExitStep

\* Exits and issuance honour the same line: while principal leaves with a
\* staker, the pool never falls under the ratio at which it stops selling.
THEOREM ExitsHonourIssuanceLine == Spec => ExitHonoursIssuanceLine
<1>1. Inv /\ [Next]_vars =>
        [(\E s \in Stakers :
            position'[s].amount_staked < LivePrincipal(position[s]))
           => solvency_ratio' >= SOLVENCY_CRITICAL]_vars
  BY ExitHonoursStep
<1> QED  BY <1>1, Invariance, PTL DEF Spec, ExitHonoursIssuanceLine

-----------------------------------------------------------------------------
\* What a loss leaves of one position, against what it leaves of the pool.
LEMMA LossShared ==
  ASSUME NEW a \in Nat, NEW snap \in Nat \ {0}, NEW index \in Nat \ {0},
         NEW before \in Nat \ {0}, NEW after \in Nat \ {0}
  PROVE  ((a * ((index * after) \div before)) \div snap) * before
           < ((a * index) \div snap + 1) * after
<1> DEFINE scaled == (index * after) \div before
           old    == (a * index) \div snap
           new    == (a * scaled) \div snap
<1>1. scaled \in Nat /\ before * scaled <= index * after
  BY DivNat, DivBelow, MulNat
<1>2. new \in Nat /\ snap * new <= a * scaled
  BY <1>1, DivNat, DivBelow, MulNat
<1>3. old \in Nat /\ a * index < snap * (old + 1)
  <2> DEFINE x == a * index
  <2>1. x \in Nat  BY MulNat
  <2> HIDE DEF x
  <2>2. x \div snap \in Nat /\ x < snap * ((x \div snap) + 1)
    BY <2>1
  <2> QED  BY <2>2 DEF x
<1> HIDE DEF scaled, old, new
<1>4. snap * (new * before) <= a * (index * after)
  <2>1. (snap * new) * before <= (a * scaled) * before
    BY <1>1, <1>2, MulMono, MulNat
  <2>2. a * (before * scaled) <= a * (index * after)
    <3>1. before * scaled \in Nat /\ index * after \in Nat
      BY <1>1, MulNat
    <3> DEFINE x == before * scaled
               y == index * after
    <3> HIDE DEF x, y
    <3>2. x \in Nat /\ y \in Nat /\ x <= y  BY <1>1, <3>1 DEF x, y
    <3>3. x * a <= y * a  BY <3>2, MulMono
    <3>4. x * a = a * x /\ y * a = a * y  BY <3>2
    <3> QED  BY <3>3, <3>4 DEF x, y
  <2>3. /\ (snap * new) * before = snap * (new * before)
        /\ (a * scaled) * before = a * (before * scaled)
    BY <1>1, <1>2
  <2> QED  BY <2>1, <2>2, <2>3, <1>1, <1>2
<1>5. a * (index * after) < snap * ((old + 1) * after)
  <2>1. (a * index) * after < (snap * (old + 1)) * after
    <3> DEFINE x == a * index
               y == snap * (old + 1)
    <3>1. x \in Nat /\ y \in Nat /\ x < y  BY <1>3
    <3> HIDE DEF x, y
    <3>2. x * after < y * after  BY <3>1
    <3> QED  BY <3>2 DEF x, y
  <2>2. /\ (a * index) * after = a * (index * after)
        /\ (snap * (old + 1)) * after = snap * ((old + 1) * after)
    BY <1>3
  <2> QED  BY <2>1, <2>2
<1>6. new * before < (old + 1) * after
  <2> DEFINE x == new * before
             y == (old + 1) * after
             z == a * (index * after)
  <2>1. x \in Nat /\ y \in Nat /\ z \in Nat  BY <1>2, <1>3
  <2>2. snap * x <= z /\ z < snap * y  BY <1>4, <1>5
  <2> HIDE DEF x, y, z
  <2>3. snap * x < snap * y  BY <2>1, <2>2
  <2>4. x < y  BY <2>1, <2>3
  <2> QED  BY <2>4 DEF x, y
<1> QED  BY <1>6 DEF scaled, old, new

\* The index moves only when a payout or a refund is absorbed.
LEMMA OnlyLossesMoveIndex ==
  ASSUME [Next]_vars, loss_index' # loss_index
  PROVE  \E p \in Policies :
           \/ CancelPolicy(p)
           \/ \E amount \in Payouts : PayClaim(p, amount)
<1>1. ~Tick  BY DEF Tick, poolVars
<1>2. ASSUME NEW s \in Stakers, StakerStep(s)  PROVE FALSE
  <2>1. ASSUME NEW amount \in StakeAmounts, Stake(s, amount)  PROVE FALSE
    BY <2>1 DEF Stake
  <2>2. ~RequestUnstake(s)  BY DEF RequestUnstake, poolVars
  <2>3. ~ExecuteUnstake(s)  BY DEF ExecuteUnstake
  <2>4. ~ClaimRewards(s)  BY DEF ClaimRewards, poolVars
  <2> QED  BY <1>2, <2>1, <2>2, <2>3, <2>4 DEF StakerStep
<1>3. ASSUME NEW tier \in Tiers, NEW c \in Coverages, NEW d \in Durations,
             NEW f \in FlatPremiums, CreatePolicy(tier, c, d, f)
      PROVE  FALSE
  BY <1>3 DEF CreatePolicy
<1>4. ASSUME NEW b \in BOOLEAN, NEW m \in Multipliers, UpdateConfig(b, m)
      PROVE  FALSE
  BY <1>4 DEF UpdateConfig, poolVars
<1>5. vars' # vars  BY DEF vars
<1>6. ASSUME NEW p \in Policies, PolicyStep(p)
      PROVE  CancelPolicy(p) \/ \E amount \in Payouts : PayClaim(p, amount)
  <2>1. ~ExpirePolicy(p)  BY DEF ExpirePolicy, poolVars
  <2>2. ASSUME NEW t \in Triggers, SubmitClaim(p, t)  PROVE FALSE
    BY <2>2 DEF SubmitClaim, poolVars
  <2> QED  BY <1>6, <2>1, <2>2 DEF PolicyStep, OracleSubmitClaim
<1> QED  BY <1>1, <1>2, <1>3, <1>4, <1>5, <1>6 DEF Next

LEMMA AbsorbLossShares ==
  ASSUME Inv, NEW loss \in Nat, AbsorbLoss(loss), position' = position,
         loss_index' < loss_index, loss_index' > 1, NEW s \in Stakers
  PROVE  LivePrincipal(position[s])' * total_staked
           < (LivePrincipal(position[s]) + 1) * total_staked'
<1> DEFINE a     == position[s].amount_staked
           snap  == position[s].loss_index_snapshot
           leg   == StakedLeg(loss)
           after == total_staked - leg
<1>1. /\ a \in Nat /\ snap \in Nat /\ loss_index \in Nat \ {0}
      /\ total_staked \in Nat
      /\ a > 0 => snap >= loss_index
  BY DEF Inv, TypeOK, StakerPosition, SnapshotsBehind
<1>2. leg \in Nat /\ leg <= total_staked /\ leg # 0
  BY DEF AbsorbLoss, StakedLeg, Minus, Inv, TypeOK
<1>3. total_staked' = after /\ loss_index' = ScaledIndex(total_staked, after)
  BY <1>2 DEF AbsorbLoss
<1> HIDE DEF leg
<1>4. total_staked \in Nat \ {0} /\ after \in Nat  BY <1>1, <1>2
<1>5. after # 0
  <2>1. CASE after = 0
    <3>1. loss_index * after = 0  BY <1>1, <2>1
    <3>2. (loss_index * after) \div total_staked = 0  BY <1>4, <3>1
    <3>3. loss_index' = 1  BY <1>3, <3>2 DEF ScaledIndex, Greater
    <3> QED  BY <3>3
  <2> QED  BY <2>1
<1> HIDE DEF after
<1>6. loss_index' = (loss_index * after) \div total_staked
  <2>1. (loss_index * after) \div total_staked \in Nat
    BY <1>1, <1>4, DivNat, MulNat
  <2> QED  BY <1>3, <2>1 DEF ScaledIndex, Greater
<1>7. CASE a = 0
  <2>1. LivePrincipal(position[s]) = 0 /\ LivePrincipal(position[s])' = 0
    BY <1>7 DEF LivePrincipal
  <2> QED  BY <1>3, <1>4, <1>5, <2>1
<1>8. CASE a # 0
  <2>1. snap \in Nat \ {0}  BY <1>1, <1>8
  <2>2. LivePrincipal(position[s]) = (a * loss_index) \div snap
    BY <1>8, <2>1 DEF LivePrincipal
  <2>3. LivePrincipal(position[s])'
          = (a * ((loss_index * after) \div total_staked)) \div snap
    BY <1>6, <1>8, <2>1 DEF LivePrincipal
  <2> HIDE DEF a, snap
  <2> QED
    BY <1>1, <1>3, <1>4, <1>5, <2>1, <2>2, <2>3, LossShared
<1> QED  BY <1>7, <1>8

LEMMA LossIsSharedStep ==
  ASSUME Inv, [Next]_vars, loss_index' < loss_index, loss_index' > 1,
         NEW s \in Stakers
  PROVE  LivePrincipal(position[s])' * total_staked
           < (LivePrincipal(position[s]) + 1) * total_staked'
<1>1. loss_index' # loss_index
  BY DEF Inv, TypeOK
<1>2. PICK p \in Policies : \/ CancelPolicy(p)
                            \/ \E amount \in Payouts : PayClaim(p, amount)
  BY <1>1, OnlyLossesMoveIndex
<1>3. CASE CancelPolicy(p)
  <2>1. Refund(p) \in Nat
    BY <1>3, RefundTyped DEF CancelPolicy, Inv
  <2> QED  BY <1>3, <2>1, AbsorbLossShares DEF CancelPolicy
<1>4. ASSUME NEW amount \in Payouts, PayClaim(p, amount)
      PROVE  LivePrincipal(position[s])' * total_staked
               < (LivePrincipal(position[s]) + 1) * total_staked'
  <2>1. amount \in Nat  BY VaultAssumption
  <2> QED  BY <1>4, <2>1, AbsorbLossShares DEF PayClaim
<1> QED  BY <1>2, <1>3, <1>4

\* A loss costs every staker the share the pool lost, to one unit, at any
\* scale of the index: no position is spared for having been left untouched.
THEOREM LossesAreShared == Spec => LossIsShared
<1>1. Inv /\ [Next]_vars =>
        [loss_index' < loss_index /\ loss_index' > 1 =>
           \A s \in Stakers :
             LivePrincipal(position[s])' * total_staked
               < (LivePrincipal(position[s]) + 1) * total_staked']_vars
  BY LossIsSharedStep
<1> QED  BY <1>1, Invariance, PTL DEF Spec, LossIsShared

-----------------------------------------------------------------------------
(* The pool's policies implement the life cycle of PolicyLifecycle. *)

\* Closing a policy, by whatever instruction, changes its phase only.
LEMMA PhaseMoved ==
  ASSUME TypeOK, NEW p \in Policies, NEW st \in PolicyStates,
         policy' = [policy EXCEPT ![p].state = st]
  PROVE  /\ [q \in Policies |-> policy'[q].state]
               = [[q \in Policies |-> policy[q].state] EXCEPT ![p] = st]
         /\ [q \in Policies |-> policy'[q].coverage_amount]
               = [q \in Policies |-> policy[q].coverage_amount]
         /\ [q \in Policies |-> policy'[q].expiry_time]
               = [q \in Policies |-> policy[q].expiry_time]
         /\ [q \in Policies |-> [at |-> policy'[q].claim_submitted_at,
                                 trigger |-> policy'[q].trigger_type]]
               = [q \in Policies |-> [at |-> policy[q].claim_submitted_at,
                                     trigger |-> policy[q].trigger_type]]
         /\ [q \in Policies |-> policy'[q].payout_amount]
               = [q \in Policies |-> policy[q].payout_amount]
BY DEF TypeOK, InsurancePolicy

LEMMA CancelMaps ==
  ASSUME Inv, NEW p \in Policies, CancelPolicy(p)
  PROVE  Lifecycle!Withdraw(p)
<1>1. /\ policy[p].state = Active /\ now < policy[p].expiry_time
      /\ policy' = [policy EXCEPT ![p].state = Cancelled] /\ now' = now
  BY DEF CancelPolicy, clockVars
<1>2. Cancelled \in PolicyStates  BY DEF PolicyStates
<1> QED
  BY <1>1, <1>2, PhaseMoved
  DEF Inv, Lifecycle!Withdraw, Lifecycle!Active, Lifecycle!Cancelled,
      Active, Cancelled

LEMMA ExpireMaps ==
  ASSUME Inv, NEW p \in Policies, ExpirePolicy(p)
  PROVE  Lifecycle!Lapse(p)
<1>1. /\ now >= policy[p].expiry_time
      /\ \/ policy[p].state = Active
         \/ /\ policy[p].state = Pending
            /\ now >= LockEnd(p) + CLAIM_RESOLUTION_GRACE
      /\ policy' = [policy EXCEPT ![p].state = Expired] /\ now' = now
  BY DEF ExpirePolicy, Expirable, clockVars
<1>2. Expired \in PolicyStates  BY DEF PolicyStates
<1> QED
  BY <1>1, <1>2, PhaseMoved
  DEF Inv, Lifecycle!Lapse, Lifecycle!LockEnd, LockEnd, Lifecycle!Active,
      Lifecycle!Pending, Lifecycle!Expired, Active, Pending, Expired

LEMMA PayMaps ==
  ASSUME Inv, NEW p \in Policies, NEW amount \in Payouts, PayClaim(p, amount)
  PROVE  Lifecycle!Settle(p)
<1>1. /\ policy[p].state = Pending /\ now >= LockEnd(p) /\ now' = now
      /\ amount \in 1..policy[p].coverage_amount
      /\ policy' = [policy EXCEPT ![p].state = Paid, ![p].payout_amount = amount]
  BY DEF PayClaim, clockVars
<1>2. /\ [q \in Policies |-> policy'[q].state]
            = [[q \in Policies |-> policy[q].state] EXCEPT ![p] = Paid]
      /\ [q \in Policies |-> policy'[q].payout_amount]
            = [[q \in Policies |-> policy[q].payout_amount] EXCEPT ![p] = amount]
      /\ [q \in Policies |-> policy'[q].coverage_amount]
            = [q \in Policies |-> policy[q].coverage_amount]
      /\ [q \in Policies |-> policy'[q].expiry_time]
            = [q \in Policies |-> policy[q].expiry_time]
      /\ [q \in Policies |-> [at |-> policy'[q].claim_submitted_at,
                              trigger |-> policy'[q].trigger_type]]
            = [q \in Policies |-> [at |-> policy[q].claim_submitted_at,
                                  trigger |-> policy[q].trigger_type]]
  BY <1>1 DEF Inv, TypeOK, InsurancePolicy
<1> QED
  BY <1>1, <1>2
  DEF Lifecycle!Settle, Lifecycle!LockEnd, LockEnd, Lifecycle!Pending,
      Lifecycle!Paid, Pending, Paid

LEMMA SubmitMaps ==
  ASSUME Inv, NEW p \in Policies, NEW t \in Triggers, SubmitClaim(p, t)
  PROVE  Lifecycle!File(p)
<1>1. /\ policy[p].state = Active /\ now < policy[p].expiry_time /\ now' = now
      /\ policy' = [policy EXCEPT ![p].state = Pending,
                                  ![p].trigger_type = t,
                                  ![p].claim_submitted_at = now]
  BY DEF SubmitClaim, clockVars
<1>2. /\ [q \in Policies |-> policy'[q].state]
            = [[q \in Policies |-> policy[q].state] EXCEPT ![p] = Pending]
      /\ [q \in Policies |-> [at |-> policy'[q].claim_submitted_at,
                              trigger |-> policy'[q].trigger_type]]
            = [[q \in Policies |-> [at |-> policy[q].claim_submitted_at,
                                   trigger |-> policy[q].trigger_type]]
                 EXCEPT ![p] = [at |-> now, trigger |-> t]]
      /\ [q \in Policies |-> policy'[q].coverage_amount]
            = [q \in Policies |-> policy[q].coverage_amount]
      /\ [q \in Policies |-> policy'[q].expiry_time]
            = [q \in Policies |-> policy[q].expiry_time]
      /\ [q \in Policies |-> policy'[q].payout_amount]
            = [q \in Policies |-> policy[q].payout_amount]
  BY <1>1 DEF Inv, TypeOK, InsurancePolicy
<1> QED
  BY <1>1, <1>2
  DEF Lifecycle!File, Lifecycle!Active, Lifecycle!Pending, Active, Pending

LEMMA CreateMaps ==
  ASSUME Inv, NEW tier \in Tiers, NEW coverage \in Coverages,
         NEW duration \in Durations, NEW flat \in FlatPremiums,
         CreatePolicy(tier, coverage, duration, flat),
         NEW p \in Policies, p = policy_counter
  PROVE  Lifecycle!Open(p)
<1> DEFINE new == policy'[p]
<1>1. now' = now  BY DEF CreatePolicy, clockVars
<1>2. policy[p] = NoPolicy
  BY DEF Inv, TypeOK, TermsSound, Policies
<1>3. /\ policy' = [policy EXCEPT ![p] = new]
      /\ new.state = Active /\ new.coverage_amount = coverage
      /\ new.expiry_time = now + duration
      /\ new.claim_submitted_at = 0 /\ new.trigger_type = "none"
      /\ new.payout_amount = 0
  BY DEF CreatePolicy, Inv, TypeOK
<1>4. /\ coverage \in Nat \ {0} /\ now + duration > now
  BY VaultAssumption DEF Inv, TypeOK
<1>5. \A q \in Policies : q # p => policy'[q] = policy[q]
  BY <1>3 DEF Inv, TypeOK
<1>6. /\ NoPolicy.claim_submitted_at = 0 /\ NoPolicy.trigger_type = "none"
      /\ NoPolicy.payout_amount = 0 /\ NoPolicy.state = Unopened
  BY DEF NoPolicy
<1>7. [q \in Policies |-> policy'[q].state]
        = [[q \in Policies |-> policy[q].state] EXCEPT ![p] = Active]
  BY <1>3, <1>5
<1>8. [q \in Policies |-> policy'[q].coverage_amount]
        = [[q \in Policies |-> policy[q].coverage_amount] EXCEPT ![p] = coverage]
  BY <1>3, <1>5
<1>9. [q \in Policies |-> policy'[q].expiry_time]
        = [[q \in Policies |-> policy[q].expiry_time] EXCEPT ![p] = now + duration]
  BY <1>3, <1>5
<1>10. /\ [q \in Policies |-> [at |-> policy'[q].claim_submitted_at,
                               trigger |-> policy'[q].trigger_type]]
             = [q \in Policies |-> [at |-> policy[q].claim_submitted_at,
                                   trigger |-> policy[q].trigger_type]]
       /\ [q \in Policies |-> policy'[q].payout_amount]
             = [q \in Policies |-> policy[q].payout_amount]
  BY <1>2, <1>3, <1>5, <1>6
<1> QED
  BY <1>1, <1>2, <1>3, <1>4, <1>6, <1>7, <1>8, <1>9, <1>10
  DEF Lifecycle!Open, Lifecycle!Unopened, Lifecycle!Active, Active, Unopened

LEMMA PolicyUntouchedMaps ==
  ASSUME policy' = policy, now' = now
  PROVE  UNCHANGED Lifecycle!lifecycleVars
BY DEF Lifecycle!lifecycleVars

LEMMA TickMaps ==
  ASSUME Inv, Tick
  PROVE  Lifecycle!Advance
<1>1. policy' = policy /\ now' \in Nat /\ now' > now
  BY DEF Tick, Inv, TypeOK
<1> QED  BY <1>1 DEF Lifecycle!Advance

LEMMA InitMaps ==
  ASSUME Init
  PROVE  Lifecycle!LifecycleInit
BY DEF Init, NoPolicy, Lifecycle!LifecycleInit, Lifecycle!NoClaim,
   Lifecycle!Unopened, Unopened

LEMMA StepMaps ==
  ASSUME Inv, [Next]_vars
  PROVE  [Lifecycle!LifecycleNext]_(Lifecycle!lifecycleVars)
<1> USE DEF Lifecycle!LifecycleNext
<1>1. CASE Tick  BY <1>1, TickMaps
<1>2. ASSUME NEW s \in Stakers, StakerStep(s)
      PROVE  UNCHANGED Lifecycle!lifecycleVars
  <2>1. ASSUME NEW amount \in StakeAmounts, Stake(s, amount)
        PROVE  policy' = policy /\ now' = now
    BY <2>1 DEF Stake, clockVars
  <2>2. ASSUME RequestUnstake(s)  PROVE policy' = policy /\ now' = now
    BY <2>2 DEF RequestUnstake, clockVars
  <2>3. ASSUME ExecuteUnstake(s)  PROVE policy' = policy /\ now' = now
    BY <2>3 DEF ExecuteUnstake, clockVars
  <2>4. ASSUME ClaimRewards(s)  PROVE policy' = policy /\ now' = now
    BY <2>4 DEF ClaimRewards, clockVars
  <2> QED
    BY <1>2, <2>1, <2>2, <2>3, <2>4, PolicyUntouchedMaps DEF StakerStep
<1>3. ASSUME NEW p \in Policies, PolicyStep(p)
      PROVE  \/ Lifecycle!File(p) \/ Lifecycle!Settle(p)
             \/ Lifecycle!Withdraw(p) \/ Lifecycle!Lapse(p)
  BY <1>3, CancelMaps, ExpireMaps, SubmitMaps, PayMaps
  DEF PolicyStep, OracleSubmitClaim
<1>4. ASSUME NEW tier \in Tiers, NEW c \in Coverages, NEW d \in Durations,
             NEW f \in FlatPremiums, CreatePolicy(tier, c, d, f)
      PROVE  \E p \in Policies : Lifecycle!Open(p)
  <2>1. PICK p \in Policies : p = policy_counter
    BY <1>4, VaultAssumption DEF CreatePolicy, Policies, Inv, TypeOK
  <2> QED  BY <1>4, <2>1, CreateMaps
<1>5. ASSUME NEW b \in BOOLEAN, NEW m \in Multipliers, UpdateConfig(b, m)
      PROVE  UNCHANGED Lifecycle!lifecycleVars
  BY <1>5, PolicyUntouchedMaps DEF UpdateConfig, clockVars
<1>6. CASE UNCHANGED vars
  BY <1>6, PolicyUntouchedMaps DEF vars
<1> QED  BY <1>1, <1>2, <1>3, <1>4, <1>5, <1>6 DEF Next

\* The pool implements the policy life cycle: a policy is paid at most once,
\* never before its lock and never beyond its cover, and a filed claim may be
\* closed unpaid only after its lock and grace.
THEOREM PoolImplementsLifecycle == Spec => ImplementsLifecycle
<1>1. Init => Lifecycle!LifecycleInit  BY InitMaps
<1>2. Inv /\ [Next]_vars => [Lifecycle!LifecycleNext]_(Lifecycle!lifecycleVars)
  BY StepMaps
<1> QED
  BY <1>1, <1>2, Invariance, PTL
  DEF Spec, ImplementsLifecycle, Lifecycle!LifecycleSpec
-----------------------------------------------------------------------------
(* What a step does to one policy's terms. *)

\* A policy is opened, filed on or closed; its terms do not change.
TermsMove(p) ==
  /\ now' >= now
  /\ policy'[p].state \in {Active, Pending} => Live(p)
  /\ policy'[p].state = Active => policy[p].state = Active
  /\ policy'[p].state # Unopened <=> policy[p].state # Unopened
  /\ policy'[p].start_time = policy[p].start_time
  /\ policy'[p].state = Pending =>
       \/ /\ policy[p].state = Pending
          /\ policy'[p].claim_submitted_at = policy[p].claim_submitted_at
       \/ /\ policy[p].state = Active
          /\ policy'[p].claim_submitted_at = now /\ now' = now

LEMMA PolicyKept ==
  ASSUME Inv, policy' = policy, now' \in Nat, now' >= now, NEW p \in Policies
  PROVE  TermsMove(p)
BY DEF TermsMove, Live

LEMMA PolicyClosed ==
  ASSUME Inv, NEW q \in Policies, Live(q), now' = now,
         policy' \in [Policies -> InsurancePolicy],
         policy'[q].state \in {Paid, Expired, Cancelled},
         policy'[q].start_time = policy[q].start_time,
         \A r \in Policies \ {q} : policy'[r] = policy[r],
         NEW p \in Policies
  PROVE  TermsMove(p)
<1>1. now' >= now  BY DEF Inv, TypeOK
<1>2. CASE p = q
  BY <1>1, <1>2
  DEF TermsMove, Live, Active, Pending, Paid, Expired, Cancelled, Unopened
<1>3. CASE p # q  BY <1>1, <1>3 DEF TermsMove, Live
<1> QED  BY <1>2, <1>3

LEMMA CancelTerms ==
  ASSUME Inv, NEW q \in Policies, CancelPolicy(q), NEW p \in Policies
  PROVE  TermsMove(p)
<1>1. policy' = [policy EXCEPT ![q].state = Cancelled] /\ Live(q) /\ now' = now
  BY DEF CancelPolicy, Live, clockVars
<1>2. Inv'  BY CancelPolicyInv
<1> QED  BY <1>1, <1>2, PolicyClosed DEF Inv, TypeOK, InsurancePolicy

LEMMA ExpireTerms ==
  ASSUME Inv, NEW q \in Policies, ExpirePolicy(q), NEW p \in Policies
  PROVE  TermsMove(p)
<1>1. policy' = [policy EXCEPT ![q].state = Expired] /\ Live(q) /\ now' = now
  BY DEF ExpirePolicy, Expirable, Live, clockVars
<1>2. Inv'  BY ExpirePolicyInv
<1> QED  BY <1>1, <1>2, PolicyClosed DEF Inv, TypeOK, InsurancePolicy

LEMMA PayTerms ==
  ASSUME Inv, NEW q \in Policies, NEW amount \in Payouts, PayClaim(q, amount),
         NEW p \in Policies
  PROVE  TermsMove(p)
<1>1. /\ policy' = [policy EXCEPT ![q].state = Paid, ![q].payout_amount = amount]
      /\ Live(q) /\ now' = now
  BY DEF PayClaim, Live, clockVars
<1>2. Inv'  BY PayClaimInv
<1> QED  BY <1>1, <1>2, PolicyClosed DEF Inv, TypeOK, InsurancePolicy

LEMMA SubmitTerms ==
  ASSUME Inv, NEW q \in Policies, NEW t \in Triggers, SubmitClaim(q, t),
         NEW p \in Policies
  PROVE  TermsMove(p)
<1>1. /\ policy[q].state = Active /\ now' = now
      /\ policy' = [policy EXCEPT ![q].state = Pending,
                                  ![q].trigger_type = t,
                                  ![q].claim_submitted_at = now]
  BY DEF SubmitClaim, clockVars
<1>2. now' >= now  BY <1>1 DEF Inv, TypeOK
<1>3. CASE p = q
  <2>1. /\ policy'[p].state = Pending
        /\ policy'[p].claim_submitted_at = now
        /\ policy'[p].start_time = policy[p].start_time
    BY <1>1, <1>3 DEF Inv, TypeOK, InsurancePolicy
  <2> QED
    BY <1>1, <1>2, <1>3, <2>1 DEF TermsMove, Live, Active, Pending, Unopened
<1>4. CASE p # q
  <2>1. policy'[p] = policy[p]  BY <1>1, <1>4 DEF Inv, TypeOK
  <2> QED  BY <1>2, <2>1 DEF TermsMove, Live
<1> QED  BY <1>3, <1>4

\* The instructions that neither sell a policy nor pay one.
SharedStep ==
  \/ Tick
  \/ \E s \in Stakers : StakerStep(s)
  \/ \E p \in Policies :
       \/ CancelPolicy(p)
       \/ ExpirePolicy(p)
       \/ \E t \in Triggers : SubmitClaim(p, t) \/ OracleSubmitClaim(p, t)
  \/ \E b \in BOOLEAN, m \in Multipliers : UpdateConfig(b, m)

LEMMA SharedStepTerms ==
  ASSUME Inv, SharedStep, NEW p \in Policies
  PROVE  TermsMove(p)
<1>1. CASE Tick
  <2>1. policy' = policy /\ now' = now + 1  BY <1>1 DEF Tick
  <2> QED  BY <2>1, PolicyKept DEF Inv, TypeOK
<1>2. ASSUME NEW s \in Stakers, StakerStep(s)  PROVE TermsMove(p)
  <2>1. policy' = policy /\ now' = now
    <3>1. ASSUME NEW amount \in StakeAmounts, Stake(s, amount)
          PROVE  policy' = policy /\ now' = now
      BY <3>1 DEF Stake, clockVars
    <3>2. CASE RequestUnstake(s)  BY <3>2 DEF RequestUnstake, clockVars
    <3>3. CASE ExecuteUnstake(s)  BY <3>3 DEF ExecuteUnstake, clockVars
    <3>4. CASE ClaimRewards(s)  BY <3>4 DEF ClaimRewards, clockVars
    <3> QED  BY <1>2, <3>1, <3>2, <3>3, <3>4 DEF StakerStep
  <2> QED  BY <2>1, PolicyKept DEF Inv, TypeOK
<1>3. ASSUME NEW q \in Policies,
             \/ CancelPolicy(q) \/ ExpirePolicy(q)
             \/ \E t \in Triggers : SubmitClaim(q, t) \/ OracleSubmitClaim(q, t)
      PROVE  TermsMove(p)
  BY <1>3, CancelTerms, ExpireTerms, SubmitTerms DEF OracleSubmitClaim
<1>4. ASSUME NEW b \in BOOLEAN, NEW m \in Multipliers, UpdateConfig(b, m)
      PROVE  TermsMove(p)
  <2>1. policy' = policy /\ now' = now  BY <1>4 DEF UpdateConfig, clockVars
  <2> QED  BY <2>1, PolicyKept DEF Inv, TypeOK
<1> QED  BY <1>1, <1>2, <1>3, <1>4 DEF SharedStep

\* None of them makes a policy Paid.
LEMMA SharedStepPaysNone ==
  ASSUME Inv, SharedStep, NEW p \in Policies,
         policy[p].state # Paid, policy'[p].state = Paid
  PROVE  FALSE
<1> USE DEF Paid, Active, Pending, Expired, Cancelled
<1>1. policy \in [Policies -> InsurancePolicy]  BY DEF Inv, TypeOK
<1>2. CASE policy' = policy  BY <1>2
<1>3. ASSUME NEW q \in Policies, NEW st \in {Pending, Expired, Cancelled},
             policy'[q].state = st,
             \A r \in Policies \ {q} : policy'[r] = policy[r]
      PROVE  FALSE
  BY <1>3
<1>4. CASE Tick  BY <1>2, <1>4 DEF Tick
<1>5. ASSUME NEW s \in Stakers, StakerStep(s)  PROVE FALSE
  BY <1>2, <1>5
  DEF StakerStep, Stake, RequestUnstake, ExecuteUnstake, ClaimRewards
<1>6. ASSUME NEW b \in BOOLEAN, NEW m \in Multipliers, UpdateConfig(b, m)
      PROVE  FALSE
  BY <1>2, <1>6 DEF UpdateConfig
<1>7. ASSUME NEW q \in Policies, CancelPolicy(q)  PROVE FALSE
  <2>1. policy' = [policy EXCEPT ![q].state = Cancelled]
    BY <1>7 DEF CancelPolicy
  <2>2. /\ policy'[q].state = Cancelled
        /\ \A r \in Policies \ {q} : policy'[r] = policy[r]
    BY <1>1, <2>1 DEF InsurancePolicy
  <2> QED  BY <1>3, <2>2
<1>8. ASSUME NEW q \in Policies, ExpirePolicy(q)  PROVE FALSE
  <2>1. policy' = [policy EXCEPT ![q].state = Expired]
    BY <1>8 DEF ExpirePolicy
  <2>2. /\ policy'[q].state = Expired
        /\ \A r \in Policies \ {q} : policy'[r] = policy[r]
    BY <1>1, <2>1 DEF InsurancePolicy
  <2> QED  BY <1>3, <2>2
<1>9. ASSUME NEW q \in Policies, NEW t \in Triggers, SubmitClaim(q, t)
      PROVE  FALSE
  <2>1. policy' = [policy EXCEPT ![q].state = Pending,
                                 ![q].trigger_type = t,
                                 ![q].claim_submitted_at = now]
    BY <1>9 DEF SubmitClaim
  <2>2. /\ policy'[q].state = Pending
        /\ \A r \in Policies \ {q} : policy'[r] = policy[r]
    BY <1>1, <2>1 DEF InsurancePolicy
  <2> QED  BY <1>3, <2>2
<1> QED
  BY <1>4, <1>5, <1>6, <1>7, <1>8, <1>9 DEF SharedStep, OracleSubmitClaim

\* Paying closes one policy at the amount paid.
LEMMA PayClaimPays ==
  ASSUME Inv, NEW q \in Policies, NEW amount, PayClaim(q, amount)
  PROVE  /\ policy'[q].payout_amount = amount
         /\ \A r \in Policies \ {q} : policy'[r] = policy[r]
<1>1. policy' = [policy EXCEPT ![q].state = Paid, ![q].payout_amount = amount]
  BY DEF PayClaim
<1> QED  BY <1>1 DEF Inv, TypeOK, InsurancePolicy

\* What the purchase does to the policies' records.
LEMMA CreateTerms ==
  ASSUME Inv, NEW tier \in Tiers, NEW c \in Coverages, NEW d \in Durations,
         NEW f \in FlatPremiums, NEW p, p = policy_counter,
         CreatePolicy(tier, c, d, f)
  PROVE  /\ p \in Policies /\ now' = now /\ now \in Nat
         /\ policy'[p].state = Active /\ policy'[p].start_time = now
         /\ \A q \in Policies \ {p} : policy'[q] = policy[q]
<1>1. p \in Policies
  BY VaultAssumption DEF CreatePolicy, Policies, Inv, TypeOK
<1>2. /\ now' = now
      /\ policy' = [policy EXCEPT ![p] =
           [state |-> Active, coverage_amount |-> c,
            premium_paid |-> Premium(tier, c, d, f), start_time |-> now,
            expiry_time |-> now + d, claim_submitted_at |-> 0,
            trigger_type |-> "none", payout_amount |-> 0]]
  BY DEF CreatePolicy, clockVars
<1> QED  BY <1>1, <1>2 DEF Inv, TypeOK
=============================================================================
