----------------------------- MODULE Settlement -----------------------------
(***************************************************************************)
(* Settlements proven by a balance: the exploit and the agent-error claims.*)
(*                                                                         *)
(* The chain cannot be told what an account held in the past, so it reads  *)
(* it: PolicyBalanceCheckpoint keeps the last reading of the covered       *)
(* account and a "pre-drop watermark", prev_, and PolicyAgentMandate keeps  *)
(* the envelope the holder declared and the one it replaced.  A payout is  *)
(* bounded by what those accounts and a last reading prove.                *)
(*                                                                         *)
(* The module extends Vault: every instruction of the pool is an action    *)
(* here too, and the ones that read or write a covered account add their   *)
(* conjuncts to it.  A settlement therefore pays through Vault's PayClaim. *)
(* Claims of the other kinds, proven by prices and authorities, are filed   *)
(* and expire here, but their settlements are not actions of this module.  *)
(* Not modelled: checkpoints created after the purchase (is_new) and the   *)
(* mandate's window cap and allowlists, which no instruction enforces.     *)
(***************************************************************************)
EXTENDS Vault

CONSTANTS
  Agents,                      \* wallets whose USDC account may be covered
  EXPLOIT, AGENT_ERROR,        \* the two claim kinds proven by a balance
  MAX_CHECKPOINT_AGE, MAX_MANDATE_CHECKPOINT_AGE,
  MIN_PROVABLE_DROP_BPS, MIN_PROVABLE_MANDATE_BREACH,
  MANDATE_DECLARATION_DELAY,
  Balances,                    \* what a covered account may hold
  Caps, Floors                 \* the envelopes a holder may declare

ASSUME SettlementAssumption ==
  /\ EXPLOIT # AGENT_ERROR
  /\ MAX_CHECKPOINT_AGE \in Nat /\ MAX_MANDATE_CHECKPOINT_AGE \in Nat
  /\ MIN_PROVABLE_DROP_BPS \in Nat /\ MIN_PROVABLE_MANDATE_BREACH \in Nat
  /\ MANDATE_DECLARATION_DELAY \in Nat
  /\ Balances \subseteq Nat /\ Balances # {}
  /\ Caps \subseteq Nat /\ Floors \subseteq Nat

VARIABLES
  balance,                     \* balance[a]: the covered token account of a
  agent,                       \* agent[p]: policy.agent_address
  checkpoint,                  \* checkpoint[p]: PolicyBalanceCheckpoint
  mandate,                     \* mandate[p]: PolicyAgentMandate
  history                      \* history[p]: what happened, for the properties

coverVars == <<balance, agent, checkpoint, mandate, history>>
settlementVars == <<vars, coverVars>>

NoAgent == "none"

Checkpoint == [amount: Nat, time: Nat, prev_amount: Nat, prev_time: Nat]
Mandate ==
  [cap: Nat, floor: Nat, effective_at: Nat,
   prev_cap: Nat, prev_floor: Nat, prev_effective_at: Nat]

\* Auxiliary: the envelope that was priced, the most the account held between
\* the purchase and the end of the second of the filing, and, while it has
\* moved once only and down, when it fell and the last reading before it did.
History ==
  [cap: Nat, floor: Nat, peak: Nat, moves: {"none", "one_fall", "many"},
   fell_at: Nat, reading: Nat, reading_at: Nat]

NoCheckpoint == [amount |-> 0, time |-> 0, prev_amount |-> 0, prev_time |-> 0]
NoMandate ==
  [cap |-> 0, floor |-> 0, effective_at |-> 0,
   prev_cap |-> 0, prev_floor |-> 0, prev_effective_at |-> 0]
Untouched(cap, floor, held) ==
  [cap |-> cap, floor |-> floor, peak |-> held, moves |-> "none",
   fell_at |-> 0, reading |-> 0, reading_at |-> 0]
NoHistory == Untouched(0, 0, 0)

SettlementInit ==
  /\ Init
  /\ balance \in [Agents -> Balances]
  /\ agent = [p \in Policies |-> NoAgent]
  /\ checkpoint = [p \in Policies |-> NoCheckpoint]
  /\ mandate = [p \in Policies |-> NoMandate]
  /\ history = [p \in Policies |-> NoHistory]

Held(p) == balance[agent[p]]

-----------------------------------------------------------------------------
(* The balance checkpoint. *)

\* The purchase takes the first reading, and seeds the watermark with it.
SeededCheckpoint(held) ==
  [amount |-> held, time |-> now, prev_amount |-> held, prev_time |-> now]

\* What a tick keeps as prev_*: the reading before a drop, then that pin until
\* it has aged out, otherwise the reading the tick replaces.  Slip: history is
\* shifted by one slot at every tick.
RetainedLast(p) ==
  [amount |-> checkpoint[p].amount, time |-> checkpoint[p].time]

Retained(p) ==
  LET c           == checkpoint[p]
      dropped     == Held(p) < c.amount
      pin_held    == c.prev_amount > c.amount
      pin_expired == now - c.prev_time > MAX_CHECKPOINT_AGE
  IN IF ~dropped /\ pin_held /\ ~pin_expired
       THEN [amount |-> c.prev_amount, time |-> c.prev_time]
       ELSE [amount |-> c.amount, time |-> c.time]

\* checkpoint_balance: anyone may call it, for a policy that is still open.
CheckpointBalance(p) ==
  /\ Live(p)
  /\ checkpoint' = [checkpoint EXCEPT ![p] =
       [amount |-> Held(p), time |-> now,
        prev_amount |-> Retained(p).amount, prev_time |-> Retained(p).time]]
  /\ UNCHANGED <<vars, balance, agent, mandate, history>>

\* The reading a payout measures the drop from.
PinUsable(p) ==
  /\ checkpoint[p].prev_time \in 1..policy[p].claim_submitted_at
  /\ checkpoint[p].prev_amount > checkpoint[p].amount

Baseline(p) ==
  LET c == checkpoint[p]
  IN IF c.time <= policy[p].claim_submitted_at /\ ~PinUsable(p)
       THEN [amount |-> c.amount, time |-> c.time]
       ELSE [amount |-> c.prev_amount, time |-> c.prev_time]

\* Slip: a reading taken after the filing is as good as one before.
BaselineDuringCoverAnyTime(p) == Baseline(p).time >= policy[p].start_time

BaselineDuringCover(p) ==
  /\ Baseline(p).time > 0
  /\ Baseline(p).time <= policy[p].claim_submitted_at
  /\ Baseline(p).time >= policy[p].start_time

Drop(p) == Minus(Baseline(p).amount, Held(p))

-----------------------------------------------------------------------------
(* The agent mandate. *)

\* write_mandate, with the maturity its caller gives it.
Declared(m, cap, floor, effective_at) ==
  [cap |-> cap, floor |-> floor, effective_at |-> effective_at,
   prev_cap |-> m.cap, prev_floor |-> m.floor,
   prev_effective_at |-> m.effective_at]

\* A refresh may not be narrower than what it replaces.  Slip: it may.
NoNarrowerUnchecked(m, cap, floor) == TRUE

NoNarrower(m, cap, floor) == cap >= m.cap /\ floor <= m.floor

DeclareAgentMandate(p, cap, floor) ==
  /\ policy[p].state = Active
  /\ cap > 0
  /\ floor <= Held(p)
  /\ NoNarrower(mandate[p], cap, floor)
  /\ mandate' = [mandate EXCEPT ![p] =
       Declared(mandate[p], cap, floor, now + MANDATE_DECLARATION_DELAY)]
  /\ UNCHANGED <<vars, balance, agent, checkpoint, history>>

\* PolicyAgentMandate::envelope_at
EnvelopeAt(m, at) ==
  IF m.effective_at \in 1..at
    THEN [cap |-> m.cap, floor |-> m.floor, effective_at |-> m.effective_at]
    ELSE [cap |-> m.prev_cap, floor |-> m.prev_floor,
          effective_at |-> m.prev_effective_at]

\* How far a drop to `held` lands outside an envelope.
Overshoot(drop, held, cap, floor) ==
  Greater(Minus(drop, cap), Lesser(Minus(floor, held), drop))

-----------------------------------------------------------------------------
(* The instructions that open and settle a policy. *)
CreateCovered(a, tier, coverage, duration, flat, cap, floor) ==
  LET p == policy_counter
  IN /\ CreatePolicy(tier, coverage, duration, flat)
     /\ cap > 0
     /\ floor <= balance[a]
     /\ agent' = [agent EXCEPT ![p] = a]
     /\ checkpoint' = [checkpoint EXCEPT ![p] = SeededCheckpoint(balance[a])]
     /\ mandate' = [mandate EXCEPT ![p] = Declared(NoMandate, cap, floor, now)]
     /\ history' = [history EXCEPT ![p] = Untouched(cap, floor, balance[a])]
     /\ UNCHANGED balance

\* verify_and_payout_exploit: there is a recent reading of the cover to
\* measure from.
FallMeasurable(p) ==
  /\ policy[p].trigger_type = EXPLOIT
  /\ BaselineDuringCover(p)
  /\ now - Baseline(p).time <= MAX_CHECKPOINT_AGE
  /\ Baseline(p).amount > 0

\* The account lost at least half of it, and no more than it lost is paid.
PayExploit(p, amount) ==
  /\ FallMeasurable(p)
  /\ (Drop(p) * BPS) \div Baseline(p).amount >= MIN_PROVABLE_DROP_BPS
  /\ amount <= Drop(p)
  /\ PayClaim(p, amount)
  /\ UNCHANGED coverVars

\* verify_and_payout_agent_error: an envelope was in force when the claim was
\* filed, and a reading of the cover not long before it.
EnvelopeOfClaim(p) == EnvelopeAt(mandate[p], policy[p].claim_submitted_at)

BreachMeasurable(p) ==
  /\ policy[p].trigger_type = AGENT_ERROR
  /\ EnvelopeOfClaim(p).effective_at \in 1..policy[p].claim_submitted_at
  /\ EnvelopeOfClaim(p).cap > 0
  /\ BaselineDuringCover(p)
  /\ policy[p].claim_submitted_at - Baseline(p).time
       <= MAX_MANDATE_CHECKPOINT_AGE

\* The drop overshot it, and no more than the overshoot is paid.
PayAgentError(p, amount) ==
  LET envelope == EnvelopeOfClaim(p)
      excess   == Overshoot(Drop(p), Held(p), envelope.cap, envelope.floor)
  IN /\ BreachMeasurable(p)
     /\ Drop(p) > 0
     /\ excess > 0
     /\ excess >= MIN_PROVABLE_MANDATE_BREACH
     /\ amount <= excess
     /\ PayClaim(p, amount)
     /\ UNCHANGED coverVars

\* Anybody's transfers in and out of the covered account.  While its policy is
\* open, history keeps what the properties need of them.
Witnessed(p, amount) ==
  LET h          == history[p]
      early      == policy[p].state = Active \/ now <= policy[p].claim_submitted_at
      first_fall == h.moves = "none" /\ amount < Held(p)
  IN [cap |-> h.cap, floor |-> h.floor,
      peak |-> IF early THEN Greater(h.peak, amount) ELSE h.peak,
      moves |-> IF first_fall THEN "one_fall" ELSE "many",
      fell_at |-> IF first_fall THEN now ELSE 0,
      reading |-> IF first_fall THEN checkpoint[p].amount ELSE 0,
      reading_at |-> IF first_fall THEN checkpoint[p].time ELSE 0]

\* Bound: an account moves while a policy covers it; what it held before is
\* any of Balances, and what it holds afterwards concerns nobody.
Transfer(a, amount) ==
  /\ amount # balance[a]
  /\ \E p \in Policies : Live(p) /\ agent[p] = a
  /\ balance' = [balance EXCEPT ![a] = amount]
  /\ history' = [p \in Policies |->
       IF Live(p) /\ agent[p] = a THEN Witnessed(p, amount) ELSE history[p]]
  /\ UNCHANGED <<vars, agent, checkpoint, mandate>>

\* Instructions that touch no covered account.
PoolStep ==
  /\ \/ Tick
     \/ \E s \in Stakers : StakerStep(s)
     \/ \E p \in Policies :
          \/ CancelPolicy(p)
          \/ ExpirePolicy(p)
          \/ \E t \in Triggers : SubmitClaim(p, t) \/ OracleSubmitClaim(p, t)
     \/ \E b \in BOOLEAN, m \in Multipliers : UpdateConfig(b, m)
  /\ UNCHANGED coverVars

SettlementStep(p) ==
  \/ CheckpointBalance(p)
  \/ \E cap \in Caps, floor \in Floors : DeclareAgentMandate(p, cap, floor)
  \/ \E amount \in Payouts :
       PayExploit(p, amount) \/ PayAgentError(p, amount)

SettlementNext ==
  \/ PoolStep
  \/ \E p \in Policies : SettlementStep(p)
  \/ \E a \in Agents, amount \in Balances : Transfer(a, amount)
  \/ \E a \in Agents, tier \in Tiers, c \in Coverages, d \in Durations,
        f \in FlatPremiums, cap \in Caps, floor \in Floors :
       CreateCovered(a, tier, c, d, f, cap, floor)

SettlementSpec == SettlementInit /\ [][SettlementNext]_settlementVars

\* Time passes, and the expiry crank calls expire_policy for every policy it
\* may close.
FairSettlementSpec ==
  /\ SettlementSpec
  /\ WF_settlementVars(Tick /\ UNCHANGED coverVars)
  /\ \A p \in Policies : WF_settlementVars(ExpirePolicy(p) /\ UNCHANGED coverVars)

-----------------------------------------------------------------------------
(***************************************************************************)
(* Properties.                                                             *)
(***************************************************************************)
\* The readings of an open policy were taken during its cover, in order.
SettlementTypeOK ==
  /\ balance \in [Agents -> Nat]
  /\ agent \in [Policies -> Agents \cup {NoAgent}]
  /\ checkpoint \in [Policies -> Checkpoint]
  /\ mandate \in [Policies -> Mandate]
  /\ history \in [Policies -> History]
  /\ \A p \in Policies :
       policy[p].state # Unopened =>
         /\ agent[p] \in Agents
         /\ policy[p].start_time <= checkpoint[p].prev_time
         /\ checkpoint[p].prev_time <= checkpoint[p].time
         /\ checkpoint[p].time <= now

\* However the ticks, transfers and filing interleave, a settlement never pays
\* more than the account really lost: from a balance it held between the
\* purchase and the second of the filing, down to what it holds when the claim is paid.
PayoutWithinFall ==
  [][ \A p \in Policies :
        (policy[p].state # Paid /\ policy'[p].state = Paid
           /\ policy[p].trigger_type \in {EXPLOIT, AGENT_ERROR})
          => policy'[p].payout_amount <= history[p].peak - Held(p) ]_settlementVars

\* An agent-error payout is an overshoot of the envelope whose price was paid,
\* not of one declared since: tightening cannot raise what the pool owes.
OvershootOfPricedEnvelope ==
  [][ \A p \in Policies :
        (policy[p].state # Paid /\ policy'[p].state = Paid
           /\ policy[p].trigger_type = AGENT_ERROR)
          => policy'[p].payout_amount <=
               Overshoot(Drop(p), Held(p), history[p].cap, history[p].floor)
    ]_settlementVars

\* The account fell once, before the claim was filed, and nothing came back.
LoneFall(p) ==
  /\ policy[p].state = Pending
  /\ history[p].moves = "one_fall"
  /\ history[p].fell_at <= policy[p].claim_submitted_at

LastReadingIsBaseline(p) ==
  Baseline(p) = [amount |-> history[p].reading, time |-> history[p].reading_at]

\* A lone drain is measured in full for as long as the exploit path can pay
\* it, whenever the ticks land: none of them replaces the reading that
\* preceded the drain by one of the aftermath (checkpoint_balance.rs 48-59).
LoneDrainMeasured ==
  \A p \in Policies :
    /\ LoneFall(p)
    /\ policy[p].trigger_type = EXPLOIT
    /\ now - history[p].reading_at <= MAX_CHECKPOINT_AGE
    => LastReadingIsBaseline(p)

\* What the same comment says of the agent-error path, whose window is counted
\* to the filing and not to the payout: "later ticks do not dislodge the pin
\* until it ages past the window a payout could use it in anyway".
LoneBreachMeasured ==
  \A p \in Policies :
    /\ LoneFall(p)
    /\ policy[p].trigger_type = AGENT_ERROR
    /\ policy[p].claim_submitted_at - history[p].reading_at
         <= MAX_MANDATE_CHECKPOINT_AGE
    => LastReadingIsBaseline(p)
=============================================================================
