-------------------------- MODULE SettlementProofs --------------------------
(***************************************************************************)
(* Theorems about the balance-proven settlements, for any number of agents *)
(* and policies, any balances and any protocol constants.                  *)
(*                                                                         *)
(* Every step of Settlement is a step of Vault, so every theorem about the *)
(* pool holds with settlements in it.  That a payout stays within the real *)
(* fall rests on ReadingsBelowPeak: a reading that a payout may use is of  *)
(* a balance the account held before the claim was filed.                  *)
(***************************************************************************)
EXTENDS Settlement, VaultProofs

-----------------------------------------------------------------------------
(* The settlements refine the pool. *)
LEMMA StepIsPoolStep ==
  ASSUME [SettlementNext]_settlementVars
  PROVE  [Next]_vars
<1>1. CASE PoolStep
  BY <1>1 DEF PoolStep, Next, PolicyStep
<1>2. ASSUME NEW p \in Policies, SettlementStep(p)
      PROVE  [Next]_vars
  <2>1. CASE CheckpointBalance(p)  BY <2>1 DEF CheckpointBalance
  <2>2. ASSUME NEW cap \in Caps, NEW floor \in Floors,
               DeclareAgentMandate(p, cap, floor)
        PROVE  UNCHANGED vars
    BY <2>2 DEF DeclareAgentMandate
  <2>3. ASSUME NEW amount \in Payouts,
               PayExploit(p, amount) \/ PayAgentError(p, amount)
        PROVE  PolicyStep(p)
    BY <2>3 DEF PayExploit, FallMeasurable, PayAgentError, BreachMeasurable,
        EnvelopeOfClaim, PolicyStep
  <2> QED  BY <1>2, <2>1, <2>2, <2>3 DEF SettlementStep, Next
<1>3. ASSUME NEW a \in Agents, NEW amount \in Balances, Transfer(a, amount)
      PROVE  UNCHANGED vars
  BY <1>3 DEF Transfer
<1>4. ASSUME NEW a \in Agents, NEW tier \in Tiers, NEW c \in Coverages,
             NEW d \in Durations, NEW f \in FlatPremiums, NEW cap \in Caps,
             NEW floor \in Floors, CreateCovered(a, tier, c, d, f, cap, floor)
      PROVE  Next
  <2>1. CreatePolicy(tier, c, d, f)  BY <1>4 DEF CreateCovered
  <2> QED  BY <2>1 DEF Next
<1>5. CASE UNCHANGED settlementVars  BY <1>5 DEF settlementVars
<1> QED  BY <1>1, <1>2, <1>3, <1>4, <1>5 DEF SettlementNext

\* The pool with its settlements is a pool: all that is proved of Vault holds
\* of it, whatever the checkpoints and mandates do.
THEOREM SettlementImplementsPool == SettlementSpec => Spec
<1>1. SettlementInit => Init  BY DEF SettlementInit
<1>2. [SettlementNext]_settlementVars => [Next]_vars  BY StepIsPoolStep
<1> QED  BY <1>1, <1>2, PTL DEF SettlementSpec, Spec

LEMMA PoolInvariance == SettlementSpec => []Inv
BY SettlementImplementsPool, Invariance, PTL

-----------------------------------------------------------------------------
LEMMA PoolStepTerms ==
  ASSUME Inv, PoolStep, NEW p \in Policies
  PROVE  TermsMove(p) /\ UNCHANGED coverVars
BY SharedStepTerms DEF PoolStep, SharedStep

-----------------------------------------------------------------------------
(* The inductive invariant. *)

\* No reading a payout may still use, and no balance a reading may still take
\* before the claim's second is over, is above what the account has held.
ReadingsBelowPeak ==
  \A p \in Policies : Live(p) =>
    /\ policy[p].state = Active \/ now <= policy[p].claim_submitted_at
         => Held(p) <= history[p].peak
    /\ policy[p].state = Active
         \/ checkpoint[p].time <= policy[p].claim_submitted_at
         => checkpoint[p].amount <= history[p].peak
    /\ policy[p].state = Active
         \/ checkpoint[p].prev_time <= policy[p].claim_submitted_at
         => checkpoint[p].prev_amount <= history[p].peak

\* Neither envelope a claim may be judged by is narrower than the priced one.
EnvelopesNoNarrower ==
  \A p \in Policies : policy[p].state # Unopened =>
    /\ mandate[p].cap >= history[p].cap
    /\ mandate[p].floor <= history[p].floor
    /\ mandate[p].prev_effective_at > 0 =>
         /\ mandate[p].prev_cap >= history[p].cap
         /\ mandate[p].prev_floor <= history[p].floor

SInv ==
  /\ SettlementTypeOK
  /\ ReadingsBelowPeak
  /\ EnvelopesNoNarrower

LEMMA SettlementInitInv ==
  ASSUME SettlementInit
  PROVE  SInv
<1>1. \A p \in Policies : policy[p].state = Unopened
  BY DEF SettlementInit, Init, NoPolicy
<1>2. SettlementTypeOK
  BY <1>1, SettlementAssumption
  DEF SettlementInit, SettlementTypeOK, NoCheckpoint, Checkpoint, NoMandate,
      Mandate, NoHistory, Untouched, History
<1>3. ReadingsBelowPeak /\ EnvelopesNoNarrower
  BY <1>1
  DEF ReadingsBelowPeak, EnvelopesNoNarrower, Live, Active, Pending, Unopened
<1> QED  BY <1>2, <1>3 DEF SInv

\* A step of the pool ages the readings and files or closes policies.
LEMMA CoverKept ==
  ASSUME Inv, Inv', SInv, UNCHANGED coverVars,
         \A p \in Policies : TermsMove(p)
  PROVE  SInv'
<1>1. /\ balance' = balance /\ agent' = agent /\ checkpoint' = checkpoint
      /\ mandate' = mandate /\ history' = history
  BY DEF coverVars
<1>2. now \in Nat /\ now' \in Nat  BY DEF Inv, TypeOK
<1>3. SettlementTypeOK'
  <2>1. ASSUME NEW p \in Policies, policy'[p].state # Unopened
        PROVE  /\ agent'[p] \in Agents
               /\ policy'[p].start_time <= checkpoint'[p].prev_time
               /\ checkpoint'[p].prev_time <= checkpoint'[p].time
               /\ checkpoint'[p].time <= now'
    <3>1. policy[p].state # Unopened /\ now' >= now
          /\ policy'[p].start_time = policy[p].start_time
      BY <2>1 DEF TermsMove
    <3>2. checkpoint[p].time \in Nat
      BY DEF SInv, SettlementTypeOK, Checkpoint
    <3> QED  BY <1>1, <1>2, <3>1, <3>2 DEF SInv, SettlementTypeOK
  <2> QED  BY <1>1, <2>1 DEF SInv, SettlementTypeOK
<1>4. ReadingsBelowPeak'
  <2> SUFFICES ASSUME NEW p \in Policies, Live(p)'
               PROVE  /\ policy'[p].state = Active
                           \/ now' <= policy'[p].claim_submitted_at
                           => Held(p) <= history[p].peak
                      /\ policy'[p].state = Active
                           \/ checkpoint[p].time <= policy'[p].claim_submitted_at
                           => checkpoint[p].amount <= history[p].peak
                      /\ policy'[p].state = Active
                           \/ checkpoint[p].prev_time <= policy'[p].claim_submitted_at
                           => checkpoint[p].prev_amount <= history[p].peak
    BY <1>1 DEF ReadingsBelowPeak, Held
  <2>1. Live(p) /\ now' >= now
    BY DEF Live, TermsMove
  <2>2. \/ policy[p].state = Active
        \/ /\ policy[p].state = Pending /\ policy'[p].state = Pending
           /\ policy'[p].claim_submitted_at = policy[p].claim_submitted_at
    BY <2>1 DEF Live, TermsMove, Active, Pending
  <2>3. policy[p].claim_submitted_at \in Nat
    BY DEF Inv, TypeOK, InsurancePolicy
  <2> QED
    BY <1>2, <2>1, <2>2, <2>3 DEF SInv, ReadingsBelowPeak, Active, Pending
<1>5. EnvelopesNoNarrower'
  BY <1>1 DEF SInv, EnvelopesNoNarrower, TermsMove
<1> QED  BY <1>3, <1>4, <1>5 DEF SInv

LEMMA CheckpointBalanceInv ==
  ASSUME Inv, SInv, NEW p \in Policies, CheckpointBalance(p)
  PROVE  SInv'
<1> DEFINE kept == Retained(p)
           new == [amount |-> Held(p), time |-> now,
                   prev_amount |-> kept.amount, prev_time |-> kept.time]
<1>1. /\ Live(p) /\ checkpoint' = [checkpoint EXCEPT ![p] = new]
      /\ policy' = policy /\ now' = now
      /\ balance' = balance /\ agent' = agent /\ mandate' = mandate
      /\ history' = history
  BY DEF CheckpointBalance, vars
<1>2. /\ kept = [amount |-> checkpoint[p].prev_amount,
                 time |-> checkpoint[p].prev_time]
      \/ kept = [amount |-> checkpoint[p].amount, time |-> checkpoint[p].time]
  BY DEF Retained
<1>3. /\ checkpoint[p].amount \in Nat /\ checkpoint[p].time \in Nat
      /\ checkpoint[p].prev_amount \in Nat /\ checkpoint[p].prev_time \in Nat
  BY DEF SInv, SettlementTypeOK, Checkpoint
<1>4. /\ kept.amount \in Nat /\ kept.time \in Nat
      /\ kept.time \in {checkpoint[p].time, checkpoint[p].prev_time}
  BY <1>2, <1>3
<1>5. policy[p].state # Unopened
  BY <1>1 DEF Live, Active, Pending, Unopened
<1>6. Held(p) \in Nat
  BY <1>5 DEF SInv, SettlementTypeOK, Held
<1>7. now \in Nat  BY DEF Inv, TypeOK
<1>8. new \in Checkpoint  BY <1>4, <1>6, <1>7 DEF Checkpoint
<1>9. checkpoint' \in [Policies -> Checkpoint]
  BY <1>1, <1>8 DEF SInv, SettlementTypeOK
<1>10. /\ checkpoint'[p] = new
       /\ \A q \in Policies \ {p} : checkpoint'[q] = checkpoint[q]
  BY <1>1 DEF SInv, SettlementTypeOK
<1>11. /\ policy[p].start_time <= kept.time /\ kept.time <= now
  BY <1>3, <1>4, <1>5, <1>7 DEF SInv, SettlementTypeOK, Inv, TypeOK, InsurancePolicy
<1>12. SettlementTypeOK'
  BY <1>1, <1>7, <1>9, <1>10, <1>11 DEF SInv, SettlementTypeOK
<1>13. ReadingsBelowPeak'
  <2> SUFFICES ASSUME NEW q \in Policies, Live(q)
               PROVE  /\ policy[q].state = Active
                           \/ now <= policy[q].claim_submitted_at
                           => Held(q) <= history[q].peak
                      /\ policy[q].state = Active
                           \/ checkpoint'[q].time <= policy[q].claim_submitted_at
                           => checkpoint'[q].amount <= history[q].peak
                      /\ policy[q].state = Active
                           \/ checkpoint'[q].prev_time <= policy[q].claim_submitted_at
                           => checkpoint'[q].prev_amount <= history[q].peak
    BY <1>1 DEF ReadingsBelowPeak, Held, Live
  <2>1. CASE q # p  BY <1>10, <2>1 DEF SInv, ReadingsBelowPeak
  <2>2. CASE q = p
    BY <1>2, <1>10, <2>2 DEF SInv, ReadingsBelowPeak
  <2> QED  BY <2>1, <2>2
<1>14. EnvelopesNoNarrower'
  BY <1>1 DEF SInv, EnvelopesNoNarrower
<1> QED  BY <1>12, <1>13, <1>14 DEF SInv

LEMMA DeclareAgentMandateInv ==
  ASSUME Inv, SInv, NEW p \in Policies, NEW cap \in Caps, NEW floor \in Floors,
         DeclareAgentMandate(p, cap, floor)
  PROVE  SInv'
<1> DEFINE m == mandate[p]
           matures == now + MANDATE_DECLARATION_DELAY
           new == [cap |-> cap, floor |-> floor, effective_at |-> matures,
                   prev_cap |-> m.cap, prev_floor |-> m.floor,
                   prev_effective_at |-> m.effective_at]
<1>1. /\ mandate' = [mandate EXCEPT ![p] = new]
      /\ cap >= m.cap /\ floor <= m.floor
      /\ policy[p].state = Active
      /\ policy' = policy /\ now' = now
      /\ balance' = balance /\ agent' = agent /\ checkpoint' = checkpoint
      /\ history' = history
  BY DEF DeclareAgentMandate, Declared, NoNarrower, vars
<1>2. /\ cap \in Nat /\ floor \in Nat /\ matures \in Nat
      /\ m.cap \in Nat /\ m.floor \in Nat /\ m.effective_at \in Nat
  BY SettlementAssumption DEF Inv, TypeOK, SInv, SettlementTypeOK, Mandate
<1> HIDE DEF matures
<1>3. new \in Mandate  BY <1>2 DEF Mandate
<1>4. /\ mandate'[p] = new /\ mandate' \in [Policies -> Mandate]
      /\ \A q \in Policies \ {p} : mandate'[q] = mandate[q]
  BY <1>1, <1>3 DEF SInv, SettlementTypeOK
<1>5. SettlementTypeOK'
  BY <1>1, <1>4 DEF SInv, SettlementTypeOK
<1>6. ReadingsBelowPeak'
  BY <1>1 DEF SInv, ReadingsBelowPeak, Held, Live
<1>7. EnvelopesNoNarrower'
  <2> SUFFICES ASSUME NEW q \in Policies, policy[q].state # Unopened
               PROVE  /\ mandate'[q].cap >= history[q].cap
                      /\ mandate'[q].floor <= history[q].floor
                      /\ mandate'[q].prev_effective_at > 0 =>
                           /\ mandate'[q].prev_cap >= history[q].cap
                           /\ mandate'[q].prev_floor <= history[q].floor
    BY <1>1 DEF EnvelopesNoNarrower
  <2>1. CASE q # p  BY <1>4, <2>1 DEF SInv, EnvelopesNoNarrower
  <2>2. CASE q = p
    <3>1. history[p].cap \in Nat /\ history[p].floor \in Nat
      BY DEF SInv, SettlementTypeOK, History
    <3>2. m.cap >= history[p].cap /\ m.floor <= history[p].floor
      BY <2>2 DEF SInv, EnvelopesNoNarrower
    <3> QED  BY <1>1, <1>2, <1>4, <2>2, <3>1, <3>2
  <2> QED  BY <2>1, <2>2
<1> QED  BY <1>5, <1>6, <1>7 DEF SInv

LEMMA HistoryRecord ==
  ASSUME NEW cap \in Nat, NEW floor \in Nat, NEW peak \in Nat,
         NEW moves \in {"none", "one_fall", "many"}, NEW fell_at \in Nat,
         NEW reading \in Nat, NEW reading_at \in Nat
  PROVE  [cap |-> cap, floor |-> floor, peak |-> peak, moves |-> moves,
          fell_at |-> fell_at, reading |-> reading, reading_at |-> reading_at]
           \in History
BY DEF History

LEMMA GreaterIsBound ==
  ASSUME NEW a \in Nat, NEW b \in Nat
  PROVE  Greater(a, b) \in Nat /\ Greater(a, b) >= a /\ Greater(a, b) >= b
BY DEF Greater

\* What history notes of a transfer: the peak covers the new balance while it
\* may still be read before the filing's second is over.
LEMMA WitnessedFacts ==
  ASSUME Inv, SInv, NEW p \in Policies, NEW amount \in Nat
  PROVE  LET w == Witnessed(p, amount)
         IN /\ w \in History
            /\ w.cap = history[p].cap /\ w.floor = history[p].floor
            /\ w.peak >= history[p].peak
            /\ policy[p].state = Active \/ now <= policy[p].claim_submitted_at
                 => w.peak >= amount
<1> DEFINE h == history[p]
           early == policy[p].state = Active
                      \/ now <= policy[p].claim_submitted_at
           first == h.moves = "none" /\ amount < Held(p)
           peak == IF early THEN Greater(h.peak, amount) ELSE h.peak
           moves == IF first THEN "one_fall" ELSE "many"
           fell == IF first THEN now ELSE 0
           reading == IF first THEN checkpoint[p].amount ELSE 0
           reading_at == IF first THEN checkpoint[p].time ELSE 0
           cap == h.cap
           floor == h.floor
           w == [cap |-> cap, floor |-> floor, peak |-> peak,
                 moves |-> moves, fell_at |-> fell, reading |-> reading,
                 reading_at |-> reading_at]
<1>1. h \in History /\ checkpoint[p] \in Checkpoint /\ now \in Nat
  BY DEF SInv, SettlementTypeOK, Inv, TypeOK
<1>2. /\ peak \in Nat /\ peak >= h.peak
      /\ early => peak >= amount
  <2>1. h.peak \in Nat  BY <1>1 DEF History
  <2>2. /\ Greater(h.peak, amount) \in Nat
        /\ Greater(h.peak, amount) >= h.peak
        /\ Greater(h.peak, amount) >= amount
    BY <2>1, GreaterIsBound
  <2> HIDE DEF h, early
  <2>3. CASE early  BY <2>2, <2>3
  <2>4. CASE ~early  BY <2>1, <2>4
  <2> QED  BY <2>3, <2>4
<1>3. /\ moves \in {"none", "one_fall", "many"} /\ fell \in Nat
      /\ reading \in Nat /\ reading_at \in Nat
  BY <1>1 DEF Checkpoint
<1>4. Witnessed(p, amount) = w
  BY DEF Witnessed
<1>5. cap \in Nat /\ floor \in Nat  BY <1>1 DEF History
<1> HIDE DEF h, cap, floor, peak, moves, fell, reading, reading_at
<1>6. w \in History  BY <1>2, <1>3, <1>5, HistoryRecord
<1>7. w.cap = cap /\ w.floor = floor /\ w.peak = peak  OBVIOUS
<1> HIDE DEF w
<1> QED  BY <1>2, <1>4, <1>6, <1>7 DEF h, cap, floor

LEMMA TransferInv ==
  ASSUME Inv, SInv, NEW a \in Agents, NEW amount \in Balances,
         Transfer(a, amount)
  PROVE  SInv'
<1>1. /\ balance' = [balance EXCEPT ![a] = amount]
      /\ history' = [p \in Policies |->
           IF Live(p) /\ agent[p] = a THEN Witnessed(p, amount) ELSE history[p]]
      /\ policy' = policy /\ now' = now /\ agent' = agent
      /\ checkpoint' = checkpoint /\ mandate' = mandate
  BY DEF Transfer, vars
<1>2. amount \in Nat  BY SettlementAssumption
<1>3. ASSUME NEW p \in Policies
      PROVE  /\ history'[p] \in History
             /\ history'[p].cap = history[p].cap
             /\ history'[p].floor = history[p].floor
             /\ history'[p].peak >= history[p].peak
  <2>1. history[p] \in History  BY DEF SInv, SettlementTypeOK
  <2>2. history[p].peak \in Nat  BY <2>1 DEF History
  <2>3. CASE Live(p) /\ agent[p] = a
    <3>1. history'[p] = Witnessed(p, amount)  BY <1>1, <2>3
    <3> QED  BY <1>2, <3>1, WitnessedFacts
  <2>4. CASE ~(Live(p) /\ agent[p] = a)
    <3>1. history'[p] = history[p]  BY <1>1, <2>4
    <3> QED  BY <2>1, <2>2, <3>1
  <2> QED  BY <2>3, <2>4
<1>4. SettlementTypeOK'
  <2>1. balance' \in [Agents -> Nat]
    BY <1>1, <1>2 DEF SInv, SettlementTypeOK
  <2>2. history' \in [Policies -> History]  BY <1>1, <1>3
  <2> QED  BY <1>1, <2>1, <2>2 DEF SInv, SettlementTypeOK
<1>5. ReadingsBelowPeak'
  <2> SUFFICES ASSUME NEW p \in Policies, Live(p)
               PROVE  /\ policy[p].state = Active
                           \/ now <= policy[p].claim_submitted_at
                           => balance'[agent[p]] <= history'[p].peak
                      /\ policy[p].state = Active
                           \/ checkpoint[p].time <= policy[p].claim_submitted_at
                           => checkpoint[p].amount <= history'[p].peak
                      /\ policy[p].state = Active
                           \/ checkpoint[p].prev_time <= policy[p].claim_submitted_at
                           => checkpoint[p].prev_amount <= history'[p].peak
    BY <1>1 DEF ReadingsBelowPeak, Held, Live
  <2>1. /\ history[p].peak \in Nat /\ history'[p].peak \in Nat
        /\ checkpoint[p].amount \in Nat /\ checkpoint[p].prev_amount \in Nat
    BY <1>3 DEF SInv, SettlementTypeOK, History, Checkpoint
  <2>2. agent[p] \in Agents
    BY DEF SInv, SettlementTypeOK, Live, Active, Pending, Unopened
  <2>3. ASSUME policy[p].state = Active \/ now <= policy[p].claim_submitted_at
        PROVE  balance'[agent[p]] <= history'[p].peak
    <3>1. CASE agent[p] = a
      <4>1. balance'[agent[p]] = amount
        BY <1>1, <3>1 DEF SInv, SettlementTypeOK
      <4>2. history'[p] = Witnessed(p, amount)  BY <1>1, <3>1
      <4> QED  BY <1>2, <2>1, <2>3, <4>1, <4>2, WitnessedFacts
    <3>2. CASE agent[p] # a
      <4>1. balance'[agent[p]] = Held(p) /\ history'[p] = history[p]
        BY <1>1, <2>2, <3>2 DEF SInv, SettlementTypeOK, Held
      <4> QED  BY <2>3, <4>1 DEF SInv, ReadingsBelowPeak
    <3> QED  BY <3>1, <3>2
  <2> QED  BY <1>3, <2>1, <2>3 DEF SInv, ReadingsBelowPeak
<1>6. EnvelopesNoNarrower'
  BY <1>1, <1>3 DEF SInv, EnvelopesNoNarrower
<1> QED  BY <1>4, <1>5, <1>6 DEF SInv

LEMMA CreateCoveredInv ==
  ASSUME Inv, SInv, NEW a \in Agents, NEW tier \in Tiers, NEW c \in Coverages,
         NEW d \in Durations, NEW f \in FlatPremiums, NEW cap \in Caps,
         NEW floor \in Floors, CreateCovered(a, tier, c, d, f, cap, floor)
  PROVE  SInv'
<1> DEFINE seed == [amount |-> balance[a], time |-> now,
                    prev_amount |-> balance[a], prev_time |-> now]
           priced == [cap |-> cap, floor |-> floor, effective_at |-> now,
                      prev_cap |-> 0, prev_floor |-> 0, prev_effective_at |-> 0]
           opened == [cap |-> cap, floor |-> floor, peak |-> balance[a],
                      moves |-> "none", fell_at |-> 0, reading |-> 0,
                      reading_at |-> 0]
<1> SUFFICES ASSUME NEW p, p = policy_counter  PROVE SInv'
  OBVIOUS
<1>1. /\ CreatePolicy(tier, c, d, f)
      /\ agent' = [agent EXCEPT ![p] = a]
      /\ checkpoint' = [checkpoint EXCEPT ![p] = seed]
      /\ mandate' = [mandate EXCEPT ![p] = priced]
      /\ history' = [history EXCEPT ![p] = opened]
      /\ balance' = balance
  BY DEF CreateCovered, SeededCheckpoint, Declared, NoMandate, Untouched
<1>2. /\ p \in Policies /\ now' = now /\ now \in Nat
      /\ policy'[p].state = Active /\ policy'[p].start_time = now
      /\ \A q \in Policies \ {p} : policy'[q] = policy[q]
  BY <1>1, CreateTerms
<1>3. balance[a] \in Nat /\ cap \in Nat /\ floor \in Nat
  BY SettlementAssumption DEF SInv, SettlementTypeOK
<1>4. seed \in Checkpoint /\ priced \in Mandate /\ opened \in History
  BY <1>2, <1>3 DEF Checkpoint, Mandate, History
<1>5. /\ agent'[p] = a /\ checkpoint'[p] = seed /\ mandate'[p] = priced
      /\ history'[p] = opened
      /\ \A q \in Policies \ {p} :
           /\ agent'[q] = agent[q] /\ checkpoint'[q] = checkpoint[q]
           /\ mandate'[q] = mandate[q] /\ history'[q] = history[q]
  BY <1>1, <1>2 DEF SInv, SettlementTypeOK
<1>6. SettlementTypeOK'
  <2>1. /\ agent' \in [Policies -> Agents \cup {NoAgent}]
        /\ checkpoint' \in [Policies -> Checkpoint]
        /\ mandate' \in [Policies -> Mandate]
        /\ history' \in [Policies -> History]
        /\ balance' \in [Agents -> Nat]
    BY <1>1, <1>4 DEF SInv, SettlementTypeOK
  <2>2. ASSUME NEW q \in Policies, policy'[q].state # Unopened
        PROVE  /\ agent'[q] \in Agents
               /\ policy'[q].start_time <= checkpoint'[q].prev_time
               /\ checkpoint'[q].prev_time <= checkpoint'[q].time
               /\ checkpoint'[q].time <= now'
    <3>1. CASE q = p  BY <1>2, <1>5, <3>1
    <3>2. CASE q # p
      BY <1>2, <1>5, <2>2, <3>2 DEF SInv, SettlementTypeOK
    <3> QED  BY <3>1, <3>2
  <2> QED  BY <2>1, <2>2 DEF SettlementTypeOK
<1>7. ReadingsBelowPeak'
  <2> SUFFICES ASSUME NEW q \in Policies, Live(q)'
               PROVE  /\ policy'[q].state = Active
                           \/ now <= policy'[q].claim_submitted_at
                           => balance[agent'[q]] <= history'[q].peak
                      /\ policy'[q].state = Active
                           \/ checkpoint'[q].time <= policy'[q].claim_submitted_at
                           => checkpoint'[q].amount <= history'[q].peak
                      /\ policy'[q].state = Active
                           \/ checkpoint'[q].prev_time <= policy'[q].claim_submitted_at
                           => checkpoint'[q].prev_amount <= history'[q].peak
    BY <1>1, <1>2 DEF ReadingsBelowPeak, Held
  <2>1. CASE q = p  BY <1>3, <1>5, <2>1
  <2>2. CASE q # p
    <3>1. Live(q)  BY <1>2, <2>2 DEF Live
    <3> QED  BY <1>2, <1>5, <2>2, <3>1 DEF SInv, ReadingsBelowPeak, Held
  <2> QED  BY <2>1, <2>2
<1>8. EnvelopesNoNarrower'
  <2> SUFFICES ASSUME NEW q \in Policies, policy'[q].state # Unopened
               PROVE  /\ mandate'[q].cap >= history'[q].cap
                      /\ mandate'[q].floor <= history'[q].floor
                      /\ mandate'[q].prev_effective_at > 0 =>
                           /\ mandate'[q].prev_cap >= history'[q].cap
                           /\ mandate'[q].prev_floor <= history'[q].floor
    BY DEF EnvelopesNoNarrower
  <2>1. CASE q = p  BY <1>3, <1>5, <2>1
  <2>2. CASE q # p  BY <1>2, <1>5, <2>2 DEF SInv, EnvelopesNoNarrower
  <2> QED  BY <2>1, <2>2
<1> QED  BY <1>6, <1>7, <1>8 DEF SInv

-----------------------------------------------------------------------------
(* Every step preserves the invariant. *)

LEMMA PayCoverInv ==
  ASSUME Inv, Inv', SInv, NEW p \in Policies, NEW amount \in Payouts,
         PayExploit(p, amount) \/ PayAgentError(p, amount)
  PROVE  SInv'
<1>1. PayClaim(p, amount) /\ UNCHANGED coverVars
  BY DEF PayExploit, FallMeasurable, PayAgentError, BreachMeasurable,
      EnvelopeOfClaim
<1> QED  BY <1>1, PayTerms, CoverKept

LEMMA CoverStutter ==
  ASSUME Inv, Inv', SInv, UNCHANGED settlementVars
  PROVE  SInv'
<1>1. policy' = policy /\ now' = now /\ UNCHANGED coverVars
  BY DEF settlementVars, vars
<1>2. \A p \in Policies : TermsMove(p)
  BY <1>1, PolicyKept DEF Inv, TypeOK
<1> QED  BY <1>1, <1>2, CoverKept

LEMMA CoverStepInv ==
  ASSUME Inv, Inv', SInv, [SettlementNext]_settlementVars
  PROVE  SInv'
<1>1. CASE PoolStep
  <2>1. \A p \in Policies : TermsMove(p)  BY <1>1, PoolStepTerms
  <2>2. UNCHANGED coverVars  BY <1>1 DEF PoolStep
  <2> QED  BY <2>1, <2>2, CoverKept
<1>2. ASSUME NEW p \in Policies, SettlementStep(p)
      PROVE  SInv'
  BY <1>2, CheckpointBalanceInv, DeclareAgentMandateInv, PayCoverInv
  DEF SettlementStep
<1>3. ASSUME NEW a \in Agents, NEW amount \in Balances, Transfer(a, amount)
      PROVE  SInv'
  BY <1>3, TransferInv
<1>4. ASSUME NEW a \in Agents, NEW tier \in Tiers, NEW c \in Coverages,
             NEW d \in Durations, NEW f \in FlatPremiums, NEW cap \in Caps,
             NEW floor \in Floors, CreateCovered(a, tier, c, d, f, cap, floor)
      PROVE  SInv'
  BY <1>4, CreateCoveredInv
<1>5. CASE UNCHANGED settlementVars  BY <1>5, CoverStutter
<1> QED  BY <1>1, <1>2, <1>3, <1>4, <1>5 DEF SettlementNext

LEMMA CoverInvariance == SettlementSpec => [](Inv /\ SInv)
<1>1. SettlementInit => SInv  BY SettlementInitInv
<1>2. Inv /\ Inv' /\ SInv /\ [SettlementNext]_settlementVars => SInv'
  BY CoverStepInv
<1> QED  BY <1>1, <1>2, PoolInvariance, PTL DEF SettlementSpec

\* The readings and envelopes of every policy are well formed, and the
\* readings of an open policy were taken during its cover, in order.
THEOREM SettlementTypeCorrect == SettlementSpec => []SettlementTypeOK
<1>1. SInv => SettlementTypeOK  BY DEF SInv
<1> QED  BY <1>1, CoverInvariance, PTL

-----------------------------------------------------------------------------
(* What a payout is bounded by. *)

\* Only a settlement makes a policy Paid.
LEMMA PaidBySettlement ==
  ASSUME Inv, SInv, [SettlementNext]_settlementVars, NEW p \in Policies,
         policy[p].state # Paid, policy'[p].state = Paid
  PROVE  \E amount \in Payouts :
           /\ PayExploit(p, amount) \/ PayAgentError(p, amount)
           /\ policy'[p].payout_amount = amount
<1> USE DEF Paid, Active, Pending, Expired, Cancelled
<1>1. CASE PoolStep
  BY <1>1, SharedStepPaysNone DEF PoolStep, SharedStep
<1>2. ASSUME NEW q \in Policies, SettlementStep(q)
      PROVE  \E amount \in Payouts :
               /\ PayExploit(p, amount) \/ PayAgentError(p, amount)
               /\ policy'[p].payout_amount = amount
  <2>1. CASE CheckpointBalance(q)  BY <2>1 DEF CheckpointBalance, vars
  <2>2. ASSUME NEW cap \in Caps, NEW floor \in Floors,
               DeclareAgentMandate(q, cap, floor)
        PROVE  FALSE
    BY <2>2 DEF DeclareAgentMandate, vars
  <2>3. ASSUME NEW amount \in Payouts,
               PayExploit(q, amount) \/ PayAgentError(q, amount)
        PROVE  q = p /\ policy'[p].payout_amount = amount
    <3>1. policy' = [policy EXCEPT ![q].state = Paid, ![q].payout_amount = amount]
      BY <2>3 DEF PayExploit, FallMeasurable, PayAgentError, BreachMeasurable,
          EnvelopeOfClaim, PayClaim
    <3>2. /\ policy'[q].payout_amount = amount
          /\ \A r \in Policies \ {q} : policy'[r] = policy[r]
      BY <3>1 DEF Inv, TypeOK, InsurancePolicy
    <3> QED  BY <3>2
  <2> QED  BY <1>2, <2>1, <2>2, <2>3 DEF SettlementStep
<1>3. ASSUME NEW a \in Agents, NEW amount \in Balances, Transfer(a, amount)
      PROVE  FALSE
  BY <1>3 DEF Transfer, vars
<1>4. ASSUME NEW a \in Agents, NEW tier \in Tiers, NEW c \in Coverages,
             NEW d \in Durations, NEW f \in FlatPremiums, NEW cap \in Caps,
             NEW floor \in Floors, CreateCovered(a, tier, c, d, f, cap, floor)
      PROVE  FALSE
  <2> SUFFICES ASSUME NEW q, q = policy_counter  PROVE FALSE
    OBVIOUS
  <2>1. CreatePolicy(tier, c, d, f)  BY <1>4 DEF CreateCovered
  <2>2. /\ policy'[q].state = Active
        /\ \A r \in Policies \ {q} : policy'[r] = policy[r]
    BY <2>1, CreateTerms
  <2> QED  BY <2>2
<1>5. CASE UNCHANGED settlementVars  BY <1>5 DEF settlementVars, vars
<1> QED  BY <1>1, <1>2, <1>3, <1>4, <1>5 DEF SettlementNext

\* The reading a payout measures from is not above the peak, because it was
\* taken before the claim was filed.
LEMMA BaselineBelowPeak ==
  ASSUME Inv, SInv, NEW p \in Policies, policy[p].state = Pending,
         BaselineDuringCover(p)
  PROVE  /\ Baseline(p).amount \in Nat
         /\ Held(p) \in Nat /\ history[p].peak \in Nat
         /\ Baseline(p).amount <= history[p].peak
<1>1. /\ checkpoint[p].amount \in Nat /\ checkpoint[p].prev_amount \in Nat
      /\ checkpoint[p].time \in Nat /\ checkpoint[p].prev_time \in Nat
      /\ history[p].peak \in Nat
  BY DEF SInv, SettlementTypeOK, Checkpoint, History
<1>2. agent[p] \in Agents /\ Held(p) \in Nat
  BY DEF SInv, SettlementTypeOK, Held, Pending, Unopened
<1>3. \/ /\ Baseline(p).amount = checkpoint[p].amount
         /\ Baseline(p).time = checkpoint[p].time
      \/ /\ Baseline(p).amount = checkpoint[p].prev_amount
         /\ Baseline(p).time = checkpoint[p].prev_time
  BY DEF Baseline
<1>4. Live(p)  BY DEF Live
<1> QED
  BY <1>1, <1>2, <1>3, <1>4 DEF BaselineDuringCover, SInv, ReadingsBelowPeak

LEMMA OvershootWithinDrop ==
  ASSUME NEW drop \in Nat, NEW held \in Nat, NEW cap \in Nat, NEW floor \in Nat
  PROVE  Overshoot(drop, held, cap, floor) \in 0..drop
BY DEF Overshoot, Minus, Lesser, Greater

\* A narrower envelope has the larger overshoot.
LEMMA OvershootAntitone ==
  ASSUME NEW drop \in Nat, NEW held \in Nat,
         NEW cap \in Nat, NEW cap2 \in Nat, cap2 >= cap,
         NEW floor \in Nat, NEW floor2 \in Nat, floor2 <= floor
  PROVE  Overshoot(drop, held, cap2, floor2) <= Overshoot(drop, held, cap, floor)
BY DEF Overshoot, Minus, Lesser, Greater

\* What a settlement of either kind establishes about the amount it pays.
LEMMA SettledWithinDrop ==
  ASSUME Inv, SInv, NEW p \in Policies, NEW amount \in Payouts,
         PayExploit(p, amount) \/ PayAgentError(p, amount)
  PROVE  /\ Drop(p) \in Nat
         /\ amount <= Drop(p)
         /\ Drop(p) <= history[p].peak - Held(p)
<1>1. policy[p].state = Pending /\ BaselineDuringCover(p) /\ amount \in Nat
      /\ amount > 0
  BY VaultAssumption DEF PayExploit, FallMeasurable, PayAgentError,
      BreachMeasurable, EnvelopeOfClaim, PayClaim
<1>2. /\ Baseline(p).amount \in Nat
      /\ Held(p) \in Nat /\ history[p].peak \in Nat
      /\ Baseline(p).amount <= history[p].peak
  BY <1>1, BaselineBelowPeak
<1>3. /\ Drop(p) \in Nat
      /\ Drop(p) > 0 => Drop(p) = Baseline(p).amount - Held(p)
  BY <1>2 DEF Drop, Minus
<1>4. amount <= Drop(p)
  <2>1. CASE PayExploit(p, amount)  BY <2>1 DEF PayExploit, FallMeasurable
  <2>2. CASE PayAgentError(p, amount)
    <3> DEFINE e == EnvelopeAt(mandate[p], policy[p].claim_submitted_at)
    <3>1. amount <= Overshoot(Drop(p), Held(p), e.cap, e.floor)
      BY <2>2 DEF PayAgentError, BreachMeasurable, EnvelopeOfClaim
    <3>2. e.cap \in Nat /\ e.floor \in Nat
      <4>1. mandate[p] \in Mandate  BY DEF SInv, SettlementTypeOK
      <4> QED  BY <4>1 DEF Mandate, EnvelopeAt
    <3> HIDE DEF e
    <3>3. Overshoot(Drop(p), Held(p), e.cap, e.floor) \in 0..Drop(p)
      BY <1>2, <1>3, <3>2, OvershootWithinDrop
    <3> QED  BY <1>1, <1>3, <3>1, <3>3
  <2> QED  BY <2>1, <2>2
<1> QED  BY <1>1, <1>2, <1>3, <1>4

\* However ticks, transfers and filings interleave, a settlement pays no more
\* than the account lost from a balance it held while it was covered.
THEOREM PayoutsWithinFall == SettlementSpec => PayoutWithinFall
<1> DEFINE A == \A p \in Policies :
             (policy[p].state # Paid /\ policy'[p].state = Paid
                /\ policy[p].trigger_type \in {EXPLOIT, AGENT_ERROR})
               => policy'[p].payout_amount <= history[p].peak - Held(p)
<1>1. ASSUME Inv, SInv, [SettlementNext]_settlementVars  PROVE A
  <2> SUFFICES ASSUME NEW p \in Policies,
                      policy[p].state # Paid, policy'[p].state = Paid
               PROVE  policy'[p].payout_amount <= history[p].peak - Held(p)
    OBVIOUS
  <2>1. PICK amount \in Payouts :
          /\ PayExploit(p, amount) \/ PayAgentError(p, amount)
          /\ policy'[p].payout_amount = amount
    BY <1>1, PaidBySettlement
  <2>2. /\ Drop(p) \in Nat /\ amount <= Drop(p)
        /\ Drop(p) <= history[p].peak - Held(p)
    BY <1>1, <2>1, SettledWithinDrop
  <2>3. /\ amount \in Nat /\ history[p].peak \in Nat /\ Held(p) \in Nat
    <3>1. agent[p] \in Agents
      BY <1>1, <2>1
      DEF PayExploit, FallMeasurable, PayAgentError, BreachMeasurable,
          EnvelopeOfClaim, PayClaim, SInv, SettlementTypeOK, Pending,
          Unopened
    <3> QED
      BY <1>1, <3>1, VaultAssumption DEF SInv, SettlementTypeOK, History, Held
  <2> QED  BY <2>1, <2>2, <2>3
<1>2. Inv /\ SInv /\ [SettlementNext]_settlementVars => [A]_settlementVars
  BY <1>1
<1> QED
  BY <1>2, CoverInvariance, PTL DEF SettlementSpec, PayoutWithinFall

\* An agent-error payout is within the overshoot of the envelope whose price
\* was paid: both envelopes an account keeps are at least as wide.
THEOREM OvershootsOfPricedEnvelope == SettlementSpec => OvershootOfPricedEnvelope
<1> DEFINE priced(p) ==
             Overshoot(Drop(p), Held(p), history[p].cap, history[p].floor)
           A == \A p \in Policies :
             (policy[p].state # Paid /\ policy'[p].state = Paid
                /\ policy[p].trigger_type = AGENT_ERROR)
               => policy'[p].payout_amount <= priced(p)
<1>1. ASSUME Inv, SInv, [SettlementNext]_settlementVars  PROVE A
  <2> SUFFICES ASSUME NEW p \in Policies,
                      policy[p].state # Paid, policy'[p].state = Paid,
                      policy[p].trigger_type = AGENT_ERROR
               PROVE  policy'[p].payout_amount <= priced(p)
    OBVIOUS
  <2>1. PICK amount \in Payouts :
          /\ PayExploit(p, amount) \/ PayAgentError(p, amount)
          /\ policy'[p].payout_amount = amount
    BY <1>1, PaidBySettlement
  <2>2. PayAgentError(p, amount)
    BY <2>1, SettlementAssumption DEF PayExploit, FallMeasurable
  <2> DEFINE e == EnvelopeAt(mandate[p], policy[p].claim_submitted_at)
  <2>3. /\ amount <= Overshoot(Drop(p), Held(p), e.cap, e.floor)
        /\ e.effective_at \in 1..policy[p].claim_submitted_at
        /\ policy[p].state = Pending
    BY <2>2 DEF PayAgentError, BreachMeasurable, EnvelopeOfClaim, PayClaim
  <2>4. policy[p].state # Unopened /\ agent[p] \in Agents
    BY <1>1, <2>3 DEF SInv, SettlementTypeOK, Pending, Unopened
  <2>5. /\ Drop(p) \in Nat /\ Held(p) \in Nat /\ amount \in Nat
        /\ history[p].cap \in Nat /\ history[p].floor \in Nat
    <3>1. history[p] \in History  BY <1>1 DEF SInv, SettlementTypeOK
    <3>2. Drop(p) \in Nat  BY <1>1, <2>1, SettledWithinDrop
    <3>3. Held(p) \in Nat  BY <1>1, <2>4 DEF SInv, SettlementTypeOK, Held
    <3> QED  BY <3>1, <3>2, <3>3, VaultAssumption DEF History
  <2>6. mandate[p] \in Mandate  BY <1>1 DEF SInv, SettlementTypeOK
  <2>7. /\ e.cap \in Nat /\ e.floor \in Nat
        /\ e.cap >= history[p].cap /\ e.floor <= history[p].floor
    <3>1. /\ mandate[p].cap >= history[p].cap
          /\ mandate[p].floor <= history[p].floor
          /\ mandate[p].prev_effective_at > 0 =>
               /\ mandate[p].prev_cap >= history[p].cap
               /\ mandate[p].prev_floor <= history[p].floor
      BY <1>1, <2>4 DEF SInv, EnvelopesNoNarrower
    <3>2. e.effective_at > 0  BY <2>3
    <3> QED  BY <2>6, <3>1, <3>2 DEF EnvelopeAt, Mandate
  <2> HIDE DEF e
  <2>8. Overshoot(Drop(p), Held(p), e.cap, e.floor) <= priced(p)
    BY <2>5, <2>7, OvershootAntitone
  <2>9. /\ Overshoot(Drop(p), Held(p), e.cap, e.floor) \in Nat
        /\ priced(p) \in Nat
    <3>1. Overshoot(Drop(p), Held(p), e.cap, e.floor) \in 0..Drop(p)
      BY <2>5, <2>7, OvershootWithinDrop
    <3>2. priced(p) \in 0..Drop(p)
      BY <2>5, OvershootWithinDrop
    <3> HIDE DEF priced
    <3> QED  BY <2>5, <3>1, <3>2
  <2> HIDE DEF priced
  <2> QED  BY <2>1, <2>3, <2>5, <2>8, <2>9
<1>2. Inv /\ SInv /\ [SettlementNext]_settlementVars => [A]_settlementVars
  BY <1>1
<1> QED
  BY <1>2, CoverInvariance, PTL DEF SettlementSpec, OvershootOfPricedEnvelope

-----------------------------------------------------------------------------
(* A lone drain is measured. *)

\* Until the account moves, both readings are of what it holds; since its only
\* fall, the reading before it is the current one or, for as long as a payout
\* could use it, the pin.
ReadingsOfOneFall(p) ==
  LET c == checkpoint[p]
      h == history[p]
  IN /\ c.time >= 1
     /\ h.moves = "none" => c.amount = Held(p) /\ c.prev_amount = Held(p)
     /\ h.moves = "one_fall" =>
          /\ Held(p) < h.reading
          /\ h.reading_at \in 1..h.fell_at
          /\ \/ /\ c.amount = h.reading /\ c.time = h.reading_at
                /\ c.prev_amount = h.reading
             \/ /\ c.amount = Held(p)
                /\ now - h.reading_at <= MAX_CHECKPOINT_AGE
                     => c.prev_amount = h.reading /\ c.prev_time = h.reading_at

OneFallKept == \A p \in Policies : Live(p) => ReadingsOfOneFall(p)

LEMMA OneFallInit ==
  ASSUME SettlementInit
  PROVE  OneFallKept
BY DEF SettlementInit, Init, NoPolicy, OneFallKept, Live, Active, Pending,
       Unopened

LEMMA OneFallUndisturbed ==
  ASSUME Inv, Inv', SInv, OneFallKept, \A p \in Policies : TermsMove(p),
         balance' = balance, agent' = agent, checkpoint' = checkpoint,
         history' = history
  PROVE  OneFallKept'
<1> SUFFICES ASSUME NEW p \in Policies, Live(p)'
             PROVE  ReadingsOfOneFall(p)'
  BY DEF OneFallKept
<1>1. Live(p) /\ now' >= now  BY DEF Live, TermsMove
<1>2. ReadingsOfOneFall(p)  BY <1>1 DEF OneFallKept
<1>3. /\ now \in Nat /\ now' \in Nat /\ history[p].reading_at \in Nat
      /\ MAX_CHECKPOINT_AGE \in Nat
  BY SettlementAssumption
  DEF Inv, TypeOK, SInv, SettlementTypeOK, History
<1>4. now' - history[p].reading_at <= MAX_CHECKPOINT_AGE
        => now - history[p].reading_at <= MAX_CHECKPOINT_AGE
  BY <1>1, <1>3
<1>5. Held(p)' = Held(p)  BY DEF Held
<1> QED  BY <1>2, <1>4, <1>5 DEF ReadingsOfOneFall

LEMMA OneFallCheckpoint ==
  ASSUME Inv, SInv, OneFallKept, NEW p \in Policies, CheckpointBalance(p)
  PROVE  OneFallKept'
<1> DEFINE kept == Retained(p)
           new == [amount |-> Held(p), time |-> now,
                   prev_amount |-> kept.amount, prev_time |-> kept.time]
           c == checkpoint[p]
           h == history[p]
<1>1. /\ Live(p) /\ checkpoint' = [checkpoint EXCEPT ![p] = new]
      /\ policy' = policy /\ now' = now /\ balance' = balance
      /\ agent' = agent /\ history' = history
  BY DEF CheckpointBalance, vars
<1>2. /\ checkpoint'[p] = new
      /\ \A q \in Policies \ {p} : checkpoint'[q] = checkpoint[q]
  BY <1>1 DEF SInv, SettlementTypeOK
<1>3. ReadingsOfOneFall(p)  BY <1>1 DEF OneFallKept
<1>4. now >= 1  BY DEF Inv, TypeOK
<1>5. /\ Held(p) \in Nat /\ now \in Nat
      /\ c.amount \in Nat /\ c.time \in Nat
      /\ c.prev_amount \in Nat /\ c.prev_time \in Nat
      /\ h.reading \in Nat /\ h.reading_at \in Nat
  <2>1. c \in Checkpoint /\ h \in History
    BY DEF SInv, SettlementTypeOK
  <2>2. Held(p) \in Nat
    BY <1>1 DEF SInv, SettlementTypeOK, Held, Live, Active, Pending, Unopened
  <2> QED  BY <2>1, <2>2 DEF Checkpoint, History, Inv, TypeOK
<1>6. ReadingsOfOneFall(p)'
  <2>1. h.moves = "none" => kept.amount = Held(p)
    BY <1>3 DEF ReadingsOfOneFall, Retained
  <2>2. ASSUME h.moves = "one_fall", now - h.reading_at <= MAX_CHECKPOINT_AGE
        PROVE  kept.amount = h.reading /\ kept.time = h.reading_at
    <3>1. Held(p) < h.reading  BY <1>3, <2>2 DEF ReadingsOfOneFall
    <3>2. CASE c.amount = h.reading /\ c.time = h.reading_at
      BY <3>1, <3>2 DEF Retained
    <3>3. CASE /\ c.amount = Held(p) /\ c.prev_amount = h.reading
               /\ c.prev_time = h.reading_at
      <4>1. ~(Held(p) < c.amount) /\ c.prev_amount > c.amount
        BY <1>5, <3>1, <3>3
      <4>2. ~(now - c.prev_time > MAX_CHECKPOINT_AGE)
        BY <1>5, <2>2, <3>3, SettlementAssumption
      <4> QED  BY <3>3, <4>1, <4>2 DEF Retained
    <3> QED  BY <1>3, <2>2, <3>2, <3>3 DEF ReadingsOfOneFall
  <2> HIDE DEF kept
  <2>3. /\ checkpoint'[p].amount = Held(p) /\ checkpoint'[p].time = now
        /\ checkpoint'[p].prev_amount = kept.amount
        /\ checkpoint'[p].prev_time = kept.time
    BY <1>2
  <2>4. history'[p] = h /\ Held(p)' = Held(p)  BY <1>1 DEF Held
  <2> QED
    BY <1>1, <1>3, <1>4, <2>1, <2>2, <2>3, <2>4 DEF ReadingsOfOneFall
<1>7. ASSUME NEW q \in Policies \ {p}, Live(q)'  PROVE ReadingsOfOneFall(q)'
  <2>1. ReadingsOfOneFall(q)  BY <1>1, <1>7 DEF OneFallKept, Live
  <2> QED  BY <1>1, <1>2, <2>1 DEF ReadingsOfOneFall, Held
<1> QED  BY <1>6, <1>7 DEF OneFallKept

LEMMA WitnessedMove ==
  ASSUME NEW p \in Policies, NEW amount \in Nat
  PROVE  LET w == Witnessed(p, amount)
             first_fall == history[p].moves = "none" /\ amount < Held(p)
         IN /\ first_fall =>
                 /\ w.moves = "one_fall" /\ w.fell_at = now
                 /\ w.reading = checkpoint[p].amount
                 /\ w.reading_at = checkpoint[p].time
            /\ ~first_fall => w.moves = "many"
<1> DEFINE h == history[p]
           first == h.moves = "none" /\ amount < Held(p)
           peak == IF policy[p].state = Active
                        \/ now <= policy[p].claim_submitted_at
                     THEN Greater(h.peak, amount) ELSE h.peak
           cap == h.cap
           floor == h.floor
           w == [cap |-> cap, floor |-> floor, peak |-> peak,
                 moves |-> IF first THEN "one_fall" ELSE "many",
                 fell_at |-> IF first THEN now ELSE 0,
                 reading |-> IF first THEN checkpoint[p].amount ELSE 0,
                 reading_at |-> IF first THEN checkpoint[p].time ELSE 0]
<1>1. Witnessed(p, amount) = w  BY DEF Witnessed
<1> HIDE DEF cap, floor, peak, first
<1>2. /\ w.moves = IF first THEN "one_fall" ELSE "many"
      /\ w.fell_at = IF first THEN now ELSE 0
      /\ w.reading = IF first THEN checkpoint[p].amount ELSE 0
      /\ w.reading_at = IF first THEN checkpoint[p].time ELSE 0
  OBVIOUS
<1> HIDE DEF w
<1>3. /\ first => /\ w.moves = "one_fall" /\ w.fell_at = now
                  /\ w.reading = checkpoint[p].amount
                  /\ w.reading_at = checkpoint[p].time
      /\ ~first => w.moves = "many"
  BY <1>2
<1> QED  BY <1>1, <1>3 DEF first, h

LEMMA OneFallTransfer ==
  ASSUME Inv, SInv, OneFallKept, NEW a \in Agents, NEW amount \in Balances,
         Transfer(a, amount)
  PROVE  OneFallKept'
<1>1. /\ amount # balance[a]
      /\ balance' = [balance EXCEPT ![a] = amount]
      /\ history' = [p \in Policies |->
           IF Live(p) /\ agent[p] = a THEN Witnessed(p, amount) ELSE history[p]]
      /\ policy' = policy /\ now' = now /\ agent' = agent
      /\ checkpoint' = checkpoint
  BY DEF Transfer, vars
<1> SUFFICES ASSUME NEW p \in Policies, Live(p)
             PROVE  ReadingsOfOneFall(p)'
  BY <1>1 DEF OneFallKept, Live
<1>2. ReadingsOfOneFall(p)  BY DEF OneFallKept
<1>3. agent[p] \in Agents /\ checkpoint[p].time <= now
  BY DEF SInv, SettlementTypeOK, Live, Active, Pending, Unopened
<1>4. /\ checkpoint[p].time \in Nat /\ checkpoint[p].amount \in Nat
      /\ now \in Nat /\ amount \in Nat
  BY SettlementAssumption
  DEF SInv, SettlementTypeOK, Checkpoint, Inv, TypeOK
<1>5. CASE agent[p] # a
  <2>1. Held(p)' = Held(p) /\ history'[p] = history[p]
    BY <1>1, <1>3, <1>5 DEF SInv, SettlementTypeOK, Held
  <2> QED  BY <1>1, <1>2, <2>1 DEF ReadingsOfOneFall
<1>6. CASE agent[p] = a
  <2>1. /\ Held(p)' = amount /\ Held(p) = balance[a]
        /\ history'[p] = Witnessed(p, amount)
    BY <1>1, <1>6 DEF SInv, SettlementTypeOK, Held
  <2>2. CASE history[p].moves = "none" /\ amount < Held(p)
    <3>1. /\ history'[p].moves = "one_fall" /\ history'[p].fell_at = now
          /\ history'[p].reading = checkpoint[p].amount
          /\ history'[p].reading_at = checkpoint[p].time
      BY <1>4, <2>1, <2>2, WitnessedMove
    <3>2. /\ checkpoint[p].amount = Held(p)
          /\ checkpoint[p].prev_amount = Held(p) /\ checkpoint[p].time >= 1
      BY <1>2, <2>2 DEF ReadingsOfOneFall
    <3>3. checkpoint[p].time \in 1..now  BY <1>3, <1>4, <3>2
    <3> QED
      BY <1>1, <2>1, <2>2, <3>1, <3>2, <3>3 DEF ReadingsOfOneFall
  <2>3. CASE ~(history[p].moves = "none" /\ amount < Held(p))
    <3>1. history'[p].moves = "many"  BY <1>4, <2>1, <2>3, WitnessedMove
    <3> QED  BY <1>1, <1>2, <3>1 DEF ReadingsOfOneFall
  <2> QED  BY <2>2, <2>3
<1> QED  BY <1>5, <1>6

LEMMA OneFallCreate ==
  ASSUME Inv, SInv, OneFallKept, NEW a \in Agents, NEW tier \in Tiers,
         NEW c \in Coverages, NEW d \in Durations, NEW f \in FlatPremiums,
         NEW cap \in Caps, NEW floor \in Floors,
         CreateCovered(a, tier, c, d, f, cap, floor)
  PROVE  OneFallKept'
<1> DEFINE seed == SeededCheckpoint(balance[a])
           opened == Untouched(cap, floor, balance[a])
<1> SUFFICES ASSUME NEW p, p = policy_counter  PROVE OneFallKept'
  OBVIOUS
<1>1. /\ CreatePolicy(tier, c, d, f)
      /\ agent' = [agent EXCEPT ![p] = a]
      /\ checkpoint' = [checkpoint EXCEPT ![p] = seed]
      /\ history' = [history EXCEPT ![p] = opened]
      /\ balance' = balance
  BY DEF CreateCovered
<1>2. /\ p \in Policies /\ now' = now
      /\ \A q \in Policies \ {p} : policy'[q] = policy[q]
  BY <1>1, CreateTerms
<1>3. /\ seed.amount = balance[a] /\ seed.prev_amount = balance[a]
      /\ seed.time >= 1 /\ opened.moves = "none"
  BY DEF SeededCheckpoint, Untouched, Inv, TypeOK
<1> HIDE DEF seed, opened
<1>4. /\ agent'[p] = a /\ checkpoint'[p] = seed /\ history'[p] = opened
      /\ \A q \in Policies \ {p} :
           /\ agent'[q] = agent[q] /\ checkpoint'[q] = checkpoint[q]
           /\ history'[q] = history[q]
  BY <1>1, <1>2 DEF SInv, SettlementTypeOK
<1>5. ReadingsOfOneFall(p)'
  BY <1>1, <1>3, <1>4 DEF ReadingsOfOneFall, Held
<1>6. ASSUME NEW q \in Policies \ {p}, Live(q)'  PROVE ReadingsOfOneFall(q)'
  <2>1. ReadingsOfOneFall(q)  BY <1>2, <1>6 DEF OneFallKept, Live
  <2> QED  BY <1>1, <1>2, <1>4, <2>1 DEF ReadingsOfOneFall, Held
<1> QED  BY <1>5, <1>6 DEF OneFallKept

LEMMA OneFallStep ==
  ASSUME Inv, Inv', SInv, OneFallKept, [SettlementNext]_settlementVars
  PROVE  OneFallKept'
<1>1. CASE PoolStep
  <2>1. \A p \in Policies : TermsMove(p)  BY <1>1, PoolStepTerms
  <2> QED  BY <1>1, <2>1, OneFallUndisturbed DEF PoolStep, coverVars
<1>2. ASSUME NEW p \in Policies, SettlementStep(p)  PROVE OneFallKept'
  <2>1. CASE CheckpointBalance(p)  BY <2>1, OneFallCheckpoint
  <2>2. ASSUME NEW cap \in Caps, NEW floor \in Floors,
               DeclareAgentMandate(p, cap, floor)
        PROVE  OneFallKept'
    <3>1. /\ policy' = policy /\ now' = now /\ balance' = balance
          /\ agent' = agent /\ checkpoint' = checkpoint /\ history' = history
      BY <2>2 DEF DeclareAgentMandate, vars
    <3>2. \A q \in Policies : TermsMove(q)
      BY <3>1, PolicyKept DEF Inv, TypeOK
    <3> QED  BY <3>1, <3>2, OneFallUndisturbed
  <2>3. ASSUME NEW amount \in Payouts,
               PayExploit(p, amount) \/ PayAgentError(p, amount)
        PROVE  OneFallKept'
    <3>1. PayClaim(p, amount) /\ UNCHANGED coverVars
      BY <2>3 DEF PayExploit, FallMeasurable, PayAgentError, BreachMeasurable,
          EnvelopeOfClaim
    <3> QED  BY <3>1, PayTerms, OneFallUndisturbed DEF coverVars
  <2> QED  BY <1>2, <2>1, <2>2, <2>3 DEF SettlementStep
<1>3. ASSUME NEW a \in Agents, NEW amount \in Balances, Transfer(a, amount)
      PROVE  OneFallKept'
  BY <1>3, OneFallTransfer
<1>4. ASSUME NEW a \in Agents, NEW tier \in Tiers, NEW c \in Coverages,
             NEW d \in Durations, NEW f \in FlatPremiums, NEW cap \in Caps,
             NEW floor \in Floors, CreateCovered(a, tier, c, d, f, cap, floor)
      PROVE  OneFallKept'
  BY <1>4, OneFallCreate
<1>5. CASE UNCHANGED settlementVars
  <2>1. policy' = policy /\ now' = now /\ UNCHANGED coverVars
    BY <1>5 DEF settlementVars, vars
  <2>2. \A p \in Policies : TermsMove(p)
    BY <2>1, PolicyKept DEF Inv, TypeOK
  <2> QED  BY <2>1, <2>2, OneFallUndisturbed DEF coverVars
<1> QED  BY <1>1, <1>2, <1>3, <1>4, <1>5 DEF SettlementNext

LEMMA OneFallMeasured ==
  ASSUME Inv, SInv, OneFallKept
  PROVE  LoneDrainMeasured
<1> SUFFICES ASSUME NEW p \in Policies, LoneFall(p),
                    now - history[p].reading_at <= MAX_CHECKPOINT_AGE
             PROVE  LastReadingIsBaseline(p)
  BY DEF LoneDrainMeasured
<1> DEFINE c == checkpoint[p]
           h == history[p]
           filed == policy[p].claim_submitted_at
<1>1. policy[p].state = Pending /\ h.moves = "one_fall" /\ h.fell_at <= filed
  BY DEF LoneFall
<1>2. ReadingsOfOneFall(p)  BY <1>1 DEF OneFallKept, Live
<1>3. /\ Held(p) < h.reading /\ h.reading_at \in 1..h.fell_at
      /\ \/ /\ c.amount = h.reading /\ c.time = h.reading_at
            /\ c.prev_amount = h.reading
         \/ /\ c.amount = Held(p)
            /\ c.prev_amount = h.reading /\ c.prev_time = h.reading_at
  BY <1>1, <1>2 DEF ReadingsOfOneFall
<1>4. /\ h.reading \in Nat /\ h.reading_at \in Nat /\ h.fell_at \in Nat
      /\ filed \in Nat
  <2>1. h \in History  BY DEF SInv, SettlementTypeOK
  <2> QED  BY <2>1 DEF History, Inv, TypeOK, InsurancePolicy
<1>5. h.reading_at \in 1..filed
  <2>1. 1 <= h.reading_at /\ h.reading_at <= h.fell_at  BY <1>3, <1>4
  <2> HIDE DEF h, filed
  <2> QED  BY <1>1, <1>4, <2>1
<1>6. Held(p) \in Nat
  BY <1>1 DEF SInv, SettlementTypeOK, Held, Pending, Unopened
<1>7. CASE c.amount = h.reading /\ c.time = h.reading_at
           /\ c.prev_amount = h.reading
  <2>1. ~PinUsable(p)  BY <1>4, <1>7 DEF PinUsable
  <2>2. c.time <= filed  BY <1>4, <1>5, <1>7
  <2> QED  BY <1>7, <2>1, <2>2 DEF Baseline, LastReadingIsBaseline
<1>8. CASE c.amount = Held(p) /\ c.prev_amount = h.reading
           /\ c.prev_time = h.reading_at
  <2>1. PinUsable(p)  BY <1>3, <1>4, <1>5, <1>6, <1>8 DEF PinUsable
  <2> QED  BY <1>8, <2>1 DEF Baseline, LastReadingIsBaseline
<1> QED  BY <1>3, <1>7, <1>8

\* However often the account is read after its only fall, a payout within its
\* window is measured from the last reading before the fall.
THEOREM LoneDrainsMeasured == SettlementSpec => []LoneDrainMeasured
<1>1. SettlementInit => OneFallKept  BY OneFallInit
<1>2. Inv /\ Inv' /\ SInv /\ OneFallKept /\ [SettlementNext]_settlementVars
        => OneFallKept'
  BY OneFallStep
<1>3. Inv /\ SInv /\ OneFallKept => LoneDrainMeasured
  BY OneFallMeasured
<1> QED
  BY <1>1, <1>2, <1>3, CoverInvariance, PTL DEF SettlementSpec
=============================================================================
