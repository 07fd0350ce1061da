-------------------------- MODULE GovernanceProofs --------------------------
(***************************************************************************)
(* Theorems about the authority-proven settlement, for any number of       *)
(* agents, keys and policies and any protocol constants.                   *)
(*                                                                         *)
(* That a departure follows the holder's consent rests on ReadingsHold: a  *)
(* role that is not as a reading shows it has changed hands since.  That a *)
(* payout stays within reach rests on ReadingsBelowPeak, as it does in the *)
(* balance-proven settlements.                                             *)
(***************************************************************************)
EXTENDS Governance, VaultProofs

-----------------------------------------------------------------------------
(* The settlement refines the pool. *)
LEMMA GovernanceStepIsPoolStep ==
  ASSUME [GovernanceNext]_govVars
  PROVE  [Next]_vars
<1>1. CASE UngovernedStep
  BY <1>1 DEF UngovernedStep, Next, PolicyStep
<1>2. ASSUME NEW p \in Policies, GovernanceStep(p)
      PROVE  [Next]_vars
  <2>1. CASE CheckpointAuthority(p)  BY <2>1 DEF CheckpointAuthority
  <2>2. ASSUME NEW m \in Manifests, DeclareGovernanceBaseline(p, m)
        PROVE  UNCHANGED vars
    BY <2>2 DEF DeclareGovernanceBaseline
  <2>3. ASSUME NEW amount \in Payouts, PayGovernance(p, amount)
        PROVE  PolicyStep(p)
    BY <2>3 DEF PayGovernance, TakeoverMeasurable, PolicyStep
  <2> QED  BY <1>2, <2>1, <2>2, <2>3 DEF GovernanceStep, Next
<1>3. ASSUME NEW a \in Agents, AccountStep(a)  PROVE UNCHANGED vars
  BY <1>3
  DEF AccountStep, HandOver, Delegate, SetCloseAuthority, Freeze, Transfer,
      Becomes
<1>4. ASSUME NEW a \in Agents, NEW tier \in Tiers, NEW c \in Coverages,
             NEW d \in Durations, NEW f \in FlatPremiums,
             CreateGoverned(a, tier, c, d, f)
      PROVE  Next
  <2>1. CreatePolicy(tier, c, d, f)  BY <1>4 DEF CreateGoverned
  <2> QED  BY <2>1 DEF Next
<1>5. CASE UNCHANGED govVars  BY <1>5 DEF govVars
<1> QED  BY <1>1, <1>2, <1>3, <1>4, <1>5 DEF GovernanceNext

\* The pool with authorities is a pool: all that is proved of Vault holds of
\* it, whatever is declared, read and handed over.
THEOREM GovernanceImplementsPool == GovernanceSpec => Spec
<1>1. GovernanceInit => Init  BY DEF GovernanceInit
<1>2. [GovernanceNext]_govVars => [Next]_vars  BY GovernanceStepIsPoolStep
<1> QED  BY <1>1, <1>2, PTL DEF GovernanceSpec, Spec

LEMMA GovernedPoolInvariance == GovernanceSpec => []Inv
BY GovernanceImplementsPool, Invariance, PTL

-----------------------------------------------------------------------------
(* The inductive invariant. *)

Roles == {"owner", "delegate", "close_authority", "frozen"}

Readings(p) == {authority[p].current, authority[p].prev}

\* A role that is not as a reading of its account shows it has changed hands
\* since the reading.
ReadingsHold ==
  \A p \in Policies : policy[p].state # Unopened =>
    \A r \in Readings(p) : r # NoReading =>
      \A role \in Roles :
        r.control[role] # Observed(p).control[role] =>
          arrived[agent[p]][role] >= r.time

\* No reading a payout may still use, and no balance a reading may still take
\* before the claim's second is over, is above what the account has held.
ReadingsBelowPeak ==
  \A p \in Policies : Live(p) =>
    /\ policy[p].state = Active \/ now <= policy[p].claim_submitted_at
         => Observed(p).amount <= past[p].peak
    /\ \A r \in Readings(p) :
         policy[p].state = Active \/ r.time <= policy[p].claim_submitted_at
           => r.amount <= past[p].peak

GInv ==
  /\ GovernanceTypeOK
  /\ ReadingsHold
  /\ ReadingsBelowPeak

LEMMA GovernanceInitInv ==
  ASSUME GovernanceInit
  PROVE  GInv
<1>1. \A p \in Policies : policy[p].state = Unopened
  BY DEF GovernanceInit, Init, NoPolicy
<1>2. account \in [Agents -> TokenAccount]
  <2>1. account \in [Agents -> [control: Control, amount: Amounts]]
    BY DEF GovernanceInit
  <2>2. Amounts \subseteq Nat  BY GovernanceAssumption
  <2> QED  BY <2>1, <2>2 DEF TokenAccount
<1>3. NoCheckpoint \in AuthorityCheckpoint /\ NoBaseline \in GovernanceBaseline
  BY DEF NoCheckpoint, AuthorityCheckpoint, Reading, NoBaseline,
         GovernanceBaseline
<1>4. NoPast \in Past
  BY DEF NoPast, Past, Reading
<1>5. arrived \in [Agents -> Arrivals]
  BY DEF GovernanceInit, Arrivals
<1>6. GovernanceTypeOK
  BY <1>1, <1>2, <1>3, <1>4, <1>5 DEF GovernanceInit, GovernanceTypeOK
<1>7. ReadingsHold /\ ReadingsBelowPeak
  BY <1>1
  DEF ReadingsHold, ReadingsBelowPeak, Live, Active, Pending, Unopened
<1> QED  BY <1>6, <1>7 DEF GInv

\* A step of the pool ages the readings and files or closes policies.
LEMMA AuthoritiesKept ==
  ASSUME Inv, Inv', GInv, UNCHANGED governanceVars,
         \A p \in Policies : TermsMove(p)
  PROVE  GInv'
<1>1. /\ account' = account /\ agent' = agent /\ authority' = authority
      /\ baseline' = baseline /\ arrived' = arrived /\ past' = past
  BY DEF governanceVars
<1>2. now \in Nat /\ now' \in Nat  BY DEF Inv, TypeOK
<1>3. GovernanceTypeOK'
  <2>1. ASSUME NEW p \in Policies, policy'[p].state # Unopened
        PROVE  /\ agent[p] \in Agents
               /\ authority[p].current.time \in policy'[p].start_time..now'
               /\ authority[p].prev # NoReading =>
                    authority[p].prev.time \in
                      policy'[p].start_time..authority[p].current.time
    <3>1. policy[p].state # Unopened /\ now' >= now
          /\ policy'[p].start_time = policy[p].start_time
      BY <2>1 DEF TermsMove
    <3>2. policy[p].start_time \in Nat  BY DEF Inv, TypeOK, InsurancePolicy
    <3> QED  BY <1>2, <3>1, <3>2 DEF GInv, GovernanceTypeOK
  <2> QED  BY <1>1, <2>1 DEF GInv, GovernanceTypeOK
<1>4. ReadingsHold'
  BY <1>1 DEF GInv, ReadingsHold, Readings, Observed, TermsMove
<1>5. ReadingsBelowPeak'
  <2> SUFFICES ASSUME NEW p \in Policies, Live(p)'
               PROVE  /\ policy'[p].state = Active
                           \/ now' <= policy'[p].claim_submitted_at
                           => Observed(p).amount <= past[p].peak
                      /\ \A r \in Readings(p) :
                           policy'[p].state = Active
                             \/ r.time <= policy'[p].claim_submitted_at
                           => r.amount <= past[p].peak
    BY <1>1 DEF ReadingsBelowPeak, Observed, Readings
  <2>1. Live(p) /\ now' >= now
    BY DEF Live, TermsMove
  <2>2. \/ policy[p].state = Active
        \/ /\ policy[p].state = Pending /\ policy'[p].state = Pending
           /\ policy'[p].claim_submitted_at = policy[p].claim_submitted_at
    BY <2>1 DEF Live, TermsMove, Active, Pending
  <2>3. policy[p].claim_submitted_at \in Nat
    BY DEF Inv, TypeOK, InsurancePolicy
  <2> QED
    BY <1>2, <2>1, <2>2, <2>3 DEF GInv, ReadingsBelowPeak, Active, Pending
<1> QED  BY <1>3, <1>4, <1>5 DEF GInv

LEMMA CheckpointAuthorityInv ==
  ASSUME Inv, GInv, NEW p \in Policies, CheckpointAuthority(p)
  PROVE  GInv'
<1> DEFINE seen == Observe(Observed(p))
           kept == Predecessor(authority[p], seen)
           new == [current |-> seen, prev |-> kept]
<1>1. /\ Live(p) /\ authority' = [authority EXCEPT ![p] = new]
      /\ policy' = policy /\ now' = now /\ account' = account
      /\ agent' = agent /\ baseline' = baseline /\ arrived' = arrived
      /\ past' = past
  BY DEF CheckpointAuthority, vars
<1>2. policy[p].state # Unopened /\ now \in Nat
  BY <1>1 DEF Live, Active, Pending, Unopened, Inv, TypeOK
<1>3. Observed(p) \in TokenAccount
  BY <1>2 DEF GInv, GovernanceTypeOK, Observed
<1>4. /\ seen \in Reading /\ seen.time = now
      /\ seen.control = Observed(p).control
      /\ seen.amount = Observed(p).amount
  BY <1>2, <1>3 DEF Observe, Reading, TokenAccount
<1>5. authority[p] \in AuthorityCheckpoint
  BY DEF GInv, GovernanceTypeOK
<1>6. /\ authority[p].current \in Reading /\ authority[p].prev \in Reading
      /\ kept \in {authority[p].current, authority[p].prev}
  BY <1>5 DEF AuthorityCheckpoint, Predecessor
<1> HIDE DEF seen, kept
<1>7. new \in AuthorityCheckpoint
  BY <1>4, <1>6 DEF AuthorityCheckpoint
<1>8. /\ authority' \in [Policies -> AuthorityCheckpoint]
      /\ authority'[p] = new
      /\ \A q \in Policies \ {p} : authority'[q] = authority[q]
  BY <1>1, <1>7 DEF GInv, GovernanceTypeOK
<1>9. policy[p].start_time \in Nat  BY DEF Inv, TypeOK, InsurancePolicy
<1>10. /\ authority[p].current.time \in policy[p].start_time..now
       /\ authority[p].prev # NoReading =>
            authority[p].prev.time \in
              policy[p].start_time..authority[p].current.time
  BY <1>2 DEF GInv, GovernanceTypeOK
<1>11. kept # NoReading => kept.time \in policy[p].start_time..now
  <2>1. CASE kept = authority[p].current  BY <1>10, <2>1
  <2>2. CASE kept = authority[p].prev
    BY <1>2, <1>9, <1>10, <2>2
  <2> QED  BY <1>6, <2>1, <2>2
<1>12. policy[p].start_time <= now  BY <1>2, <1>9, <1>10
<1>13. GovernanceTypeOK'
  <2>1. ASSUME NEW q \in Policies, policy[q].state # Unopened
        PROVE  /\ authority'[q].current.time \in policy[q].start_time..now
               /\ authority'[q].prev # NoReading =>
                    authority'[q].prev.time \in
                      policy[q].start_time..authority'[q].current.time
    <3>1. CASE q # p  BY <1>8, <2>1, <3>1 DEF GInv, GovernanceTypeOK
    <3>2. CASE q = p
      BY <1>2, <1>4, <1>8, <1>9, <1>11, <1>12, <3>2
    <3> QED  BY <3>1, <3>2
  <2> QED  BY <1>1, <1>8, <2>1 DEF GInv, GovernanceTypeOK
<1>14. ReadingsHold'
  <2> SUFFICES ASSUME NEW q \in Policies, policy[q].state # Unopened,
                      NEW r \in Readings(q)', r # NoReading, NEW role \in Roles,
                      r.control[role] # Observed(q).control[role]
               PROVE  arrived[agent[q]][role] >= r.time
    BY <1>1 DEF ReadingsHold, Readings, Observed
  <2>1. CASE r \in Readings(q)  BY <2>1 DEF GInv, ReadingsHold
  <2>2. CASE r \notin Readings(q)
    <3>1. q = p /\ r = seen
      BY <1>6, <1>8, <2>2 DEF Readings
    <3> QED  BY <1>4, <3>1
  <2> QED  BY <2>1, <2>2
<1>15. ReadingsBelowPeak'
  <2> SUFFICES ASSUME NEW q \in Policies, Live(q)
               PROVE  /\ policy[q].state = Active
                           \/ now <= policy[q].claim_submitted_at
                           => Observed(q).amount <= past[q].peak
                      /\ \A r \in Readings(q)' :
                           policy[q].state = Active
                             \/ r.time <= policy[q].claim_submitted_at
                           => r.amount <= past[q].peak
    BY <1>1 DEF ReadingsBelowPeak, Readings, Observed, Live
  <2>1. ASSUME NEW r \in Readings(q)',
               policy[q].state = Active
                 \/ r.time <= policy[q].claim_submitted_at
        PROVE  r.amount <= past[q].peak
    <3>1. CASE r \in Readings(q)  BY <2>1, <3>1 DEF GInv, ReadingsBelowPeak
    <3>2. CASE r \notin Readings(q)
      <4>1. q = p /\ r = seen
        BY <1>6, <1>8, <3>2 DEF Readings
      <4> QED  BY <1>4, <2>1, <4>1 DEF GInv, ReadingsBelowPeak
    <3> QED  BY <3>1, <3>2
  <2> QED  BY <2>1 DEF GInv, ReadingsBelowPeak
<1> QED  BY <1>13, <1>14, <1>15 DEF GInv

LEMMA DeclareGovernanceBaselineInv ==
  ASSUME Inv, GInv, NEW p \in Policies, NEW m \in Manifests,
         DeclareGovernanceBaseline(p, m)
  PROVE  GInv'
<1> DEFINE new == [current |-> [manifest |-> m, effective_at |-> Maturity],
                   prev |-> baseline[p].current]
<1>1. /\ baseline' = [baseline EXCEPT ![p] = new]
      /\ policy' = policy /\ now' = now /\ account' = account
      /\ agent' = agent /\ authority' = authority /\ arrived' = arrived
      /\ past' = past
  BY DEF DeclareGovernanceBaseline, vars
<1>2. Maturity \in Nat /\ m \in Manifest
  BY GovernanceAssumption DEF Maturity, Inv, TypeOK
<1>3. new \in GovernanceBaseline
  <2>1. baseline[p] \in GovernanceBaseline  BY DEF GInv, GovernanceTypeOK
  <2> QED  BY <1>2, <2>1 DEF GovernanceBaseline, View
<1>4. baseline' \in [Policies -> GovernanceBaseline]
  BY <1>1, <1>3 DEF GInv, GovernanceTypeOK
<1>5. GovernanceTypeOK'
  BY <1>1, <1>4 DEF GInv, GovernanceTypeOK
<1>6. ReadingsHold' /\ ReadingsBelowPeak'
  BY <1>1
  DEF GInv, ReadingsHold, ReadingsBelowPeak, Readings, Observed, Live
<1> QED  BY <1>5, <1>6 DEF GInv

-----------------------------------------------------------------------------
(* What happens to the covered accounts. *)
LEMMA ArrivalFacts ==
  ASSUME Inv, GInv, NEW a \in Agents, NEW c \in Control
  PROVE  /\ Arrival(a, c) \in Arrivals
         /\ \A role \in Roles :
              Arrival(a, c)[role] =
                IF c[role] # account[a].control[role] THEN now
                ELSE arrived[a][role]
<1>1. arrived[a] \in Arrivals /\ now \in Nat
  BY DEF GInv, GovernanceTypeOK, Inv, TypeOK
<1> QED  BY <1>1 DEF Arrival, Arrivals, Roles

LEMMA PastRecord ==
  ASSUME NEW peak \in Nat, NEW changes \in Nat, NEW changed_at \in Nat,
         NEW reading \in Reading
  PROVE  [peak |-> peak, changes |-> changes, changed_at |-> changed_at,
          reading |-> reading] \in Past
BY DEF Past

LEMMA GreaterBounds ==
  ASSUME NEW a \in Nat, NEW b \in Nat
  PROVE  Greater(a, b) \in Nat /\ Greater(a, b) >= a /\ Greater(a, b) >= b
BY DEF Greater

\* What is noted of a move: the peak covers the new balance while it may still
\* be read before the filing's second is over.
LEMMA MoveWitnessed ==
  ASSUME Inv, GInv, NEW p \in Policies, NEW acct \in TokenAccount
  PROVE  LET w == Witnessed(p, acct)
         IN /\ w \in Past
            /\ w.peak >= past[p].peak
            /\ policy[p].state = Active \/ now <= policy[p].claim_submitted_at
                 => w.peak >= acct.amount
<1> DEFINE h == past[p]
           early == policy[p].state = Active
                      \/ now <= policy[p].claim_submitted_at
           changed == acct.control # Observed(p).control
           first == changed /\ h.changes = 0
           peak == IF early THEN Greater(h.peak, acct.amount) ELSE h.peak
           changes == IF changed THEN h.changes + 1 ELSE h.changes
           at == IF first THEN now ELSE h.changed_at
           reading == IF first THEN authority[p].current ELSE h.reading
           w == [peak |-> peak, changes |-> changes, changed_at |-> at,
                 reading |-> reading]
<1>1. h \in Past /\ authority[p] \in AuthorityCheckpoint /\ now \in Nat
  BY DEF GInv, GovernanceTypeOK, Inv, TypeOK
<1>2. /\ h.peak \in Nat /\ h.changes \in Nat /\ h.changed_at \in Nat
      /\ h.reading \in Reading /\ authority[p].current \in Reading
      /\ acct.amount \in Nat
  BY <1>1 DEF Past, AuthorityCheckpoint, TokenAccount
<1>3. /\ Greater(h.peak, acct.amount) \in Nat
      /\ Greater(h.peak, acct.amount) >= h.peak
      /\ Greater(h.peak, acct.amount) >= acct.amount
  BY <1>2, GreaterBounds
<1>4. Witnessed(p, acct) = w  BY DEF Witnessed
<1> HIDE DEF h, early, changed, first
<1>5. /\ peak \in Nat /\ peak >= h.peak /\ (early => peak >= acct.amount)
  <2>1. CASE early  BY <1>3, <2>1
  <2>2. CASE ~early  BY <1>2, <2>2
  <2> QED  BY <2>1, <2>2
<1>6. changes \in Nat /\ at \in Nat /\ reading \in Reading
  BY <1>1, <1>2
<1> HIDE DEF peak, changes, at, reading
<1>7. w \in Past  BY <1>5, <1>6, PastRecord
<1>8. w.peak = peak  OBVIOUS
<1> HIDE DEF w
<1> QED  BY <1>4, <1>5, <1>7, <1>8 DEF h, early

LEMMA BecomesInv ==
  ASSUME Inv, GInv, NEW a \in Agents, NEW acct \in TokenAccount,
         Becomes(a, acct)
  PROVE  GInv'
<1>1. /\ account' = [account EXCEPT ![a] = acct]
      /\ arrived' = [arrived EXCEPT ![a] = Arrival(a, acct.control)]
      /\ past' = [p \in Policies |->
           IF Live(p) /\ agent[p] = a THEN Witnessed(p, acct) ELSE past[p]]
      /\ policy' = policy /\ now' = now /\ agent' = agent
      /\ authority' = authority /\ baseline' = baseline
  BY DEF Becomes, vars
<1>2. acct.control \in Control /\ acct.amount \in Nat  BY DEF TokenAccount
<1>3. Arrival(a, acct.control) \in Arrivals  BY <1>2, ArrivalFacts
<1>4. /\ account' \in [Agents -> TokenAccount]
      /\ arrived' \in [Agents -> Arrivals]
      /\ account'[a] = acct /\ arrived'[a] = Arrival(a, acct.control)
      /\ \A b \in Agents \ {a} :
           account'[b] = account[b] /\ arrived'[b] = arrived[b]
  BY <1>1, <1>3 DEF GInv, GovernanceTypeOK
<1>5. ASSUME NEW p \in Policies
      PROVE  past'[p] \in Past /\ past'[p].peak >= past[p].peak
  <2>1. past[p] \in Past /\ past[p].peak \in Nat
    BY DEF GInv, GovernanceTypeOK, Past
  <2>2. CASE Live(p) /\ agent[p] = a
    <3>1. past'[p] = Witnessed(p, acct)  BY <1>1, <2>2
    <3> QED  BY <3>1, MoveWitnessed
  <2>3. CASE ~(Live(p) /\ agent[p] = a)
    <3>1. past'[p] = past[p]  BY <1>1, <2>3
    <3> QED  BY <2>1, <3>1
  <2> QED  BY <2>2, <2>3
<1>6. GovernanceTypeOK'
  <2>1. past' \in [Policies -> Past]  BY <1>1, <1>5
  <2> QED  BY <1>1, <1>4, <2>1 DEF GInv, GovernanceTypeOK
<1>7. ReadingsHold'
  <2> SUFFICES ASSUME NEW p \in Policies, policy[p].state # Unopened,
                      NEW r \in Readings(p), r # NoReading, NEW role \in Roles,
                      r.control[role] # account'[agent[p]].control[role]
               PROVE  arrived'[agent[p]][role] >= r.time
    BY <1>1 DEF ReadingsHold, Readings, Observed
  <2>1. agent[p] \in Agents  BY DEF GInv, GovernanceTypeOK
  <2>2. CASE agent[p] # a
    BY <1>4, <2>1, <2>2 DEF GInv, ReadingsHold, Observed
  <2>3. CASE agent[p] = a
    <3>1. arrived'[a][role] = IF acct.control[role] # account[a].control[role]
                                THEN now ELSE arrived[a][role]
      BY <1>2, <1>4, ArrivalFacts
    <3>2. CASE acct.control[role] # account[a].control[role]
      <4>1. /\ policy[p].start_time \in Nat /\ now \in Nat
            /\ authority[p].current.time \in policy[p].start_time..now
            /\ authority[p].prev # NoReading =>
                 authority[p].prev.time \in
                   policy[p].start_time..authority[p].current.time
        BY DEF GInv, GovernanceTypeOK, Inv, TypeOK, InsurancePolicy
      <4>2. r.time <= now
        <5>1. CASE r = authority[p].current  BY <4>1, <5>1
        <5>2. CASE r = authority[p].prev  BY <4>1, <5>2
        <5> QED  BY <5>1, <5>2 DEF Readings
      <4>3. r.time \in Nat
        BY <4>1 DEF Readings
      <4> QED  BY <2>3, <3>1, <3>2, <4>1, <4>2, <4>3
    <3>3. CASE acct.control[role] = account[a].control[role]
      <4>1. r.control[role] # Observed(p).control[role]
        BY <1>4, <2>3, <3>3 DEF Observed
      <4> QED  BY <2>3, <3>1, <3>3, <4>1 DEF GInv, ReadingsHold
    <3> QED  BY <3>2, <3>3
  <2> QED  BY <2>2, <2>3
<1>8. ReadingsBelowPeak'
  <2> SUFFICES ASSUME NEW p \in Policies, Live(p)
               PROVE  /\ policy[p].state = Active
                           \/ now <= policy[p].claim_submitted_at
                           => account'[agent[p]].amount <= past'[p].peak
                      /\ \A r \in Readings(p) :
                           policy[p].state = Active
                             \/ r.time <= policy[p].claim_submitted_at
                           => r.amount <= past'[p].peak
    BY <1>1 DEF ReadingsBelowPeak, Readings, Observed, Live
  <2>1. /\ past[p].peak \in Nat /\ past'[p].peak \in Nat
        /\ past'[p].peak >= past[p].peak
    BY <1>5 DEF GInv, GovernanceTypeOK, Past
  <2>2. ASSUME NEW r \in Readings(p),
               policy[p].state = Active
                 \/ r.time <= policy[p].claim_submitted_at
        PROVE  r.amount <= past'[p].peak
    <3>1. r.amount <= past[p].peak  BY <2>2 DEF GInv, ReadingsBelowPeak
    <3>2. r.amount \in Nat
      <4>1. authority[p] \in AuthorityCheckpoint  BY DEF GInv, GovernanceTypeOK
      <4> QED
        BY <4>1 DEF Readings, AuthorityCheckpoint, Reading, NoReading
    <3> QED  BY <2>1, <3>1, <3>2
  <2>3. ASSUME policy[p].state = Active \/ now <= policy[p].claim_submitted_at
        PROVE  account'[agent[p]].amount <= past'[p].peak
    <3>1. CASE agent[p] = a
      <4>1. past'[p] = Witnessed(p, acct)  BY <1>1, <3>1
      <4> QED  BY <1>4, <2>3, <3>1, <4>1, MoveWitnessed
    <3>2. CASE agent[p] # a
      <4>1. agent[p] \in Agents
        BY DEF GInv, GovernanceTypeOK, Live, Active, Pending, Unopened
      <4>2. account'[agent[p]] = Observed(p) /\ past'[p] = past[p]
        BY <1>1, <1>4, <3>2, <4>1 DEF Observed
      <4> QED  BY <2>3, <4>2 DEF GInv, ReadingsBelowPeak
    <3> QED  BY <3>1, <3>2
  <2> QED  BY <2>2, <2>3
<1> QED  BY <1>6, <1>7, <1>8 DEF GInv

LEMMA ControlRecord ==
  ASSUME NEW c \in Control, NEW key \in Optional, NEW b \in BOOLEAN
  PROVE  /\ [c EXCEPT !.delegate = key] \in Control
         /\ [c EXCEPT !.close_authority = key] \in Control
         /\ [c EXCEPT !.frozen = b] \in Control
BY DEF Control

LEMMA AccountStepInv ==
  ASSUME Inv, GInv, NEW a \in Agents, AccountStep(a)
  PROVE  GInv'
<1>1. /\ account[a].control \in Control /\ account[a].amount \in Nat
  BY DEF GInv, GovernanceTypeOK, TokenAccount
<1>2. ASSUME NEW c \in Control, Becomes(a, Controlled(a, c))
      PROVE  GInv'
  <2>1. Controlled(a, c) \in TokenAccount
    BY <1>1 DEF Controlled, TokenAccount
  <2> QED  BY <1>2, <2>1, BecomesInv
<1>3. ASSUME NEW key \in Keys, HandOver(a, key)  PROVE GInv'
  <2> DEFINE c == [owner |-> key, delegate |-> NoKey,
                   close_authority |-> account[a].control.close_authority,
                   frozen |-> FALSE]
  <2>1. c \in Control  BY <1>1 DEF Control, Optional
  <2>2. Becomes(a, Controlled(a, c))  BY <1>3 DEF HandOver
  <2> QED  BY <1>2, <2>1, <2>2
<1>4. ASSUME NEW key \in Optional, Delegate(a, key) \/ SetCloseAuthority(a, key)
      PROVE  GInv'
  BY <1>1, <1>2, <1>4, ControlRecord DEF Delegate, SetCloseAuthority
<1>5. ASSUME NEW frozen \in BOOLEAN, Freeze(a, frozen)  PROVE GInv'
  <2>1. [account[a].control EXCEPT !.frozen = frozen] \in Control
    BY <1>1, <1>5 DEF Control
  <2> QED  BY <1>2, <1>5, <2>1 DEF Freeze
<1>6. ASSUME NEW amount \in Amounts, Transfer(a, amount)  PROVE GInv'
  <2> DEFINE acct == [control |-> account[a].control, amount |-> amount]
  <2>1. acct \in TokenAccount
    BY <1>1, GovernanceAssumption DEF TokenAccount
  <2>2. Becomes(a, acct)  BY <1>6 DEF Transfer
  <2> QED  BY <2>1, <2>2, BecomesInv
<1> QED  BY <1>3, <1>4, <1>5, <1>6 DEF AccountStep

LEMMA CreateGovernedInv ==
  ASSUME Inv, GInv, NEW a \in Agents, NEW tier \in Tiers, NEW c \in Coverages,
         NEW d \in Durations, NEW f \in FlatPremiums,
         CreateGoverned(a, tier, c, d, f)
  PROVE  GInv'
<1> DEFINE first == FirstReading(a)
           opened == [NoPast EXCEPT !.peak = account[a].amount]
<1> SUFFICES ASSUME NEW p, p = policy_counter  PROVE GInv'
  OBVIOUS
<1>1. /\ CreatePolicy(tier, c, d, f)
      /\ agent' = [agent EXCEPT ![p] = a]
      /\ authority' = [authority EXCEPT ![p] = first]
      /\ past' = [past EXCEPT ![p] = opened]
      /\ account' = account /\ baseline' = baseline /\ arrived' = arrived
  BY DEF CreateGoverned
<1>2. /\ p \in Policies /\ now' = now /\ now \in Nat
      /\ policy'[p].state = Active /\ policy'[p].start_time = now
      /\ \A q \in Policies \ {p} : policy'[q] = policy[q]
  BY <1>1, CreateTerms
<1>3. account[a] \in TokenAccount  BY DEF GInv, GovernanceTypeOK
<1>4. /\ first.current \in Reading /\ first.current.time = now
      /\ first.current.control = account[a].control
      /\ first.current.amount = account[a].amount
      /\ first.prev = NoReading
      /\ first \in AuthorityCheckpoint
  BY <1>2, <1>3
  DEF FirstReading, Observe, AuthorityCheckpoint, Reading, TokenAccount
<1>5. opened \in Past /\ opened.peak = account[a].amount
  BY <1>3 DEF NoPast, Past, Reading, TokenAccount
<1> HIDE DEF first, opened
<1>6. /\ agent'[p] = a /\ authority'[p] = first /\ past'[p] = opened
      /\ \A q \in Policies \ {p} :
           /\ agent'[q] = agent[q] /\ authority'[q] = authority[q]
           /\ past'[q] = past[q]
      /\ agent' \in [Policies -> Agents \cup {NoAgent}]
      /\ authority' \in [Policies -> AuthorityCheckpoint]
      /\ past' \in [Policies -> Past]
  BY <1>1, <1>2, <1>4, <1>5 DEF GInv, GovernanceTypeOK
<1>7. GovernanceTypeOK'
  <2>1. ASSUME NEW q \in Policies, policy'[q].state # Unopened
        PROVE  /\ agent'[q] \in Agents
               /\ authority'[q].current.time \in policy'[q].start_time..now'
               /\ authority'[q].prev # NoReading =>
                    authority'[q].prev.time \in
                      policy'[q].start_time..authority'[q].current.time
    <3>1. CASE q = p  BY <1>2, <1>4, <1>6, <3>1
    <3>2. CASE q # p
      BY <1>2, <1>6, <2>1, <3>2 DEF GInv, GovernanceTypeOK
    <3> QED  BY <3>1, <3>2
  <2> QED  BY <1>1, <1>6, <2>1 DEF GInv, GovernanceTypeOK
<1>8. ReadingsHold'
  <2> SUFFICES ASSUME NEW q \in Policies, policy'[q].state # Unopened,
                      NEW r \in Readings(q)', r # NoReading, NEW role \in Roles,
                      r.control[role] # account[agent'[q]].control[role]
               PROVE  arrived[agent'[q]][role] >= r.time
    BY <1>1 DEF ReadingsHold, Observed
  <2>1. CASE q = p
    <3>1. r = first.current  BY <1>4, <1>6, <2>1 DEF Readings
    <3> QED  BY <1>4, <1>6, <2>1, <3>1
  <2>2. CASE q # p
    BY <1>2, <1>6, <2>2 DEF GInv, ReadingsHold, Readings, Observed
  <2> QED  BY <2>1, <2>2
<1>9. ReadingsBelowPeak'
  <2> SUFFICES ASSUME NEW q \in Policies, Live(q)'
               PROVE  /\ policy'[q].state = Active
                           \/ now <= policy'[q].claim_submitted_at
                           => account[agent'[q]].amount <= past'[q].peak
                      /\ \A r \in Readings(q)' :
                           policy'[q].state = Active
                             \/ r.time <= policy'[q].claim_submitted_at
                           => r.amount <= past'[q].peak
    BY <1>1, <1>2 DEF ReadingsBelowPeak, Observed
  <2>1. CASE q = p
    <3>1. account[a].amount \in Nat  BY <1>3 DEF TokenAccount
    <3> QED  BY <1>4, <1>5, <1>6, <2>1, <3>1 DEF Readings, NoReading
  <2>2. CASE q # p
    <3>1. Live(q)  BY <1>2, <2>2 DEF Live
    <3> QED
      BY <1>2, <1>6, <2>2, <3>1 DEF GInv, ReadingsBelowPeak, Readings, Observed
  <2> QED  BY <2>1, <2>2
<1> QED  BY <1>7, <1>8, <1>9 DEF GInv

-----------------------------------------------------------------------------
(* Every step preserves the invariant. *)
LEMMA PayGovernanceInv ==
  ASSUME Inv, Inv', GInv, NEW p \in Policies, NEW amount \in Payouts,
         PayGovernance(p, amount)
  PROVE  GInv'
<1>1. PayClaim(p, amount) /\ UNCHANGED governanceVars
  BY DEF PayGovernance, TakeoverMeasurable
<1> QED  BY <1>1, PayTerms, AuthoritiesKept

LEMMA GovernanceStepInv ==
  ASSUME Inv, Inv', GInv, [GovernanceNext]_govVars
  PROVE  GInv'
<1>1. CASE UngovernedStep
  <2>1. SharedStep /\ UNCHANGED governanceVars
    BY <1>1 DEF UngovernedStep, SharedStep
  <2> QED  BY <2>1, SharedStepTerms, AuthoritiesKept
<1>2. ASSUME NEW p \in Policies, GovernanceStep(p)  PROVE GInv'
  BY <1>2, CheckpointAuthorityInv, DeclareGovernanceBaselineInv,
     PayGovernanceInv
  DEF GovernanceStep
<1>3. ASSUME NEW a \in Agents, AccountStep(a)  PROVE GInv'
  BY <1>3, AccountStepInv
<1>4. ASSUME NEW a \in Agents, NEW tier \in Tiers, NEW c \in Coverages,
             NEW d \in Durations, NEW f \in FlatPremiums,
             CreateGoverned(a, tier, c, d, f)
      PROVE  GInv'
  BY <1>4, CreateGovernedInv
<1>5. CASE UNCHANGED govVars
  <2>1. policy' = policy /\ now' = now /\ UNCHANGED governanceVars
    BY <1>5 DEF govVars, vars
  <2>2. \A p \in Policies : TermsMove(p)
    BY <2>1, PolicyKept DEF Inv, TypeOK
  <2> QED  BY <2>1, <2>2, AuthoritiesKept
<1> QED  BY <1>1, <1>2, <1>3, <1>4, <1>5 DEF GovernanceNext

LEMMA GovernanceInvariance == GovernanceSpec => []GInv
<1>1. GovernanceInit => GInv  BY GovernanceInitInv
<1>2. Inv /\ Inv' /\ GInv /\ [GovernanceNext]_govVars => GInv'
  BY GovernanceStepInv
<1> QED  BY <1>1, <1>2, GovernedPoolInvariance, PTL DEF GovernanceSpec

\* Readings, declarations and the notes on them are well formed, and the
\* readings of an open policy were taken during its cover and in order.
THEOREM GovernanceTypeCorrect == GovernanceSpec => []GovernanceTypeOK
<1>1. GInv => GovernanceTypeOK  BY DEF GInv
<1> QED  BY <1>1, GovernanceInvariance, PTL

-----------------------------------------------------------------------------
(* What a payout shows. *)

\* Of all the instructions only PayGovernance pays a governance claim.
LEMMA PaidByGovernance ==
  ASSUME Inv, GovernanceNext, NEW p \in Policies, PaidGovernance(p)
  PROVE  \E amount \in Payouts :
           PayGovernance(p, amount) /\ policy'[p].payout_amount = amount
<1>1. CASE UngovernedStep
  <2>1. SharedStep  BY <1>1 DEF UngovernedStep, SharedStep
  <2> QED  BY <2>1, SharedStepPaysNone DEF PaidGovernance
<1>2. ASSUME NEW q \in Policies, GovernanceStep(q)
      PROVE  \E amount \in Payouts :
               PayGovernance(p, amount) /\ policy'[p].payout_amount = amount
  <2>1. CASE CheckpointAuthority(q)
    BY <2>1 DEF CheckpointAuthority, vars, PaidGovernance
  <2>2. ASSUME NEW m \in Manifests, DeclareGovernanceBaseline(q, m)
        PROVE  FALSE
    BY <2>2 DEF DeclareGovernanceBaseline, vars, PaidGovernance
  <2>3. ASSUME NEW amount \in Payouts, PayGovernance(q, amount)
        PROVE  q = p /\ policy'[p].payout_amount = amount
    <3>1. PayClaim(q, amount)  BY <2>3 DEF PayGovernance, TakeoverMeasurable
    <3> QED  BY <3>1, PayClaimPays DEF PaidGovernance
  <2> QED  BY <1>2, <2>1, <2>2, <2>3 DEF GovernanceStep
<1>3. ASSUME NEW a \in Agents, AccountStep(a)  PROVE FALSE
  <2>1. policy' = policy
    BY <1>3
    DEF AccountStep, HandOver, Delegate, SetCloseAuthority, Freeze, Transfer,
        Becomes, vars
  <2> QED  BY <2>1 DEF PaidGovernance
<1>4. ASSUME NEW a \in Agents, NEW tier \in Tiers, NEW c \in Coverages,
             NEW d \in Durations, NEW f \in FlatPremiums,
             CreateGoverned(a, tier, c, d, f)
      PROVE  FALSE
  <2> SUFFICES ASSUME NEW q, q = policy_counter  PROVE FALSE
    OBVIOUS
  <2>1. CreatePolicy(tier, c, d, f)  BY <1>4 DEF CreateGoverned
  <2>2. /\ policy'[q].state = Active
        /\ \A r \in Policies \ {q} : policy'[r] = policy[r]
    BY <2>1, CreateTerms
  <2> QED  BY <2>2 DEF PaidGovernance, Paid, Active
<1> QED  BY <1>1, <1>2, <1>3, <1>4 DEF GovernanceNext

\* The reading a payout departs from was taken of this policy's account no
\* later than the filing, and sat inside the declared set.
LEMMA BeforeFacts ==
  ASSUME NEW p \in Policies, Before(p) # NoReading
  PROVE  /\ Before(p) \in Readings(p)
         /\ Before(p).time <= policy[p].claim_submitted_at
         /\ Covers(Declared(p).manifest, p, Before(p).control)
BY DEF Before, SelectBefore, Inside, Readings

\* A key that a departure names is not the key the permitted reading shows.
LEMMA DepartedRoleChanged ==
  ASSUME NEW p \in Policies, Before(p) # NoReading, Departure(p) # "none"
  PROVE  /\ Departure(p) \in Roles
         /\ Before(p).control[Departure(p)] # Observed(p).control[Departure(p)]
<1> DEFINE m == Declared(p).manifest
           b == Before(p).control
           c == Observed(p).control
<1>1. Covers(m, p, b)  BY BeforeFacts
<1>2. Departure(p) = DepartureKind(p, m, Before(p), c)  BY DEF Departure
<1>3. CASE ~Permits(m, p, c.owner, "owner")
  <2>1. Departure(p) = "owner"  BY <1>2, <1>3 DEF DepartureKind
  <2>2. Permits(m, p, b.owner, "owner")  BY <1>1 DEF Covers
  <2>3. b.owner # c.owner  BY <1>3, <2>2
  <2> QED  BY <2>1, <2>3 DEF Roles
<1>4. CASE Permits(m, p, c.owner, "owner") /\ c.frozen /\ ~b.frozen
  <2>1. Departure(p) = "frozen"  BY <1>2, <1>4 DEF DepartureKind
  <2>2. b.frozen # c.frozen  BY <1>4
  <2> QED  BY <2>1, <2>2 DEF Roles
<1>5. CASE /\ Permits(m, p, c.owner, "owner") /\ ~(c.frozen /\ ~b.frozen)
           /\ c.close_authority # NoKey
           /\ ~Permits(m, p, c.close_authority, "close_authority")
  <2>1. Departure(p) = "close_authority"  BY <1>2, <1>5 DEF DepartureKind
  <2>2. b.close_authority = NoKey
        \/ Permits(m, p, b.close_authority, "close_authority")
    BY <1>1 DEF Covers
  <2>3. b.close_authority # c.close_authority  BY <1>5, <2>2
  <2> QED  BY <2>1, <2>3 DEF Roles
<1>6. CASE /\ Permits(m, p, c.owner, "owner") /\ ~(c.frozen /\ ~b.frozen)
           /\ ~(/\ c.close_authority # NoKey
                /\ ~Permits(m, p, c.close_authority, "close_authority"))
           /\ c.delegate # NoKey /\ ~Permits(m, p, c.delegate, "delegate")
  <2>1. Departure(p) = "delegate"  BY <1>2, <1>6 DEF DepartureKind
  <2>2. b.delegate = NoKey \/ Permits(m, p, b.delegate, "delegate")
    BY <1>1 DEF Covers
  <2>3. b.delegate # c.delegate  BY <1>6, <2>2
  <2> QED  BY <2>1, <2>3 DEF Roles
<1> QED  BY <1>2, <1>3, <1>4, <1>5, <1>6 DEF DepartureKind

LEMMA DepartureFollowsConsentStep ==
  ASSUME Inv, GInv, GovernanceNext, NEW p \in Policies, PaidGovernance(p)
  PROVE  arrived[agent[p]][Departure(p)] >=
           Greater(Declared(p).effective_at, policy[p].start_time)
<1>1. PICK amount \in Payouts : PayGovernance(p, amount)
  BY PaidByGovernance
<1>2. /\ Before(p) # NoReading /\ Departure(p) # "none"
      /\ Before(p).time >= policy[p].start_time
      /\ Declared(p).effective_at <= Before(p).time
      /\ policy[p].state = Pending
  BY <1>1 DEF PayGovernance, TakeoverMeasurable, PayClaim, DeclaredBeforehand
<1>3. /\ Departure(p) \in Roles
      /\ Before(p).control[Departure(p)] # Observed(p).control[Departure(p)]
  BY <1>2, DepartedRoleChanged
<1>4. Before(p) \in Readings(p)  BY <1>2, BeforeFacts
<1>5. arrived[agent[p]][Departure(p)] >= Before(p).time
  BY <1>2, <1>3, <1>4 DEF GInv, ReadingsHold, Pending, Unopened
<1>6. agent[p] \in Agents
  BY <1>2 DEF GInv, GovernanceTypeOK, Pending, Unopened
<1>7. arrived[agent[p]][Departure(p)] \in Nat
  <2>1. arrived[agent[p]] \in Arrivals  BY <1>6 DEF GInv, GovernanceTypeOK
  <2> QED  BY <1>3, <2>1 DEF Arrivals, Roles
<1>8. Before(p).time \in Nat
  <2>1. authority[p] \in AuthorityCheckpoint  BY DEF GInv, GovernanceTypeOK
  <2> QED
    BY <1>4, <2>1 DEF Readings, AuthorityCheckpoint, Reading, NoReading
<1>9. policy[p].start_time \in Nat  BY DEF Inv, TypeOK, InsurancePolicy
<1>10. Declared(p).effective_at \in Nat
  <2>1. baseline[p] \in GovernanceBaseline  BY DEF GInv, GovernanceTypeOK
  <2> QED
    BY <2>1 DEF Declared, ViewAt, GovernanceBaseline, View, NoView
<1> QED  BY <1>2, <1>5, <1>7, <1>8, <1>9, <1>10 DEF Greater

\* The key paid for arrived after the holder's declaration had matured, and
\* during the cover, for every order of declaring, handing over, reading and
\* filing.
THEOREM DeparturesFollowConsent == GovernanceSpec => DepartureFollowsConsent
<1>1. ASSUME Inv, GInv, [GovernanceNext]_govVars
      PROVE  [ \A p \in Policies : PaidGovernance(p) =>
                 arrived[agent[p]][Departure(p)] >=
                   Greater(Declared(p).effective_at, policy[p].start_time)
             ]_govVars
  BY <1>1, DepartureFollowsConsentStep
<1> QED
  BY <1>1, GovernanceInvariance, GovernedPoolInvariance, PTL
  DEF GovernanceSpec, DepartureFollowsConsent

\* A loss measured from a smaller balance is no larger.
LEMMA LossMonotone ==
  ASSUME NEW kind, NEW b, NEW peak \in Nat, NEW held \in Nat,
         b.amount \in Nat, b.amount <= peak
  PROVE  ProvableLoss(kind, b, held) <= ProvableLoss(kind, [amount |-> peak], held)
<1> DEFINE seized == IF kind \in {"owner", "frozen"} THEN held ELSE 0
<1>1. seized \in Nat  OBVIOUS
<1> HIDE DEF seized
<1>2. Greater(Minus(b.amount, held), seized) <= Greater(Minus(peak, held), seized)
  BY <1>1 DEF Greater, Minus
<1> QED  BY <1>2 DEF ProvableLoss, seized

LEMMA PayoutWithinReachStep ==
  ASSUME Inv, GInv, GovernanceNext, NEW p \in Policies, PaidGovernance(p)
  PROVE  policy'[p].payout_amount <=
           ProvableLoss(Departure(p), [amount |-> past[p].peak],
                        Observed(p).amount)
<1> DEFINE held == Observed(p).amount
           peak == past[p].peak
<1>1. PICK amount \in Payouts :
        PayGovernance(p, amount) /\ policy'[p].payout_amount = amount
  BY PaidByGovernance
<1>2. /\ Before(p) # NoReading /\ policy[p].state = Pending
      /\ amount <= ProvableLoss(Departure(p), Before(p), held)
  BY <1>1 DEF PayGovernance, TakeoverMeasurable, PayClaim
<1>3. /\ Before(p) \in Readings(p)
      /\ Before(p).time <= policy[p].claim_submitted_at
  BY <1>2, BeforeFacts
<1>4. Before(p).amount <= peak
  BY <1>2, <1>3 DEF GInv, ReadingsBelowPeak, Live
<1>5. Before(p).amount \in Nat
  <2>1. authority[p] \in AuthorityCheckpoint  BY DEF GInv, GovernanceTypeOK
  <2> QED
    BY <1>3, <2>1 DEF Readings, AuthorityCheckpoint, Reading, NoReading
<1>6. held \in Nat /\ peak \in Nat
  <2>1. agent[p] \in Agents
    BY <1>2 DEF GInv, GovernanceTypeOK, Pending, Unopened
  <2> QED  BY <2>1 DEF GInv, GovernanceTypeOK, TokenAccount, Past, Observed
<1> HIDE DEF held, peak
<1>7. /\ ProvableLoss(Departure(p), Before(p), held) <=
           ProvableLoss(Departure(p), [amount |-> peak], held)
      /\ ProvableLoss(Departure(p), Before(p), held) \in Nat
      /\ ProvableLoss(Departure(p), [amount |-> peak], held) \in Nat
  <2>1. \A b \in {Before(p), [amount |-> peak]} :
          ProvableLoss(Departure(p), b, held) \in Nat
    BY <1>5, <1>6 DEF ProvableLoss, Greater, Minus
  <2> QED  BY <1>4, <1>5, <1>6, <2>1, LossMonotone
<1>8. amount \in Nat  BY VaultAssumption
<1> QED  BY <1>1, <1>2, <1>7, <1>8 DEF held, peak

\* No payout exceeds what the account lost from a balance held before the
\* filing's second was over, or what it still holds out of the agent's reach.
THEOREM PayoutsWithinReach == GovernanceSpec => PayoutWithinReach
<1>1. ASSUME Inv, GInv, [GovernanceNext]_govVars
      PROVE  [ \A p \in Policies : PaidGovernance(p) =>
                 policy'[p].payout_amount <=
                   ProvableLoss(Departure(p), [amount |-> past[p].peak],
                                Observed(p).amount) ]_govVars
  BY <1>1, PayoutWithinReachStep
<1> QED
  BY <1>1, GovernanceInvariance, GovernedPoolInvariance, PTL
  DEF GovernanceSpec, PayoutWithinReach

-----------------------------------------------------------------------------
(* A lone takeover stays provable. *)

\* While control has not changed, no predecessor is kept; since its only
\* change, the reading before it is the current one or the predecessor.
ReadingsOfOneChange(p) ==
  LET c == authority[p]
      h == past[p]
  IN /\ c.current.time >= 1
     /\ h.changes = 0 =>
          /\ c.current.control = Observed(p).control
          /\ c.prev = NoReading
     /\ h.changes = 1 =>
          /\ h.reading.time \in 1..h.changed_at
          /\ h.reading.control # Observed(p).control
          /\ \/ c.current = h.reading /\ c.prev = NoReading
             \/ c.prev = h.reading /\ c.current.control = Observed(p).control

OneChangeKept == \A p \in Policies : Live(p) => ReadingsOfOneChange(p)

LEMMA OneChangeInit ==
  ASSUME GovernanceInit
  PROVE  OneChangeKept
BY DEF GovernanceInit, Init, NoPolicy, OneChangeKept, Live, Active, Pending,
       Unopened

LEMMA OneChangeUndisturbed ==
  ASSUME Inv, OneChangeKept, \A p \in Policies : TermsMove(p),
         account' = account, agent' = agent, authority' = authority, past' = past
  PROVE  OneChangeKept'
<1> SUFFICES ASSUME NEW p \in Policies, Live(p)'
             PROVE  ReadingsOfOneChange(p)'
  BY DEF OneChangeKept
<1>1. Live(p)  BY DEF Live, TermsMove
<1>2. ReadingsOfOneChange(p)  BY <1>1 DEF OneChangeKept
<1> QED  BY <1>2 DEF ReadingsOfOneChange, Observed

LEMMA OneChangeCheckpoint ==
  ASSUME Inv, GInv, OneChangeKept, NEW p \in Policies, CheckpointAuthority(p)
  PROVE  OneChangeKept'
<1> DEFINE seen == Observe(Observed(p))
           new == [current |-> seen, prev |-> Predecessor(authority[p], seen)]
<1>1. /\ Live(p) /\ authority' = [authority EXCEPT ![p] = new]
      /\ policy' = policy /\ account' = account /\ agent' = agent
      /\ past' = past
  BY DEF CheckpointAuthority, vars
<1>2. /\ authority'[p] = new
      /\ \A q \in Policies \ {p} : authority'[q] = authority[q]
  BY <1>1 DEF GInv, GovernanceTypeOK
<1>3. seen.control = Observed(p).control /\ seen.time >= 1
  BY DEF Observe, Inv, TypeOK
<1> HIDE DEF seen
<1>4. ReadingsOfOneChange(p)  BY <1>1 DEF OneChangeKept
<1>5. ReadingsOfOneChange(p)'
  BY <1>1, <1>2, <1>3, <1>4 DEF ReadingsOfOneChange, Observed, Predecessor
<1>6. ASSUME NEW q \in Policies \ {p}, Live(q)'  PROVE ReadingsOfOneChange(q)'
  <2>1. ReadingsOfOneChange(q)  BY <1>1, <1>6 DEF OneChangeKept, Live
  <2> QED  BY <1>1, <1>2, <2>1 DEF ReadingsOfOneChange, Observed
<1> QED  BY <1>5, <1>6 DEF OneChangeKept

LEMMA OneChangeBecomes ==
  ASSUME Inv, GInv, OneChangeKept, NEW a \in Agents, NEW acct,
         Becomes(a, acct)
  PROVE  OneChangeKept'
<1>1. /\ account' = [account EXCEPT ![a] = acct]
      /\ past' = [p \in Policies |->
           IF Live(p) /\ agent[p] = a THEN Witnessed(p, acct) ELSE past[p]]
      /\ policy' = policy /\ agent' = agent /\ authority' = authority
  BY DEF Becomes, vars
<1> SUFFICES ASSUME NEW p \in Policies, Live(p)
             PROVE  ReadingsOfOneChange(p)'
  BY <1>1 DEF OneChangeKept, Live
<1>2. ReadingsOfOneChange(p)  BY DEF OneChangeKept
<1>3. agent[p] \in Agents /\ authority[p].current.time <= now /\ now \in Nat
      /\ policy[p].start_time \in Nat
  BY DEF GInv, GovernanceTypeOK, Live, Active, Pending, Unopened, Inv, TypeOK,
         InsurancePolicy
<1>4. authority[p].current.time \in Nat
  BY <1>3 DEF GInv, GovernanceTypeOK, Live, Active, Pending, Unopened
<1>5. CASE agent[p] # a
  <2>1. account'[agent[p]] = account[agent[p]] /\ past'[p] = past[p]
    BY <1>1, <1>3, <1>5 DEF GInv, GovernanceTypeOK
  <2> QED  BY <1>1, <1>2, <2>1 DEF ReadingsOfOneChange, Observed
<1>6. CASE agent[p] = a
  <2>1. account'[a] = acct /\ past'[p] = Witnessed(p, acct)
    BY <1>1, <1>6 DEF GInv, GovernanceTypeOK
  <2>2. past[p].changes \in Nat  BY DEF GInv, GovernanceTypeOK, Past
  <2>3. CASE acct.control = Observed(p).control
    <3>1. /\ past'[p].changes = past[p].changes
          /\ past'[p].changed_at = past[p].changed_at
          /\ past'[p].reading = past[p].reading
      BY <2>1, <2>3 DEF Witnessed
    <3> QED
      BY <1>1, <1>2, <1>6, <2>1, <2>3, <3>1 DEF ReadingsOfOneChange, Observed
  <2>4. CASE acct.control # Observed(p).control /\ past[p].changes = 0
    <3>1. /\ past'[p].changes = 1 /\ past'[p].changed_at = now
          /\ past'[p].reading = authority[p].current
      BY <2>1, <2>4 DEF Witnessed
    <3>2. /\ authority[p].current.control = Observed(p).control
          /\ authority[p].prev = NoReading /\ authority[p].current.time >= 1
      BY <1>2, <2>4 DEF ReadingsOfOneChange
    <3>3. Observed(p)' = acct  BY <1>1, <1>6, <2>1 DEF Observed
    <3>4. past'[p].reading.time \in 1..past'[p].changed_at
      BY <1>3, <1>4, <3>1, <3>2
    <3> QED
      BY <1>1, <2>4, <3>1, <3>2, <3>3, <3>4 DEF ReadingsOfOneChange
  <2>5. CASE acct.control # Observed(p).control /\ past[p].changes # 0
    <3>1. past'[p].changes = past[p].changes + 1
      BY <2>1, <2>5 DEF Witnessed
    <3>2. past'[p].changes # 0 /\ past'[p].changes # 1
      BY <2>2, <2>5, <3>1
    <3> QED  BY <1>1, <1>2, <3>2 DEF ReadingsOfOneChange
  <2> QED  BY <2>3, <2>4, <2>5
<1> QED  BY <1>5, <1>6

LEMMA AccountStepBecomes ==
  ASSUME NEW a \in Agents, AccountStep(a)
  PROVE  \E acct : Becomes(a, acct)
BY DEF AccountStep, HandOver, Delegate, SetCloseAuthority, Freeze, Transfer

LEMMA OneChangeCreate ==
  ASSUME Inv, GInv, OneChangeKept, NEW a \in Agents, NEW tier \in Tiers,
         NEW c \in Coverages, NEW d \in Durations, NEW f \in FlatPremiums,
         CreateGoverned(a, tier, c, d, f)
  PROVE  OneChangeKept'
<1> DEFINE opened == [NoPast EXCEPT !.peak = account[a].amount]
<1> SUFFICES ASSUME NEW p, p = policy_counter  PROVE OneChangeKept'
  OBVIOUS
<1>1. /\ CreatePolicy(tier, c, d, f)
      /\ agent' = [agent EXCEPT ![p] = a]
      /\ authority' = [authority EXCEPT ![p] = FirstReading(a)]
      /\ past' = [past EXCEPT ![p] = opened]
      /\ account' = account
  BY DEF CreateGoverned
<1>2. /\ p \in Policies
      /\ \A q \in Policies \ {p} : policy'[q] = policy[q]
  BY <1>1, CreateTerms
<1>3. opened.changes = 0  BY DEF NoPast
<1>4. /\ FirstReading(a).current.control = account[a].control
      /\ FirstReading(a).current.time >= 1
      /\ FirstReading(a).prev = NoReading
  BY DEF FirstReading, Observe, Inv, TypeOK
<1> HIDE DEF opened
<1>5. /\ agent'[p] = a /\ authority'[p] = FirstReading(a)
      /\ past'[p] = opened
      /\ \A q \in Policies \ {p} :
           /\ agent'[q] = agent[q] /\ authority'[q] = authority[q]
           /\ past'[q] = past[q]
  BY <1>1, <1>2 DEF GInv, GovernanceTypeOK
<1>6. ReadingsOfOneChange(p)'
  BY <1>1, <1>3, <1>4, <1>5 DEF ReadingsOfOneChange, Observed
<1>7. ASSUME NEW q \in Policies \ {p}, Live(q)'  PROVE ReadingsOfOneChange(q)'
  <2>1. ReadingsOfOneChange(q)  BY <1>2, <1>7 DEF OneChangeKept, Live
  <2> QED  BY <1>1, <1>5, <2>1 DEF ReadingsOfOneChange, Observed
<1> QED  BY <1>6, <1>7 DEF OneChangeKept

LEMMA OneChangeStep ==
  ASSUME Inv, Inv', GInv, OneChangeKept, [GovernanceNext]_govVars
  PROVE  OneChangeKept'
<1>1. CASE UngovernedStep
  <2>1. SharedStep /\ UNCHANGED governanceVars
    BY <1>1 DEF UngovernedStep, SharedStep
  <2> QED
    BY <2>1, SharedStepTerms, OneChangeUndisturbed DEF governanceVars
<1>2. ASSUME NEW p \in Policies, GovernanceStep(p)  PROVE OneChangeKept'
  <2>1. CASE CheckpointAuthority(p)  BY <2>1, OneChangeCheckpoint
  <2>2. ASSUME NEW m \in Manifests, DeclareGovernanceBaseline(p, m)
        PROVE  OneChangeKept'
    <3>1. /\ policy' = policy /\ now' = now /\ account' = account
          /\ agent' = agent /\ authority' = authority /\ past' = past
      BY <2>2 DEF DeclareGovernanceBaseline, vars
    <3>2. \A q \in Policies : TermsMove(q)
      BY <3>1, PolicyKept DEF Inv, TypeOK
    <3> QED  BY <3>1, <3>2, OneChangeUndisturbed
  <2>3. ASSUME NEW amount \in Payouts, PayGovernance(p, amount)
        PROVE  OneChangeKept'
    <3>1. PayClaim(p, amount) /\ UNCHANGED governanceVars
      BY <2>3 DEF PayGovernance, TakeoverMeasurable
    <3> QED  BY <3>1, PayTerms, OneChangeUndisturbed DEF governanceVars
  <2> QED  BY <1>2, <2>1, <2>2, <2>3 DEF GovernanceStep
<1>3. ASSUME NEW a \in Agents, AccountStep(a)  PROVE OneChangeKept'
  BY <1>3, AccountStepBecomes, OneChangeBecomes
<1>4. ASSUME NEW a \in Agents, NEW tier \in Tiers, NEW c \in Coverages,
             NEW d \in Durations, NEW f \in FlatPremiums,
             CreateGoverned(a, tier, c, d, f)
      PROVE  OneChangeKept'
  BY <1>4, OneChangeCreate
<1>5. CASE UNCHANGED govVars
  <2>1. policy' = policy /\ now' = now /\ UNCHANGED governanceVars
    BY <1>5 DEF govVars, vars
  <2>2. \A p \in Policies : TermsMove(p)
    BY <2>1, PolicyKept DEF Inv, TypeOK
  <2> QED  BY <2>1, <2>2, OneChangeUndisturbed DEF governanceVars
<1> QED  BY <1>1, <1>2, <1>3, <1>4, <1>5 DEF GovernanceNext

LEMMA OneChangeProvable ==
  ASSUME Inv, GInv, OneChangeKept
  PROVE  LoneTakeoverProvable
<1> SUFFICES ASSUME NEW p \in Policies, LoneTakeover(p)
             PROVE  Before(p) = past[p].reading
  BY DEF LoneTakeoverProvable
<1> DEFINE m == Declared(p).manifest
           h == past[p]
           c == authority[p]
<1>1. /\ policy[p].state = Pending /\ h.changes = 1
      /\ h.changed_at <= policy[p].claim_submitted_at
      /\ Covers(m, p, h.reading.control)
      /\ ~Covers(m, p, Observed(p).control)
  BY DEF LoneTakeover
<1>2. ReadingsOfOneChange(p)  BY <1>1 DEF OneChangeKept, Live
<1>3. /\ h.reading.time \in 1..h.changed_at
      /\ \/ c.current = h.reading /\ c.prev = NoReading
         \/ c.prev = h.reading /\ c.current.control = Observed(p).control
  BY <1>1, <1>2 DEF ReadingsOfOneChange
<1>4. policy[p].claim_submitted_at \in Nat /\ h.changed_at \in Nat
  BY DEF Inv, TypeOK, InsurancePolicy, GInv, GovernanceTypeOK, Past
<1> HIDE DEF m, h, c
<1>5. Inside(p, m, h.reading)  BY <1>1, <1>3, <1>4 DEF Inside
<1>6. c.current = h.reading
      \/ (~Inside(p, m, c.current) /\ c.prev = h.reading)
  BY <1>1, <1>3 DEF Inside
<1>7. SelectBefore(p, m) = h.reading
  BY <1>5, <1>6 DEF SelectBefore, c
<1> QED  BY <1>7 DEF Before, m, h

\* However often the account is read after control left the declared set once,
\* the last reading before it is what the claim is judged by.
THEOREM LoneTakeoversProvable == GovernanceSpec => []LoneTakeoverProvable
<1>1. GovernanceInit => OneChangeKept  BY OneChangeInit
<1>2. Inv /\ Inv' /\ GInv /\ OneChangeKept /\ [GovernanceNext]_govVars
        => OneChangeKept'
  BY OneChangeStep
<1>3. Inv /\ GInv /\ OneChangeKept => LoneTakeoverProvable
  BY OneChangeProvable
<1> QED
  BY <1>1, <1>2, <1>3, GovernanceInvariance, GovernedPoolInvariance, PTL
  DEF GovernanceSpec
=============================================================================
