------------------------- MODULE ClaimReviewProofs -------------------------
(***************************************************************************)
(* Proofs about the review of one claim, for every set of incidents and    *)
(* readings, every coverage and floor, and any number of passes.           *)
(***************************************************************************)
EXTENDS Detection, FiniteSetTheorems, WellFoundedInduction, TLAPS

-----------------------------------------------------------------------------
(* What a reading without garbled instructions leaves unchanged. *)

\* A view none of whose instructions is garbled is the transaction.
LEMMA WholeView ==
  ASSUME NEW i \in Incident, NEW r, r.garbled = {}
  PROVE  View(i, r) = i.ixs
<1>1. i.ixs \subseteq Instruction
  BY DEF Incident
<1>2. Undecoded(i, r) = {}
  BY DEF Undecoded
<1>3. ASSUME NEW j \in i.ixs
      PROVE  [j EXCEPT !.authority =
                IF <<j, "authority">> \in r.garbled THEN Unread ELSE @] = j
  BY <1>1 DEF Instruction
<1>4. View(i, r) =
        {[j EXCEPT !.authority =
            IF <<j, "authority">> \in r.garbled THEN Unread ELSE @] : j \in i.ixs}
  BY <1>2 DEF View
<1> QED
  BY <1>3, <1>4

LEMMA CompleteReading ==
  /\ Complete.garbled = {}
  /\ \A s : ~Lacks(Complete, s)
BY DEF Complete, Lacks

-----------------------------------------------------------------------------
(* Exploit. *)

\* The signatures that establish authorization are read off the transaction
\* alone.
LEMMA EvidenceOfView ==
  ASSUME NEW i \in Incident, NEW r, NEW s, View(i, r) = View(i, s)
  PROVE  HasAuthorizationEvidence(i, r) <=> HasAuthorizationEvidence(i, s)
<1>1. ASSUME NEW q
      PROVE  HasAuthorizationEvidence(i, q) <=>
               \/ HasUnauthorizedMovement(i, View(i, q))
               \/ ForeignControlChanges(View(i, q)) # {}
               \/ PriorDelegatePulls(View(i, q)) # {}
  BY DEF HasAuthorizationEvidence, ExploitPresent, ExploitUnevaluated,
      FirstSeenUnread, FanoutUnread, UpgradeUnread,
         AuthorizationClass, ExploitWeights
<1> QED
  BY <1>1

\* A rejected exploit claim, every instruction read, is none that full
\* evidence confirms; and one that is confirmed is confirmed by it too.
LEMMA ExploitSurvivesEvidence ==
  ASSUME NEW i \in Incident, NEW r, r.garbled = {}
  PROVE  /\ VerifyExploit(i, r).outcome = "rejected" =>
              VerifyExploit(i, Complete).outcome # "confirmed"
         /\ VerifyExploit(i, r).outcome = "confirmed" =>
              /\ VerifyExploit(i, Complete).outcome = "confirmed"
              /\ VerifyExploit(i, Complete).loss
                   = VerifyExploit(i, r).loss
<1> DEFINE v == i.ixs
<1>1. View(i, r) = v /\ View(i, Complete) = v
  BY WholeView, CompleteReading
<1>2. HasAuthorizationEvidence(i, r) <=> HasAuthorizationEvidence(i, Complete)
  BY <1>1, EvidenceOfView
<1>3. ~ProvenanceUnknown(v, Complete)
  BY CompleteReading DEF ProvenanceUnknown
<1>4. ~ProvenanceUnknown(v, r) =>
        (AllGrantedByAgent(i, v, r) <=> AllGrantedByAgent(i, v, Complete))
  BY CompleteReading DEF ProvenanceUnknown, AllGrantedByAgent, GrantsFound
<1> HIDE DEF v
<1> QED
  BY <1>1, <1>2, <1>3, <1>4, CompleteReading
  DEF VerifyExploit, AdjudicateExploit, JudgeAuthorization,
      Verdict, Rejected, Indeterminate

-----------------------------------------------------------------------------
(* Agent error. *)

\* Once the history of payments was read, a pass that gets as far as a verdict
\* gives the one that full evidence gives.
LEMMA AgentErrorSurvivesEvidence ==
  ASSUME NEW i \in Incident, NEW r, r.garbled = {}, ~Lacks(r, "outflows")
  PROVE  \/ VerifyAgentError(i, r).outcome = "indeterminate"
         \/ /\ VerifyAgentError(i, r).outcome
                  = VerifyAgentError(i, Complete).outcome
            /\ VerifyAgentError(i, r).loss
                  = VerifyAgentError(i, Complete).loss
<1>1. View(i, r) = View(i, Complete)
  BY WholeView, CompleteReading
<1>2. HasHistory(i, r) <=> HasHistory(i, Complete)
  BY CompleteReading DEF HasHistory
<1>3. BreachUnevaluated(i, r) = BreachUnevaluated(i, Complete)
  BY <1>1, <1>2 DEF BreachUnevaluated
<1>4. Breached(i, r) = Breached(i, Complete)
  BY <1>1, <1>3 DEF Breached
<1>5. PayableLoss(i, r) = PayableLoss(i, Complete)
  BY <1>4 DEF PayableLoss, BreachProvable
<1>6. BreachProvable(i, r) <=> BreachProvable(i, Complete)
  BY <1>4 DEF BreachProvable
<1>7. ContradictsHistory(i, r) <=> ContradictsHistory(i, Complete)
  BY <1>2 DEF ContradictsHistory
<1> QED
  BY <1>1, <1>4, <1>5, <1>6, <1>7, CompleteReading
  DEF VerifyAgentError, AdjudicateAgentError, JudgeBreach,
      Verdict, Rejected, Indeterminate

-----------------------------------------------------------------------------
(* Governance. *)

\* The signatures of the control class are read off the transaction and the
\* declaration alone.
LEMMA ControlEvidenceOfView ==
  ASSUME NEW i, NEW r, NEW s, NEW h, NEW t, View(i, r) = View(i, s)
  PROVE  (GovernancePresent(i, r, h, t) \cap ControlClass = {})
           <=> (GovernancePresent(i, s, h, t) \cap ControlClass = {})
<1>1. ASSUME NEW q, NEW c \in ControlClass
      PROVE  c \in GovernanceUnevaluated(i, q, t) <=>
               c = "authority_left_manifest" /\ ~i.charter.declared
  BY DEF GovernanceUnevaluated, GovernanceWeights, ControlClass
<1>2. ASSUME NEW c \in ControlClass
      PROVE  c \in GovernancePresent(i, r, h, t)
               <=> c \in GovernancePresent(i, s, h, t)
  BY <1>1 DEF GovernancePresent, GovernanceWeights, ControlClass
<1> QED
  BY <1>2

\* A rejected governance claim, every instruction read, is none that full
\* evidence confirms; and one that is confirmed is confirmed by it too.
LEMMA GovernanceSurvivesEvidence ==
  ASSUME NEW i \in Incident, NEW r, r.garbled = {}, NEW h, NEW f, NEW t
  PROVE  /\ VerifyGovernanceAttack(i, r, h, f, t).outcome = "rejected" =>
              VerifyGovernanceAttack(i, Complete, h, f, t).outcome # "confirmed"
         /\ VerifyGovernanceAttack(i, r, h, f, t).outcome = "confirmed" =>
              /\ VerifyGovernanceAttack(i, Complete, h, f, t).outcome = "confirmed"
              /\ VerifyGovernanceAttack(i, Complete, h, f, t).loss
                   = VerifyGovernanceAttack(i, r, h, f, t).loss
<1>1. View(i, r) = View(i, Complete)
  BY WholeView, CompleteReading
<1>2. (GovernancePresent(i, r, h, t) \cap ControlClass = {})
        <=> (GovernancePresent(i, Complete, h, t) \cap ControlClass = {})
  BY <1>1, ControlEvidenceOfView
<1>3. WithinWindow(r, t) =>
        /\ WithinWindow(Complete, t)
        /\ Exposure(i, r, h, f) = Exposure(i, Complete, h, f)
  BY CompleteReading DEF WithinWindow, Exposure, Gone
<1> QED
  BY <1>1, <1>2, <1>3, CompleteReading
  DEF VerifyGovernanceAttack, AdjudicateGovernance, JudgeExposure,
      Verdict, Rejected, Indeterminate

-----------------------------------------------------------------------------
(* What a confirmed verdict is made of. *)

LEMMA CoverageIsACap ==
  ASSUME NEW n \in Int
  PROVE  CapToCoverage(n) \in 0..Coverage /\ (n >= 0 => CapToCoverage(n) <= n)
BY AmountsAssumption DEF CapToCoverage, AtMost

LEMMA IncidentAmounts ==
  ASSUME NEW i \in Incident
  PROVE  /\ i.held \in Nat /\ i.lost \in Nat /\ i.gained \in Nat
         /\ NetLoss(i) \in Int /\ ExcessRaw(i) \in Nat
<1>1. i.held \in Nat /\ i.lost \in Nat /\ i.gained \in Nat
  BY DEF Incident
<1>2. i.mandate.cap \in Nat /\ i.mandate.floor \in Nat
  BY DEF Incident, Mandate
<1>3. NetLoss(i) \in Int
  BY <1>1 DEF NetLoss
<1>4. Excess("single_outflow", i) \in Nat /\ Excess("retained_balance", i) \in Nat
  BY <1>1, <1>2 DEF Excess, AtMost
<1> QED
  BY <1>1, <1>3, <1>4 DEF ExcessRaw

\* A confidence is clamped whatever it was computed from.
LEMMA ClampedConfidence ==
  ASSUME NEW c
  PROVE  Clamp(c) \in 0..CONFIDENCE_CEILING
BY DEF Clamp, CONFIDENCE_CEILING

\* The amounts of a verdict, and that a confirmed one clears the dust floor.
LEMMA ExploitVerdictShape ==
  ASSUME NEW i \in Incident, NEW r
  PROVE  LET d == VerifyExploit(i, r) IN
         /\ d.outcome \in Outcomes
         /\ d.loss \in 0..Coverage
         /\ d.confidence \in 0..CONFIDENCE_CEILING
         /\ d.outcome = "confirmed" => d.loss >= MIN_PAYABLE_LOSS
<1>1. CapToCoverage(NetLoss(i)) \in 0..Coverage
  BY IncidentAmounts, CoverageIsACap
<1>2. ExploitConfidence(i, r) \in 0..CONFIDENCE_CEILING
  BY ClampedConfidence DEF ExploitConfidence
<1>3. 0 \in 0..Coverage /\ 0 \in 0..CONFIDENCE_CEILING
  BY AmountsAssumption DEF CONFIDENCE_CEILING
<1>4. \/ /\ VerifyExploit(i, r).outcome \in {"rejected", "indeterminate"}
         /\ VerifyExploit(i, r).loss = 0
         /\ VerifyExploit(i, r).confidence = 0
      \/ /\ VerifyExploit(i, r).outcome = "confirmed"
         /\ ~(CapToCoverage(NetLoss(i)) < MIN_PAYABLE_LOSS)
         /\ VerifyExploit(i, r).loss = CapToCoverage(NetLoss(i))
         /\ VerifyExploit(i, r).confidence = ExploitConfidence(i, r)
  BY DEF VerifyExploit, AdjudicateExploit, JudgeAuthorization,
      Verdict, Rejected, Indeterminate
<1> QED
  BY <1>1, <1>2, <1>3, <1>4, AmountsAssumption DEF Outcomes

LEMMA AgentErrorVerdictShape ==
  ASSUME NEW i \in Incident, NEW r
  PROVE  LET d == VerifyAgentError(i, r) IN
         /\ d.outcome \in Outcomes
         /\ d.loss \in 0..Coverage
         /\ d.confidence \in 0..CONFIDENCE_CEILING
         /\ d.outcome = "confirmed" =>
              /\ d.reason = "mandate_breach"
              /\ d.loss >= MIN_PAYABLE_LOSS
              /\ BreachProvable(i, r) =>
                   d.loss >= MIN_PROVABLE_MANDATE_BREACH /\ d.loss <= ExcessRaw(i)
<1>1. /\ PayableLoss(i, r) \in 0..Coverage
      /\ BreachProvable(i, r) => PayableLoss(i, r) <= ExcessRaw(i)
  <2>1. AtMost(NetLoss(i), ExcessRaw(i)) \in Int
        /\ AtMost(NetLoss(i), ExcessRaw(i)) <= ExcessRaw(i)
    BY IncidentAmounts DEF AtMost
  <2>2. CASE BreachProvable(i, r)
    BY <2>1, <2>2, IncidentAmounts, AmountsAssumption
    DEF PayableLoss, CapToCoverage, AtMost
  <2>3. CASE ~BreachProvable(i, r)
    BY <2>3, IncidentAmounts, CoverageIsACap DEF PayableLoss
  <2> QED
    BY <2>2, <2>3
<1>2. AgentErrorConfidence(i, r) \in 0..CONFIDENCE_CEILING
  BY ClampedConfidence DEF AgentErrorConfidence
<1>3. 0 \in 0..Coverage /\ 0 \in 0..CONFIDENCE_CEILING
  BY AmountsAssumption DEF CONFIDENCE_CEILING
<1>4. \/ /\ VerifyAgentError(i, r).outcome \in {"rejected", "indeterminate"}
         /\ VerifyAgentError(i, r).loss = 0
         /\ VerifyAgentError(i, r).confidence = 0
      \/ /\ VerifyAgentError(i, r).outcome = "confirmed"
         /\ ~(PayableLoss(i, r) < MIN_PAYABLE_LOSS)
         /\ VerifyAgentError(i, r).loss = PayableLoss(i, r)
         /\ VerifyAgentError(i, r).confidence = AgentErrorConfidence(i, r)
         /\ VerifyAgentError(i, r).reason = "mandate_breach"
         /\ ~(BreachProvable(i, r) /\ PayableLoss(i, r) < MIN_PROVABLE_MANDATE_BREACH)
  BY DEF VerifyAgentError, AdjudicateAgentError, JudgeBreach,
      Verdict, Rejected, Indeterminate
<1> QED
  BY <1>1, <1>2, <1>3, <1>4, AmountsAssumption DEF Outcomes

LEMMA GovernanceVerdictShape ==
  ASSUME NEW i \in Incident, NEW r, NEW h \in Nat, NEW f \in Nat,
         NEW t
  PROVE  LET d == VerifyGovernanceAttack(i, r, h, f, t) IN
         /\ d.outcome \in Outcomes
         /\ d.loss \in 0..Coverage
         /\ d.confidence \in 0..CONFIDENCE_CEILING
         /\ d.outcome = "confirmed" => d.loss >= MIN_PAYABLE_LOSS
<1>1. CapToCoverage(Exposure(i, r, h, f)) \in 0..Coverage
  BY IncidentAmounts, CoverageIsACap DEF Exposure, Gone
<1>2. GovernanceConfidence(i, r, h, f, t) \in 0..CONFIDENCE_CEILING
  BY ClampedConfidence DEF GovernanceConfidence
<1>3. 0 \in 0..Coverage /\ 0 \in 0..CONFIDENCE_CEILING
  BY AmountsAssumption DEF CONFIDENCE_CEILING
<1>4. \/ /\ VerifyGovernanceAttack(i, r, h, f, t).outcome \in {"rejected", "indeterminate"}
         /\ VerifyGovernanceAttack(i, r, h, f, t).loss = 0
         /\ VerifyGovernanceAttack(i, r, h, f, t).confidence = 0
      \/ /\ VerifyGovernanceAttack(i, r, h, f, t).outcome = "confirmed"
         /\ ~(CapToCoverage(Exposure(i, r, h, f)) < MIN_PAYABLE_LOSS)
         /\ VerifyGovernanceAttack(i, r, h, f, t).loss = CapToCoverage(Exposure(i, r, h, f))
         /\ VerifyGovernanceAttack(i, r, h, f, t).confidence = GovernanceConfidence(i, r, h, f, t)
  BY DEF VerifyGovernanceAttack, AdjudicateGovernance, JudgeExposure,
      Verdict, Rejected, Indeterminate
<1> QED
  BY <1>1, <1>2, <1>3, <1>4, AmountsAssumption DEF Outcomes

-----------------------------------------------------------------------------
(* What a confirmed verdict says of the incident, every instruction read.  *)

LEMMA ExploitMeansIntrusion ==
  ASSUME NEW i \in Incident, WellFormed(i), NEW r, r.garbled = {},
         VerifyExploit(i, r).outcome = "confirmed"
  PROVE  /\ ~i.failed
         /\ \E m \in Movements(i.ixs) \cup ControlChanges(i.ixs) :
              m.authority # Agent
         /\ NetLoss(i) >= VerifyExploit(i, r).loss
<1>1. View(i, r) = i.ixs
  BY WholeView
<1>2. /\ ~i.failed
      /\ HasAuthorizationEvidence(i, r)
      /\ NetLoss(i) > 0
      /\ VerifyExploit(i, r).loss = CapToCoverage(NetLoss(i))
  BY IncidentAmounts DEF VerifyExploit, AdjudicateExploit, JudgeAuthorization,
      Verdict, Rejected, Indeterminate
<1>3. \/ HasUnauthorizedMovement(i, i.ixs)
      \/ ForeignControlChanges(i.ixs) # {}
      \/ PriorDelegatePulls(i.ixs) # {}
  BY <1>1, <1>2
  DEF HasAuthorizationEvidence, ExploitPresent, ExploitUnevaluated,
      FirstSeenUnread, FanoutUnread, UpgradeUnread,
      AuthorizationClass, ExploitWeights
<1>4. Movements(i.ixs) \cup ControlChanges(i.ixs) \subseteq i.ixs
  BY DEF Movements, ControlChanges
<1>5. ~AgentSigned(i) => \A m \in i.ixs : m.authority # Agent
  BY PartiesAssumption DEF WellFormed, AgentSigned
<1>6. \E m \in Movements(i.ixs) \cup ControlChanges(i.ixs) : m.authority # Agent
  BY <1>3, <1>4, <1>5
  DEF HasUnauthorizedMovement, ForeignControlChanges, PriorDelegatePulls,
      ForeignMovements
<1> QED
  BY <1>2, <1>6, IncidentAmounts, CoverageIsACap

LEMMA AgentErrorMeansBreach ==
  ASSUME NEW i \in Incident, NEW r, r.garbled = {},
         VerifyAgentError(i, r).outcome = "confirmed"
  PROVE  /\ ~i.failed
         /\ AgentSigned(i)
         /\ \A m \in Movements(i.ixs) : m.authority = Agent
         /\ i.mandate.declared /\ i.mandate.matured
         /\ NetLoss(i) >= VerifyAgentError(i, r).loss
<1>1. View(i, r) = i.ixs
  BY WholeView
<1>2. /\ ~i.failed
      /\ AgentSigned(i) /\ ForeignAuthorities(i.ixs) = {}
      /\ i.mandate.declared /\ i.mandate.matured
      /\ NetLoss(i) > 0
      /\ VerifyAgentError(i, r).loss = PayableLoss(i, r)
  BY <1>1, IncidentAmounts
  DEF VerifyAgentError, AdjudicateAgentError, JudgeBreach,
      Verdict, Rejected, Indeterminate
<1>3. i.ixs \subseteq Instruction
  BY DEF Incident
<1>4. ASSUME NEW m \in Movements(i.ixs)
      PROVE  m.authority = Agent
  BY <1>2, <1>3, PartiesAssumption
  DEF Movements, ForeignAuthorities, ForeignMovements, Instruction, Parties,
      Family
<1>5. AtMost(NetLoss(i), ExcessRaw(i)) \in Nat
      /\ AtMost(NetLoss(i), ExcessRaw(i)) <= NetLoss(i)
  BY <1>2, IncidentAmounts DEF AtMost
<1>6. PayableLoss(i, r) <= NetLoss(i)
  BY <1>2, <1>5, IncidentAmounts, AmountsAssumption
  DEF PayableLoss, CapToCoverage, AtMost
<1> QED
  BY <1>2, <1>4, <1>6

LEMMA GovernanceMeansSeizure ==
  ASSUME NEW i \in Incident, NEW r, r.garbled = {}, NEW h, NEW f, NEW t,
         VerifyGovernanceAttack(i, r, h, f, t).outcome = "confirmed"
  PROVE  /\ ~i.failed
         /\ ~(Controllers(i, i.ixs) \subseteq Family \cup i.charter.extra)
         /\ \/ \E k \in Takeovers(i.ixs) : k.authority \notin Family
            \/ OwnershipChanges(i) # {} /\ i.signers \cap Family = {}
<1>1. View(i, r) = i.ixs
  BY WholeView
<1>2. /\ ~i.failed
      /\ Controllers(i, i.ixs) # {}
      /\ OutsideDeclaredSet(i, i.ixs) # {}
      /\ ~PrincipalSigned(i, i.ixs)
  BY <1>1 DEF VerifyGovernanceAttack, AdjudicateGovernance, JudgeExposure,
      Verdict, Rejected, Indeterminate
<1>3. ~(Controllers(i, i.ixs) \subseteq Family \cup i.charter.extra)
  <2>1. ASSUME NEW k
        PROVE  Family \cup i.charter.extra \subseteq PermittedFor(k, i.charter)
    BY DEF PermittedFor
  <2>2. CASE OwnershipChanges(i) \ PermittedFor("owner", i.charter) # {}
    BY <2>1, <2>2 DEF Controllers
  <2>3. ASSUME NEW k \in Takeovers(i.ixs) \ Unattributed(i.ixs),
               NewAuthority(k) \notin PermittedFor(Kind(k), i.charter)
        PROVE  ~(Controllers(i, i.ixs) \subseteq Family \cup i.charter.extra)
    BY <2>1, <2>3 DEF Controllers, Unattributed
  <2> QED
    BY <1>2, <2>2, <2>3 DEF OutsideDeclaredSet
<1>4. Takeovers(i.ixs) # {} \/ OwnershipChanges(i) # {}
  BY <1>2 DEF Controllers
<1> QED
  BY <1>2, <1>3, <1>4 DEF PrincipalSigned

-----------------------------------------------------------------------------
(* A score only grows with what is found.  A signature's weight is as many *)
(* units as it has hundredths, and the score counts them.                  *)

\* Induction over the subsets of a finite set, by a minimal counterexample.
LEMMA SubsetInduction ==
  ASSUME NEW S, IsFiniteSet(S), NEW Q,
         \A T \in SUBSET S : (\A x \in T : T \ {x} \in Q) => T \in Q
  PROVE  \A T \in SUBSET S : T \in Q
<1> DEFINE Failing == {T \in SUBSET S : T \notin Q}
<1> SUFFICES ASSUME Failing # {} PROVE FALSE
  OBVIOUS
<1>1. IsWellFoundedOn(StrictSubsetOrdering(S), SUBSET S)
  <2>1. FiniteSubsetsOf(S) = SUBSET S
    BY FS_FiniteSubsetsOfFinite
  <2>2. IsWellFoundedOn(StrictSubsetOrdering(S), FiniteSubsetsOf(S))
    BY FS_StrictSubsetOrderingWellFounded
  <2> QED
    BY <2>1, <2>2, Zenon
<1>2. PICK T \in Failing :
        \A U \in Failing : ~(<<U, T>> \in StrictSubsetOrdering(S))
  <2>1. Failing \subseteq SUBSET S
    OBVIOUS
  <2> HIDE DEF Failing
  <2> QED
    BY <1>1, <2>1, WFMin
<1>3. ASSUME NEW x \in T PROVE T \ {x} \in Q
  <2>1. /\ T \ {x} \in SUBSET S /\ T \in SUBSET S
        /\ T \ {x} \subseteq T /\ T \ {x} # T
    BY <1>2
  <2>2. <<T \ {x}, T>> \in StrictSubsetOrdering(S)
    BY <2>1, Zenon DEF StrictSubsetOrdering
  <2> QED
    BY <1>2, <2>1, <2>2
<1> QED
  BY <1>2, <1>3

Units(weights, T) == {p \in T \X (1..100) : p[2] <= weights[p[1]]}
Count(weights, T) == Cardinality(Units(weights, T))

LEMMA UnitsFinite ==
  ASSUME NEW S, IsFiniteSet(S), NEW w, NEW T \in SUBSET S
  PROVE  IsFiniteSet(Units(w, T)) /\ Count(w, T) \in Nat
<1>1. 1 \in Int /\ 100 \in Int
  OBVIOUS
<1>2. IsFiniteSet(1..100) /\ IsFiniteSet(T)
  BY <1>1, FS_Interval, FS_Subset
<1>3. IsFiniteSet(T \X (1..100))
  BY <1>2, FS_Product
<1>4. IsFiniteSet(Units(w, T))
  BY <1>3, FS_Subset DEF Units
<1> QED BY <1>4, FS_CardinalityType DEF Count

LEMMA OneMoreCounted ==
  ASSUME NEW S, IsFiniteSet(S), NEW w \in [S -> 0..100], NEW T \in SUBSET S,
         NEW x \in T
  PROVE  Count(w, T) = w[x] + Count(w, T \ {x})
<1> DEFINE n    == w[x]
           own  == {x} \X (1..n)
           rest == Units(w, T \ {x})
<1>1. n \in Nat /\ n <= 100 /\ n \in Int /\ 1 \in Int
  OBVIOUS
<1>2. Units(w, T) = own \cup rest
  BY <1>1 DEF Units
<1>3. own \cap rest = {}
  BY DEF Units
<1>4. IsFiniteSet(rest) /\ Cardinality(rest) \in Nat
  BY UnitsFinite DEF Count
<1>5. IsFiniteSet(own) /\ Cardinality(own) = n
  <2> HIDE DEF n
  <2>1. IsFiniteSet(1..n) /\ Cardinality(1..n) = IF 1 > n THEN 0 ELSE n - 1 + 1
    BY <1>1, FS_Interval
  <2>2. IsFiniteSet({x}) /\ Cardinality({x}) = 1
    BY FS_Singleton
  <2>3. IsFiniteSet(own) /\ Cardinality(own) = Cardinality({x}) * Cardinality(1..n)
    BY <2>1, <2>2, FS_Product
  <2>4. Cardinality(1..n) = n
    BY <1>1, <2>1
  <2> QED BY <1>1, <2>2, <2>3, <2>4
<1>6. /\ Count(w, T) = Cardinality(own \cup rest)
      /\ Count(w, T \ {x}) = Cardinality(rest)
  BY <1>2 DEF Count
<1> HIDE DEF own, rest, n
<1>7. Cardinality(own \cup rest) = Cardinality(own) + Cardinality(rest)
                                     - Cardinality(own \cap rest)
  BY <1>4, <1>5, FS_Union
<1>8. Cardinality(own \cap rest) = 0
  BY <1>3, FS_EmptySet
<1>9. Count(w, T) = n + Count(w, T \ {x})
  BY <1>1, <1>4, <1>5, <1>6, <1>7, <1>8
<1> QED BY <1>9 DEF n

LEMMA NothingCounted == ASSUME NEW w PROVE Count(w, {}) = 0
<1>1. Units(w, {}) = {}
  BY DEF Units
<1> QED BY <1>1, FS_EmptySet DEF Count

LEMMA ScoreCounts ==
  ASSUME NEW S, IsFiniteSet(S), NEW w \in [S -> 0..100]
  PROVE  Score(w, S) = Count(w, S)
<1> DEFINE First(T) == CHOOSE x \in T : TRUE
           Sums(g) == [T \in SUBSET S |-> IF T = {} THEN 0
                         ELSE w[First(T)] + g[T \ {First(T)}]]
           sum == CHOOSE g : g = Sums(g)
           count == [T \in SUBSET S |-> Count(w, T)]
<1>1. \A T \in SUBSET S : T # {} => First(T) \in T
  OBVIOUS
<1>2. count = Sums(count)
  <2>1. ASSUME NEW T \in SUBSET S PROVE count[T] = Sums(count)[T]
    <3>1. CASE T = {}
      BY <3>1, NothingCounted
    <3>2. CASE T # {}
      <4> DEFINE x == First(T)
      <4>1. x \in T /\ T \ {x} \in SUBSET S
        BY <1>1, <3>2
      <4>2. Sums(count)[T] = w[x] + count[T \ {x}]
        BY <3>2
      <4> HIDE DEF x, First, Sums
      <4>3. Count(w, T) = w[x] + Count(w, T \ {x})
        BY <4>1, OneMoreCounted
      <4> QED BY <4>1, <4>2, <4>3
    <3> QED BY <3>1, <3>2
  <2> QED BY <2>1
<1>3. sum = Sums(sum)
  <2> HIDE DEF Sums, count
  <2> QED BY <1>2
<1>4. Score(w, S) = sum[S]
  BY DEF Score, MapThenSumSet, MapThenFoldSet
<1> HIDE DEF sum
<1>5. \A T \in SUBSET S : sum[T] = IF T = {} THEN 0
                            ELSE w[First(T)] + sum[T \ {First(T)}]
  BY <1>3
<1>6. \A T \in SUBSET S : sum[T] = Count(w, T)
  <2> DEFINE Q == {T \in SUBSET S : sum[T] = Count(w, T)}
  <2>1. ASSUME NEW T \in SUBSET S, \A x \in T : T \ {x} \in Q PROVE T \in Q
    <3>1. CASE T = {}
      BY <1>5, <3>1, NothingCounted
    <3>2. CASE T # {}
      <4> DEFINE x == First(T)
      <4>1. x \in T /\ sum[T] = w[x] + sum[T \ {x}]
        BY <1>1, <1>5, <3>2
      <4> HIDE DEF x
      <4>2. sum[T \ {x}] = Count(w, T \ {x})
        BY <2>1, <4>1
      <4>3. Count(w, T) = w[x] + Count(w, T \ {x})
        BY <4>1, OneMoreCounted
      <4> QED BY <4>1, <4>2, <4>3
    <3> QED BY <3>1, <3>2
  <2> HIDE DEF Q
  <2>2. \A T \in SUBSET S : T \in Q
    BY <2>1, SubsetInduction
  <2> QED BY <2>2 DEF Q
<1> QED BY <1>4, <1>6

\* More signatures present, a score no lower.
LEMMA ScoreGrows ==
  ASSUME NEW D, IsFiniteSet(D), NEW w \in [D -> 0..100],
         NEW S \in SUBSET D, NEW T \in SUBSET S
  PROVE  /\ Score(w, S) \in Nat /\ Score(w, T) \in Nat
         /\ Score(w, T) <= Score(w, S)
<1>1. ASSUME NEW U \in SUBSET D
      PROVE  Score(w, U) = Count(w, U)
  <2> DEFINE v == [x \in U |-> w[x]]
  <2>1. v \in [U -> 0..100] /\ IsFiniteSet(U)
    BY FS_Subset
  <2>2. Score(v, U) = Count(v, U)
    <3> HIDE DEF v
    <3> QED BY <2>1, ScoreCounts
  <2>3. Units(v, U) = Units(w, U)
    BY DEF Units
  <2>4. Score(v, U) = Score(w, U)
    <3>1. \A t \in SUBSET U : t # {} => (CHOOSE x \in t : TRUE) \in t
      OBVIOUS
    <3> QED BY <3>1 DEF Score, MapThenSumSet, MapThenFoldSet
  <2> QED BY <2>2, <2>3, <2>4 DEF Count
<1>2. Count(w, S) \in Nat /\ Count(w, T) \in Nat /\ IsFiniteSet(Units(w, S))
  BY UnitsFinite
<1>3. Units(w, T) \in SUBSET Units(w, S)
  BY DEF Units
<1>4. Count(w, T) <= Count(w, S)
  BY <1>2, <1>3, FS_Subset DEF Count
<1> QED BY <1>1, <1>2, <1>4

\* The steps a confidence is put together from.
LEMMA ClampGrows ==
  ASSUME NEW a \in Int, NEW b \in Int, a <= b
  PROVE  Clamp(a) <= Clamp(b)
<1>1. ASSUME NEW c \in Int
      PROVE  Clamp(c) = IF c < 0 THEN 0 ELSE IF c > 9200 THEN 9200 ELSE c
  <2>1. c \in 0..9200 <=> (0 <= c /\ c <= 9200)
    OBVIOUS
  <2>2. Clamp(c) = IF c \in 0..9200 THEN c ELSE IF c < 0 THEN 0 ELSE 9200
    BY DEF Clamp, CONFIDENCE_CEILING
  <2>3. CASE c < 0
    BY <2>1, <2>2, <2>3
  <2>4. CASE c > 9200
    BY <2>1, <2>2, <2>4
  <2>5. CASE 0 <= c /\ c <= 9200
    BY <2>1, <2>2, <2>5
  <2> QED BY <2>3, <2>4, <2>5
<1>2. /\ Clamp(a) = IF a < 0 THEN 0 ELSE IF a > 9200 THEN 9200 ELSE a
      /\ Clamp(b) = IF b < 0 THEN 0 ELSE IF b > 9200 THEN 9200 ELSE b
  BY <1>1
<1> QED BY <1>2

LEMMA HolesCost ==
  ASSUME NEW S, IsFiniteSet(S), NEW T \in SUBSET S, NEW n \in Nat
  PROVE  /\ HolesPenalty(Cardinality(S) + n) \in Nat
         /\ HolesPenalty(Cardinality(T) + n) \in Nat
         /\ HolesPenalty(Cardinality(T) + n) <= HolesPenalty(Cardinality(S) + n)
<1>1. /\ Cardinality(S) \in Nat /\ Cardinality(T) \in Nat
      /\ Cardinality(T) <= Cardinality(S)
  BY FS_Subset, FS_CardinalityType
<1> DEFINE a == Cardinality(T)
           b == Cardinality(S)
<1>2. a \in Nat /\ b \in Nat /\ a <= b
  BY <1>1
<1> HIDE DEF a, b
<1>3. /\ HolesPenalty(b + n) \in Nat /\ HolesPenalty(a + n) \in Nat
      /\ HolesPenalty(a + n) <= HolesPenalty(b + n)
  BY <1>2 DEF HolesPenalty, AtMost
<1> QED BY <1>3 DEF a, b

LEMMA BlemishesCost ==
  ASSUME NEW r
  PROVE  /\ BlemishPenalty(r) \in Nat
         /\ BlemishPenalty(Complete) = 0
BY DEF BlemishPenalty, Complete

\* A score counts up to a cap.
LEMMA ScoreCounted ==
  ASSUME NEW a \in Nat, NEW b \in Nat, a <= b
  PROVE  /\ AtMost(2500, 25 * a) \in Nat /\ AtMost(2500, 25 * b) \in Nat
         /\ AtMost(2500, 25 * a) <= AtMost(2500, 25 * b)
BY DEF AtMost

LEMMA NineSignatures ==
  ASSUME NEW a, NEW b, NEW c, NEW d, NEW e, NEW f, NEW g, NEW h, NEW i
  PROVE  IsFiniteSet({a, b, c, d, e, f, g, h, i})
<1>1. /\ IsFiniteSet({a}) /\ IsFiniteSet({b}) /\ IsFiniteSet({c})
      /\ IsFiniteSet({d}) /\ IsFiniteSet({e}) /\ IsFiniteSet({f})
      /\ IsFiniteSet({g}) /\ IsFiniteSet({h}) /\ IsFiniteSet({i})
  BY FS_Singleton
<1>2. IsFiniteSet({a} \cup {b}) /\ IsFiniteSet({c} \cup {d})
      /\ IsFiniteSet({e} \cup {f}) /\ IsFiniteSet({g} \cup {h})
  BY <1>1, FS_Union
<1>3. IsFiniteSet(({a} \cup {b}) \cup ({c} \cup {d}))
      /\ IsFiniteSet(({e} \cup {f}) \cup ({g} \cup {h}))
  BY <1>2, FS_Union
<1>4. IsFiniteSet((({a} \cup {b}) \cup ({c} \cup {d}))
                    \cup (({e} \cup {f}) \cup ({g} \cup {h})))
  BY <1>3, FS_Union
<1>5. IsFiniteSet(((({a} \cup {b}) \cup ({c} \cup {d}))
                    \cup (({e} \cup {f}) \cup ({g} \cup {h}))) \cup {i})
  BY <1>1, <1>4, FS_Union
<1>6. ((({a} \cup {b}) \cup ({c} \cup {d}))
        \cup (({e} \cup {f}) \cup ({g} \cup {h}))) \cup {i}
          = {a, b, c, d, e, f, g, h, i}
  OBVIOUS
<1> QED BY <1>5, <1>6

LEMMA ExploitWeighs ==
  /\ IsFiniteSet(DOMAIN ExploitWeights)
  /\ ExploitWeights \in [DOMAIN ExploitWeights -> 0..100]
<1>1. DOMAIN ExploitWeights =
        {"unauthorized_authority", "authority_mutation", "delegate_transfer",
         "victim_cohort", "drain_ratio", "program_upgraded_recently",
         "counterparty_first_seen", "counterparty_fanout", "flash_loan_present"}
  BY DEF ExploitWeights
<1>2. IsFiniteSet(DOMAIN ExploitWeights)
  <2>1. IsFiniteSet(
        {"unauthorized_authority", "authority_mutation", "delegate_transfer",
         "victim_cohort", "drain_ratio", "program_upgraded_recently",
         "counterparty_first_seen", "counterparty_fanout", "flash_loan_present"})
    BY NineSignatures, Zenon
  <2> QED BY <1>1, <2>1
<1> QED BY <1>2 DEF ExploitWeights

LEMMA GovernanceWeighs ==
  /\ IsFiniteSet(DOMAIN GovernanceWeights)
  /\ GovernanceWeights \in [DOMAIN GovernanceWeights -> 0..100]
<1>1. DOMAIN GovernanceWeights =
        {"authority_left_manifest", "takeover_signer_foreign", "account_frozen",
         "upgrade_authority_seized", "drain_follows_takeover", "victim_cohort",
         "delegate_installed_then_pulled", "new_authority_first_seen",
         "multisig_config_opaque"}
  BY DEF GovernanceWeights
<1>2. IsFiniteSet(DOMAIN GovernanceWeights)
  <2>1. IsFiniteSet(
        {"authority_left_manifest", "takeover_signer_foreign", "account_frozen",
         "upgrade_authority_seized", "drain_follows_takeover", "victim_cohort",
         "delegate_installed_then_pulled", "new_authority_first_seen",
         "multisig_config_opaque"})
    BY NineSignatures, Zenon
  <2> QED BY <1>1, <2>1
<1> QED BY <1>2 DEF GovernanceWeights

\* What full evidence finds includes what a legible reading found, and it
\* leaves nothing unchecked that the reading had checked.
LEMMA ExploitFindsMore ==
  ASSUME NEW i \in Incident, NEW r, r.garbled = {}
  PROVE  /\ ExploitUnevaluated(i, Complete) \subseteq ExploitUnevaluated(i, r)
         /\ ExploitPresent(i, r) \subseteq ExploitPresent(i, Complete)
<1>1. View(i, r) = View(i, Complete)
  BY WholeView, CompleteReading
<1>2. ExploitUnevaluated(i, Complete) \subseteq ExploitUnevaluated(i, r)
  BY <1>1, CompleteReading
  DEF ExploitUnevaluated, DrainKnown, FirstSeenUnread, FanoutUnread, UpgradeUnread
<1> QED BY <1>1, <1>2 DEF ExploitPresent

LEMMA ExploitSurer ==
  ASSUME NEW i \in Incident, NEW r, r.garbled = {}
  PROVE  ExploitConfidence(i, r) <= ExploitConfidence(i, Complete)
<1> DEFINE full  == AtMost(2500, 25 * ExploitScore(i, Complete))
           score == AtMost(2500, 25 * ExploitScore(i, r))
           none  == HolesPenalty(Cardinality(ExploitUnevaluated(i, Complete)))
           holes == HolesPenalty(Cardinality(ExploitUnevaluated(i, r)))
           share(q) == IF ~DrainKnown(i, q) THEN -300
                       ELSE IF HalfDrained(i) THEN 500 ELSE 0
           owner == IF AccountsLost(i) THEN 500 ELSE 0
<1>1. score \in Nat /\ full \in Nat /\ score <= full
  <2>1. /\ ExploitPresent(i, Complete) \in SUBSET DOMAIN ExploitWeights
        /\ ExploitPresent(i, r) \in SUBSET ExploitPresent(i, Complete)
    BY ExploitFindsMore DEF ExploitPresent
  <2>2. /\ ExploitScore(i, r) \in Nat /\ ExploitScore(i, Complete) \in Nat
        /\ ExploitScore(i, r) <= ExploitScore(i, Complete)
    BY <2>1, ExploitWeighs, ScoreGrows DEF ExploitScore
  <2> QED BY <2>2, ScoreCounted
<1>2. none \in Nat /\ holes \in Nat /\ none <= holes
  <2> DEFINE S == ExploitUnevaluated(i, r)
             T == ExploitUnevaluated(i, Complete)
  <2>1. T \in SUBSET S /\ S \in SUBSET DOMAIN ExploitWeights
    BY ExploitFindsMore DEF ExploitUnevaluated
  <2>2. IsFiniteSet(S) /\ IsFiniteSet(T)
    BY <2>1, ExploitWeighs, FS_Subset
  <2>3. Cardinality(S) \in Nat /\ Cardinality(T) \in Nat
    BY <2>2, FS_CardinalityType
  <2> HIDE DEF S, T
  <2>4. /\ HolesPenalty(Cardinality(S) + 0) \in Nat
        /\ HolesPenalty(Cardinality(T) + 0) \in Nat
        /\ HolesPenalty(Cardinality(T) + 0) <= HolesPenalty(Cardinality(S) + 0)
    BY <2>1, <2>2, HolesCost
  <2>5. Cardinality(S) + 0 = Cardinality(S) /\ Cardinality(T) + 0 = Cardinality(T)
    BY <2>3
  <2> QED BY <2>4, <2>5 DEF S, T
<1>3. share(r) \in Int /\ share(Complete) \in Int /\ share(r) <= share(Complete)
  BY CompleteReading DEF DrainKnown
<1>4. owner \in Int
  OBVIOUS
<1>5. BlemishPenalty(r) \in Nat /\ BlemishPenalty(Complete) = 0
  BY BlemishesCost
<1>6. /\ ExploitConfidence(i, r)
           = Clamp(5500 + score - holes + share(r) + owner - BlemishPenalty(r))
      /\ ExploitConfidence(i, Complete)
           = Clamp(5500 + full - none + share(Complete) + owner
                     - BlemishPenalty(Complete))
  BY DEF ExploitConfidence
<1> DEFINE low  == 5500 + score - holes + share(r) + owner - BlemishPenalty(r)
           high == 5500 + full - none + share(Complete) + owner
                     - BlemishPenalty(Complete)
<1>7. low \in Int /\ high \in Int /\ low <= high
  <2> HIDE DEF full, score, none, holes, share, owner
  <2> QED BY <1>1, <1>2, <1>3, <1>4, <1>5
<1> HIDE DEF low, high
<1>8. Clamp(low) <= Clamp(high)
  BY <1>7, ClampGrows
<1> QED BY <1>6, <1>8 DEF low, high

\* The history read, an envelope is measured alike by every legible reading.
LEMMA AgentErrorSurer ==
  ASSUME NEW i \in Incident, NEW r, r.garbled = {}, ~Lacks(r, "outflows")
  PROVE  AgentErrorConfidence(i, r) <= AgentErrorConfidence(i, Complete)
<1>1. View(i, r) = View(i, Complete)
  BY WholeView, CompleteReading
<1>2. HasHistory(i, r) <=> HasHistory(i, Complete)
  BY CompleteReading DEF HasHistory
<1>3. BreachUnevaluated(i, r) = BreachUnevaluated(i, Complete)
  BY <1>1, <1>2 DEF BreachUnevaluated
<1>4. Breached(i, r) = Breached(i, Complete)
  BY <1>1, <1>3 DEF Breached
<1>5. BreachProvable(i, r) <=> BreachProvable(i, Complete)
  BY <1>4 DEF BreachProvable
<1> DEFINE breach == Breached(i, Complete)
           holes  == BreachUnevaluated(i, Complete)
           fresh  == HasHistory(i, Complete) /\ ~StaleHistory(i)
           many   == AtMost(1000, 500 * (Cardinality(breach) - 1))
           cost   == HolesPenalty(Cardinality(holes))
           proved == IF BreachProvable(i, Complete) THEN 1500 ELSE 0
           known  == IF fresh
                     THEN IF /\ Percentile(i, 95) > 0
                             /\ "single_outflow" \in breach
                             /\ i.lost >= 10 * Percentile(i, 95)
                          THEN 500 ELSE 0
                     ELSE -300
<1>6. Cardinality(breach) \in Nat /\ Cardinality(holes) \in Nat
  <2>1. IsFiniteSet(Dimensions)
    <3>1. Dimensions = {"single_outflow", "retained_balance", "window_outflow",
                        "counterparty", "program", "program", "program",
                        "program", "program"}
      BY DEF Dimensions
    <3> QED BY <3>1, NineSignatures
  <2>2. breach \in SUBSET Dimensions /\ holes \in SUBSET Dimensions
    BY DEF Breached, BreachUnevaluated
  <2> HIDE DEF breach, holes
  <2>3. IsFiniteSet(breach) /\ IsFiniteSet(holes)
    BY <2>1, <2>2, FS_Subset
  <2> QED BY <2>3, FS_CardinalityType
<1>7. many \in Int /\ cost \in Int
  <2> HIDE DEF breach, holes
  <2> QED BY <1>6 DEF AtMost, HolesPenalty
<1>8. proved \in Int /\ known \in Int
  <2> HIDE DEF fresh, breach
  <2> QED OBVIOUS
<1>9. BlemishPenalty(r) \in Nat /\ BlemishPenalty(Complete) = 0
  BY BlemishesCost
<1> DEFINE low  == 6000 + proved + many - cost + known - BlemishPenalty(r)
           high == 6000 + proved + many - cost + known - BlemishPenalty(Complete)
<1>10. AgentErrorConfidence(i, r) = Clamp(low)
       /\ AgentErrorConfidence(i, Complete) = Clamp(high)
  BY <1>2, <1>3, <1>4, <1>5 DEF AgentErrorConfidence
<1>11. low \in Int /\ high \in Int /\ low <= high
  <2> HIDE DEF many, cost, proved, known
  <2> QED BY <1>7, <1>8, <1>9
<1> HIDE DEF low, high
<1>12. Clamp(low) <= Clamp(high)
  BY <1>11, ClampGrows
<1> QED BY <1>10, <1>12

LEMMA GovernanceFindsMore ==
  ASSUME NEW i \in Incident, NEW r, r.garbled = {}, NEW h, NEW t
  PROVE  /\ GovernanceUnevaluated(i, Complete, t) \subseteq GovernanceUnevaluated(i, r, t)
         /\ GovernancePresent(i, r, h, t) \subseteq GovernancePresent(i, Complete, h, t)
<1>1. View(i, r) = View(i, Complete)
  BY WholeView, CompleteReading
<1>2. GovernanceUnevaluated(i, Complete, t) \subseteq GovernanceUnevaluated(i, r, t)
  BY <1>1, CompleteReading DEF GovernanceUnevaluated, WithinWindow
<1>3. Gone(i, r, h) > 0 => Gone(i, Complete, h) = Gone(i, r, h)
  BY CompleteReading DEF Gone
<1> QED BY <1>1, <1>2, <1>3 DEF GovernancePresent

LEMMA GovernanceSurer ==
  ASSUME NEW i \in Incident, IsFiniteSet(i.ixs), NEW r, r.garbled = {},
         NEW h \in Nat, NEW f \in Nat, NEW t
  PROVE  GovernanceConfidence(i, r, h, f, t) <= GovernanceConfidence(i, Complete, h, f, t)
<1>1. View(i, r) = i.ixs /\ View(i, Complete) = i.ixs
  BY WholeView, CompleteReading
<1> DEFINE full  == AtMost(2500, 25 * GovernanceScore(i, Complete, h, t))
           score == AtMost(2500, 25 * GovernanceScore(i, r, h, t))
           open  == AuthorityHoles(i, Complete)
           S     == GovernanceUnevaluated(i, r, t)
           T     == GovernanceUnevaluated(i, Complete, t)
           holes == HolesPenalty(Cardinality(S) + open)
           none  == HolesPenalty(Cardinality(T) + open)
           known(q) == /\ ~Lacks(q, "prior") /\ ~Lacks(q, "snapshot")
                       /\ i.held > 0
           share(q) == IF ~known(q) THEN -300
                       ELSE IF 2 * Exposure(i, q, h, f) >= i.held THEN 500 ELSE 0
           owner == IF OwnershipChanges(i) # {} THEN 500 ELSE 0
           froze == IF f > 0 THEN 500 ELSE 0
<1>2. score \in Nat /\ full \in Nat /\ score <= full
  <2>1. /\ GovernancePresent(i, Complete, h, t) \in SUBSET DOMAIN GovernanceWeights
        /\ GovernancePresent(i, r, h, t) \in SUBSET GovernancePresent(i, Complete, h, t)
    BY GovernanceFindsMore DEF GovernancePresent
  <2>2. /\ GovernanceScore(i, r, h, t) \in Nat /\ GovernanceScore(i, Complete, h, t) \in Nat
        /\ GovernanceScore(i, r, h, t) <= GovernanceScore(i, Complete, h, t)
    BY <2>1, GovernanceWeighs, ScoreGrows DEF GovernanceScore
  <2> QED BY <2>2, ScoreCounted
<1>3. open \in Nat /\ AuthorityHoles(i, r) = open
  <2> DEFINE U == {j \in i.ixs :
                     \/ j.type = "multisig"
                     \/ j.type = "upgrade" /\ j.authority # Agent
                     \/ j \in Takeovers(i.ixs) /\ j.authority = Unread}
  <2>1. Undecoded(i, r) = {} /\ Undecoded(i, Complete) = {}
    BY CompleteReading DEF Undecoded
  <2>2. /\ AuthorityHoles(i, r) = Cardinality({}) + Cardinality(U)
        /\ open = Cardinality({}) + Cardinality(U)
    BY <1>1, <2>1 DEF AuthorityHoles
  <2>3. U \in SUBSET i.ixs
    OBVIOUS
  <2> HIDE DEF U
  <2>4. Cardinality(U) \in Nat /\ Cardinality({}) = 0
    BY <2>3, FS_Subset, FS_CardinalityType, FS_EmptySet
  <2> QED BY <2>2, <2>4
<1>4. none \in Nat /\ holes \in Nat /\ none <= holes
  <2>1. T \in SUBSET S /\ S \in SUBSET DOMAIN GovernanceWeights
    BY GovernanceFindsMore DEF GovernanceUnevaluated
  <2> HIDE DEF S, T, open
  <2>2. IsFiniteSet(S)
    BY <2>1, GovernanceWeighs, FS_Subset
  <2> QED BY <1>3, <2>1, <2>2, HolesCost
<1>5. share(r) \in Int /\ share(Complete) \in Int /\ share(r) <= share(Complete)
  <2>1. ~Lacks(r, "snapshot") => Exposure(i, r, h, f) = Exposure(i, Complete, h, f)
    BY CompleteReading DEF Exposure, Gone
  <2> QED BY <2>1, CompleteReading
<1>6. owner \in Int /\ froze \in Int
  OBVIOUS
<1>7. BlemishPenalty(r) \in Nat /\ BlemishPenalty(Complete) = 0
  BY BlemishesCost
<1> DEFINE low  == 5500 + score - holes + owner + froze + share(r) - BlemishPenalty(r)
           high == 5500 + full - none + owner + froze + share(Complete)
                     - BlemishPenalty(Complete)
<1>8. /\ GovernanceConfidence(i, r, h, f, t) = Clamp(low)
      /\ GovernanceConfidence(i, Complete, h, f, t) = Clamp(high)
  BY <1>3 DEF GovernanceConfidence
<1>9. low \in Int /\ high \in Int /\ low <= high
  <2> HIDE DEF full, score, none, holes, share, owner, froze
  <2> QED BY <1>2, <1>4, <1>5, <1>6, <1>7
<1> HIDE DEF low, high
<1>10. Clamp(low) <= Clamp(high)
  BY <1>9, ClampGrows
<1> QED BY <1>8, <1>10

-----------------------------------------------------------------------------
(* The inductive invariant of the review: a row is of its shape, and one   *)
(* that was closed or approved carries the verdict of the reading it was   *)
(* decided on, whatever befalls the agent afterwards.                      *)

RowFields ==
  {"trigger", "status", "reason", "attempts", "loss", "confidence", "proven",
   "provable", "hash", "reattributed"}

Decision == Adjudicate(claim.trigger, basis.reading, basis.held)

Denied ==
  claim.status = "rejected" =>
    Decision.outcome = "rejected"

Granted ==
  claim.status \in {"approved", "paid"} =>
    /\ Decision.outcome = "confirmed"
    /\ Decision.loss = claim.loss
    /\ Decision.confidence = claim.confidence
    /\ basis.held \in Nat
    /\ claim.confidence >= REVIEW_CONFIDENCE
    /\ claim.proven /\ claim.hash /\ claim.trigger \in ProofEnabled
    /\ claim.trigger = "agent_error" =>
         claim.provable /\ BreachProvable(incident, basis.reading)

ReviewInv ==
  /\ ReviewTypeOK
  /\ DOMAIN claim = RowFields
  /\ Denied
  /\ Granted

LEMMA KnownIncident ==
  ASSUME ReviewTypeOK
  PROVE  incident \in Incident /\ WellFormed(incident)
BY DEF ReviewTypeOK

LEMMA VerdictShape ==
  ASSUME ReviewTypeOK, NEW t \in Triggers, NEW r, NEW h \in Nat
  PROVE  LET d == Adjudicate(t, r, h) IN
         /\ d.outcome \in Outcomes
         /\ d.loss \in 0..Coverage
         /\ d.confidence \in 0..CONFIDENCE_CEILING
         /\ d.outcome = "confirmed" =>
              /\ d.loss >= MIN_PAYABLE_LOSS
              /\ t = "agent_error" =>
                   /\ d.reason = "mandate_breach"
                   /\ BreachProvable(incident, r) =>
                        /\ d.loss >= MIN_PROVABLE_MANDATE_BREACH
                        /\ d.loss <= ExcessRaw(incident)
<1>1. incident \in Incident
  BY KnownIncident
<1>2. Frozen(h) \in Nat
  BY DEF Frozen
<1>3. CASE t = "exploit"
  BY <1>1, <1>3, ExploitVerdictShape DEF Adjudicate
<1>4. CASE t = "agent_error"
  BY <1>1, <1>4, AgentErrorVerdictShape DEF Adjudicate
<1>5. CASE t = "governance"
  BY <1>1, <1>2, <1>5, GovernanceVerdictShape DEF Adjudicate
<1> QED
  BY <1>3, <1>4, <1>5 DEF Triggers

\* The fields of the row after each outcome of a pass.
LEMMA ParkedRow ==
  ASSUME DOMAIN claim = RowFields, NEW reason, NEW provable, Park(reason, provable)
  PROVE  /\ DOMAIN claim' = RowFields
         /\ claim'.status = IF claim.attempts + 1 >= MAX_VERIFY_ATTEMPTS
                            THEN "review" ELSE "indeterminate"
         /\ claim'.attempts = claim.attempts + 1
         /\ claim'.provable = provable
         /\ \A f \in {"trigger", "loss", "confidence", "proven", "hash",
                       "reattributed"} : claim'[f] = claim[f]
BY DEF Park, RowFields

LEMMA Refiled ==
  ASSUME DOMAIN claim = RowFields, NEW verdict, Refile(verdict)
  PROVE  /\ DOMAIN claim' = RowFields
         /\ claim'.status = "pending" /\ claim'.trigger = "agent_error"
         /\ claim'.reattributed = TRUE
         /\ \A f \in {"attempts", "loss", "confidence", "proven", "provable",
                       "hash"} : claim'[f] = claim[f]
BY DEF Refile, RowFields

LEMMA RejectedRow ==
  ASSUME DOMAIN claim = RowFields, NEW verdict, Reject(verdict)
  PROVE  /\ DOMAIN claim' = RowFields
         /\ claim'.status = "rejected"
         /\ \A f \in RowFields \ {"status", "reason"} : claim'[f] = claim[f]
BY DEF Reject, RowFields

\* No confidence a verifier gives is paid without a proof.
LEMMA LaneOf ==
  ASSUME NEW c \in 0..CONFIDENCE_CEILING, NEW p \in BOOLEAN
  PROVE  /\ DecideLane(c, p) \in {"review", "pay_proven"}
         /\ DecideLane(c, p) = "pay_proven" => c >= REVIEW_CONFIDENCE /\ p
<1>1. c \in Nat /\ c <= 9200
  BY DEF CONFIDENCE_CEILING
<1>2. DecideLane(c, p) = IF c < 7500 THEN "review"
                         ELSE IF ~p THEN "review" ELSE "pay_proven"
  BY <1>1 DEF DecideLane, AUTO_PAY_CONFIDENCE, REVIEW_CONFIDENCE
<1> QED
  BY <1>1, <1>2 DEF REVIEW_CONFIDENCE

LEMMA Confirmed ==
  ASSUME DOMAIN claim = RowFields, NEW verdict, NEW provable, NEW hash,
         verdict.confidence \in 0..CONFIDENCE_CEILING,
         Confirm(verdict, provable, hash)
  PROVE  /\ DOMAIN claim' = RowFields
         /\ claim'.trigger = claim.trigger
         /\ claim'.reattributed = claim.reattributed
         /\ \/ /\ claim'.status = "review"
               /\ \A f \in RowFields \ {"status", "reason"} : claim'[f] = claim[f]
            \/ /\ claim'.status = "approved"
               /\ claim'.attempts = claim.attempts + 1
               /\ claim'.loss = verdict.loss
               /\ claim'.confidence = verdict.confidence
               /\ verdict.confidence >= REVIEW_CONFIDENCE
               /\ claim'.proven = TRUE
               /\ claim'.provable = provable
               /\ claim'.hash = (hash \/ claim.hash)
               /\ Plannable(claim.trigger, provable, hash \/ claim.hash)
<1> DEFINE plan == Plannable(claim.trigger, provable, hash \/ claim.hash)
           lane == DecideLane(verdict.confidence, plan)
<1>1. lane \in {"review", "pay_proven"}
      /\ (lane = "pay_proven" => verdict.confidence >= REVIEW_CONFIDENCE /\ plan)
  BY LaneOf, plan \in BOOLEAN DEF Plannable
<1>2. CASE lane = "review"
  BY <1>2 DEF Confirm, RowFields
<1>3. CASE lane = "pay_proven"
  <2>1. claim' = [claim EXCEPT
            !.status = "approved", !.reason = verdict.reason,
            !.attempts = @ + 1, !.loss = verdict.loss,
            !.confidence = verdict.confidence, !.proven = lane = "pay_proven",
            !.provable = provable, !.hash = hash \/ @]
    BY <1>3 DEF Confirm
  <2> HIDE DEF lane
  <2> QED
    BY <1>1, <1>3, <2>1 DEF RowFields
<1> QED
  BY <1>1, <1>2, <1>3

-----------------------------------------------------------------------------
(* The invariant holds. *)

LEMMA InitReviewInv == ReviewInit => ReviewInv
<1> SUFFICES ASSUME ReviewInit
             PROVE  ReviewInv
  OBVIOUS
<1>1. PICK t \in Triggers : claim = Filed(t)
  BY DEF ReviewInit
<1>2. incident \in Incident /\ WellFormed(incident)
  BY ReviewAssumption DEF ReviewInit
<1>3. holdings \in 0..incident.held
  BY <1>2, IncidentAmounts DEF ReviewInit, WellFormed
<1>4. /\ DOMAIN claim = RowFields
      /\ claim.trigger \in Triggers /\ claim.status = "pending"
      /\ claim.attempts = 0 /\ claim.loss = 0 /\ claim.confidence = 0
      /\ claim.proven = FALSE /\ claim.provable = FALSE /\ claim.hash = FALSE
      /\ claim.reattributed = FALSE
  BY <1>1 DEF Filed, RowFields
<1>5. lag \in 0..MaxLag
  BY ReviewAssumption DEF ReviewInit
<1>6. ReviewTypeOK
  <2>1. {claim.proven, claim.provable, claim.hash, claim.reattributed}
          \subseteq BOOLEAN
    BY <1>4
  <2>2. /\ claim.status \in Open \cup Decided
        /\ claim.attempts \in Nat
        /\ claim.loss \in 0..Coverage
        /\ claim.confidence \in 0..CONFIDENCE_CEILING
    BY <1>4, AmountsAssumption DEF Open, Decided, CONFIDENCE_CEILING
  <2>3. incident \in Incident /\ WellFormed(incident)
    BY ReviewAssumption DEF ReviewInit
  <2> QED
    BY <1>3, <1>4, <1>5, <2>1, <2>2, <2>3 DEF ReviewTypeOK
<1> QED
  BY <1>4, <1>6, AmountsAssumption DEF ReviewInv, Denied, Granted, Open

\* A pass whose verdict parks, re-files, rejects or confirms the claim.
LEMMA VerifyKeepsReviewInv ==
  ASSUME ReviewInv, NEW r, NEW hash \in BOOLEAN,
         Verify(r, hash)
  PROVE  ReviewInv'
<1> DEFINE verdict  == Adjudicate(claim.trigger, r, holdings)
           provable == BreachSaid(claim.trigger, verdict, r)
<1>1. /\ ReviewTypeOK /\ DOMAIN claim = RowFields
      /\ claim.status \in Open /\ claim.trigger \in Triggers
      /\ claim.attempts \in Nat /\ holdings \in Nat
      /\ UNCHANGED <<incident, holdings, lag>>
  BY DEF ReviewInv, ReviewTypeOK, Verify
<1>2. /\ verdict.outcome \in Outcomes
      /\ verdict.loss \in 0..Coverage
      /\ verdict.confidence \in 0..CONFIDENCE_CEILING
      /\ verdict.outcome = "confirmed" /\ claim.trigger = "agent_error" =>
           verdict.reason = "mandate_breach"
  BY <1>1, VerdictShape
<1>3. provable \in BOOLEAN
  BY <1>1 DEF BreachSaid, BreachProvable, ReviewTypeOK
<1>4. ASSUME basis' = Basis(r, holdings), claim'.trigger = claim.trigger
      PROVE  /\ Decision' = verdict
             /\ BreachProvable(incident, basis.reading)' <=> BreachProvable(incident, r)
             /\ basis'.held \in Nat
  BY <1>1, <1>4 DEF Decision, Adjudicate, Frozen, Basis
<1>5. basis' = IF claim'.status \in Open THEN basis ELSE Basis(r, holdings)
  BY DEF Verify
<1>6. \/ \E reason : Park(reason, provable)
      \/ Refile(verdict)
      \/ verdict.outcome = "rejected" /\ Reject(verdict)
      \/ verdict.outcome = "confirmed" /\ Confirm(verdict, provable, hash)
  BY <1>2 DEF Verify, Outcomes
<1> HIDE DEF verdict, provable
<1>7. CASE \E reason : Park(reason, provable)
  <2>1. PICK reason : Park(reason, provable)
    BY <1>7
  <2>2. /\ DOMAIN claim' = RowFields
        /\ claim'.status = IF claim.attempts + 1 >= MAX_VERIFY_ATTEMPTS
                           THEN "review" ELSE "indeterminate"
        /\ claim'.attempts = claim.attempts + 1
        /\ claim'.provable = provable
        /\ claim'.trigger = claim.trigger /\ claim'.loss = claim.loss
        /\ claim'.confidence = claim.confidence /\ claim'.proven = claim.proven
        /\ claim'.hash = claim.hash /\ claim'.reattributed = claim.reattributed
    BY <1>1, <2>1, ParkedRow
  <2>3. ReviewTypeOK'
    BY <1>1, <1>3, <2>2, AmountsAssumption DEF ReviewTypeOK, Open, Decided
  <2> QED
    BY <1>1, <2>2, <2>3, AmountsAssumption
    DEF ReviewInv, Denied, Granted, Open
<1>8. CASE Refile(verdict)
  <2>1. /\ DOMAIN claim' = RowFields
        /\ claim'.status = "pending" /\ claim'.trigger = "agent_error"
        /\ claim'.reattributed = TRUE
        /\ claim'.attempts = claim.attempts /\ claim'.loss = claim.loss
        /\ claim'.confidence = claim.confidence /\ claim'.proven = claim.proven
        /\ claim'.provable = claim.provable /\ claim'.hash = claim.hash
    BY <1>1, <1>8, Refiled
  <2>2. ReviewTypeOK'
    BY <1>1, <2>1 DEF ReviewTypeOK, Open, Decided, Triggers
  <2> QED
    BY <1>1, <2>1, <2>2 DEF ReviewInv, Denied, Granted, Open
<1>9. CASE verdict.outcome = "rejected" /\ Reject(verdict)
  <2>1. /\ DOMAIN claim' = RowFields
        /\ claim'.status = "rejected"
        /\ claim'.trigger = claim.trigger /\ claim'.loss = claim.loss
        /\ claim'.attempts = claim.attempts
        /\ claim'.confidence = claim.confidence /\ claim'.proven = claim.proven
        /\ claim'.hash = claim.hash /\ claim'.reattributed = claim.reattributed
        /\ claim'.provable = claim.provable
    BY <1>1, <1>9, RejectedRow DEF RowFields
  <2>2. ReviewTypeOK'
    BY <1>1, <2>1 DEF ReviewTypeOK, Open, Decided
  <2>3. Denied'
    BY <1>4, <1>5, <1>9, <2>1 DEF Denied, Open, verdict
  <2> QED
    BY <1>1, <2>1, <2>2, <2>3 DEF ReviewInv, Granted, Open
<1>10. CASE verdict.outcome = "confirmed" /\ Confirm(verdict, provable, hash)
  <2>1. /\ DOMAIN claim' = RowFields
        /\ claim'.trigger = claim.trigger
        /\ claim'.reattributed = claim.reattributed
        /\ \/ /\ claim'.status = "review"
              /\ \A f \in RowFields \ {"status", "reason"} : claim'[f] = claim[f]
           \/ /\ claim'.status = "approved"
              /\ claim'.attempts = claim.attempts + 1
              /\ claim'.loss = verdict.loss
              /\ claim'.confidence = verdict.confidence
              /\ verdict.confidence >= REVIEW_CONFIDENCE
              /\ claim'.proven = TRUE
              /\ claim'.provable = provable
              /\ claim'.hash = (hash \/ claim.hash)
              /\ Plannable(claim.trigger, provable, hash \/ claim.hash)
    BY <1>1, <1>2, <1>10, Confirmed
  <2>2. CASE claim'.status = "review"
    <3>1. /\ claim'.loss = claim.loss /\ claim'.attempts = claim.attempts
          /\ claim'.confidence = claim.confidence /\ claim'.proven = claim.proven
          /\ claim'.hash = claim.hash /\ claim'.provable = claim.provable
      BY <2>1, <2>2 DEF RowFields
    <3>2. ReviewTypeOK'
      BY <1>1, <2>1, <2>2, <3>1 DEF ReviewTypeOK, Open, Decided
    <3> QED
      BY <2>1, <2>2, <3>2 DEF ReviewInv, Denied, Granted, Open
  <2>3. CASE claim'.status = "approved"
    <3>1. /\ claim'.attempts = claim.attempts + 1
          /\ claim'.loss = verdict.loss
          /\ claim'.confidence = verdict.confidence
          /\ verdict.confidence >= REVIEW_CONFIDENCE
          /\ claim'.proven = TRUE
          /\ claim'.provable = provable
          /\ claim'.hash = (hash \/ claim.hash)
          /\ Plannable(claim.trigger, provable, hash \/ claim.hash)
      BY <2>1, <2>3
    <3>2. ReviewTypeOK'
      <4>1. claim'.hash \in BOOLEAN
        BY <3>1
      <4>2. {claim'.proven, claim'.provable, claim'.hash, claim'.reattributed}
              \subseteq BOOLEAN
        BY <1>1, <1>3, <2>1, <3>1, <4>1 DEF ReviewTypeOK
      <4>3. claim'.attempts \in Nat
        BY <1>1, <3>1
      <4> QED
        BY <1>1, <1>2, <2>1, <2>3, <3>1, <4>2, <4>3
        DEF ReviewTypeOK, Open, Decided
    <3>3. basis' = Basis(r, holdings)
      BY <1>5, <2>3 DEF Open
    <3>4. claim.trigger = "agent_error" => provable /\ BreachProvable(incident, r)
      BY <1>2, <1>10, <3>1 DEF Plannable, provable, BreachSaid, BeforeBreach
    <3>5. Granted'
      BY <1>1, <1>4, <1>10, <2>1, <3>1, <3>3, <3>4 DEF Granted, Plannable, verdict
    <3> QED
      BY <2>1, <2>3, <3>2, <3>5 DEF ReviewInv, Denied, Open
  <2> QED
    BY <2>1, <2>2, <2>3
<1> QED
  BY <1>6, <1>7, <1>8, <1>9, <1>10

LEMMA SettleKeepsReviewInv ==
  ASSUME ReviewInv, Settle
  PROVE  ReviewInv'
<1>1. /\ ReviewTypeOK /\ DOMAIN claim = RowFields
      /\ claim.status = "approved"
      /\ UNCHANGED <<incident, holdings, lag, basis>>
  BY DEF ReviewInv, Settle
<1>2. /\ DOMAIN claim' = RowFields
      /\ claim'.status \in {"paid", "review"}
      /\ claim'.trigger = claim.trigger /\ claim'.loss = claim.loss
      /\ claim'.attempts = claim.attempts
      /\ claim'.confidence = claim.confidence /\ claim'.proven = claim.proven
      /\ claim'.hash = claim.hash /\ claim'.reattributed = claim.reattributed
      /\ claim'.provable = claim.provable
  BY <1>1 DEF Settle, RowFields
<1>3. ReviewTypeOK'
  BY <1>1, <1>2 DEF ReviewTypeOK, Open, Decided
<1>4. Decision' = Decision
      /\ (BreachProvable(incident, basis.reading)' <=> BreachProvable(incident, basis.reading))
  BY <1>1, <1>2 DEF Decision, Adjudicate, Frozen
<1>5. Granted
  BY DEF ReviewInv
<1>6. Granted'
  BY <1>1, <1>2, <1>4, <1>5 DEF Granted
<1> QED
  BY <1>2, <1>3, <1>6 DEF ReviewInv, Denied, Open

LEMMA ElapseKeepsReviewInv ==
  ASSUME ReviewInv, Elapse
  PROVE  ReviewInv'
<1>1. /\ ReviewTypeOK /\ claim.status \in Open
      /\ UNCHANGED <<incident, claim, basis>>
      /\ lag' = lag + 1 /\ lag < MaxLag
      /\ holdings' \in {0, holdings, incident.held} /\ holdings \in Nat
  BY DEF ReviewInv, ReviewTypeOK, Elapse
<1>2. incident.held \in Nat
  BY <1>1, KnownIncident, IncidentAmounts
<1>3. lag' \in 0..MaxLag /\ holdings' \in Nat
  BY <1>1, <1>2, ReviewAssumption DEF ReviewTypeOK
<1>4. ReviewTypeOK'
  BY <1>1, <1>3 DEF ReviewTypeOK
<1> QED
  BY <1>1, <1>4 DEF ReviewInv, Denied, Granted, Open

\* What befalls the agent and the watchers does not reach a decided row.
LEMMA ApartFromReview ==
  ASSUME ReviewInv, UNCHANGED <<incident, claim, lag, basis>>, holdings' \in Nat
  PROVE  ReviewInv'
<1>1. ReviewTypeOK' /\ DOMAIN claim' = RowFields
  BY DEF ReviewInv, ReviewTypeOK
<1>2. /\ Decision' = Decision
      /\ BreachProvable(incident, basis.reading)' <=> BreachProvable(incident, basis.reading)
  BY DEF Decision, Adjudicate, Frozen
<1> QED
  BY <1>1, <1>2 DEF ReviewInv, Denied, Granted

-----------------------------------------------------------------------------
(* What the watchers write down is of its kind: an alert names a           *)
(* transaction that has happened, and a kind that opens a claim.           *)

Kinds == {"governance_attack", "exploit", "agent_error"}
Alert == Nat \X Kinds

StoryOK ==
  /\ story \in Stories \cup {<<>>}
  /\ age \in Seq(0..Lookback) /\ Len(age) <= Len(story)
AlertsOK ==
  /\ alerts \in Seq(Alert)
  /\ \A k \in 1..Len(alerts) : alerts[k][1] \in 1..Len(age)
TickOK ==
  /\ tick \in [pc: {"idle", "sweep", "search"}, base: Nat, drop: Nat,
               todo: SUBSET Nat]
  /\ tick.todo \subseteq 1..Len(age)

WatchInv ==
  /\ StoryOK /\ AlertsOK /\ TickOK
  /\ snapshot \in Nat /\ holdings \in Nat /\ faults \in Nat

LEMMA OpensKinds == \A kind : Opens(kind) <=> kind \in Kinds
BY DEF Opens, TriggerFor, Kinds

LEMMA TriggersOpened == \A kind \in Kinds : TriggerFor[kind] \in Triggers
BY DEF TriggerFor, Kinds, Triggers

LEMMA InSeq ==
  ASSUME NEW S, NEW s \in Seq(S)
  PROVE  /\ Len(s) \in Nat /\ DOMAIN s = 1..Len(s)
         /\ \A n \in 1..Len(s) : s[n] \in S
  OBVIOUS

LEMMA StoryTx ==
  ASSUME StoryOK, NEW n \in 1..Len(story)
  PROVE  /\ story \in Stories
         /\ Tx(n) \in Incident /\ WellFormed(Tx(n)) /\ story[n].named \in BOOLEAN
         /\ Left(Tx(n)) \in Nat /\ Left(Tx(n)) <= Tx(n).held
         /\ n > 1 => Tx(n).held = Left(Tx(n - 1))
<1>1. story \in Stories
  BY DEF StoryOK
<1>2. story \in Seq([tx: Incident, named: BOOLEAN])
  BY <1>1, DetectionAssumption
<1>3. n \in DOMAIN story /\ story[n] \in [tx: Incident, named: BOOLEAN]
  BY <1>2, InSeq
<1>4. /\ Tx(n) \in Incident /\ WellFormed(Tx(n))
      /\ n > 1 => Tx(n).held = Left(Tx(n - 1))
  BY <1>1, <1>3, DetectionAssumption DEF Tx
<1>5. Left(Tx(n)) \in Nat /\ Left(Tx(n)) <= Tx(n).held
  BY <1>4, IncidentAmounts DEF Left, WellFormed
<1> QED BY <1>1, <1>3, <1>4, <1>5

\* Ages: a tick adds one up to the look-back, and a transaction starts at none.
LEMMA EndTickAges ==
  ASSUME StoryOK, EndTick
  PROVE  /\ age' \in Seq(0..Lookback) /\ Len(age') = Len(age)
         /\ \A n \in 1..Len(age) : age'[n] = AtMost(Lookback, age[n] + 1)
<1>1. Len(age) \in Nat /\ DOMAIN age = 1..Len(age)
      /\ \A n \in 1..Len(age) : age[n] \in 0..Lookback
  BY InSeq DEF StoryOK
<1>2. age' = [n \in 1..Len(age) |-> AtMost(Lookback, age[n] + 1)]
  BY <1>1 DEF EndTick
<1>3. \A n \in 1..Len(age) : AtMost(Lookback, age[n] + 1) \in 0..Lookback
  BY <1>1, DetectionAssumption DEF AtMost
<1> QED BY <1>1, <1>2, <1>3

LEMMA HappenAges ==
  ASSUME StoryOK, Happen
  PROVE  /\ age' \in Seq(0..Lookback) /\ Len(age') = Len(age) + 1
         /\ Len(age) + 1 \in 1..Len(story) /\ Len(age) >= 1
         /\ \A n \in 1..Len(age) : age'[n] = age[n]
         /\ age'[Len(age) + 1] = 0
<1>1. Len(age) \in Nat /\ Len(story) \in Int /\ Len(age) \in 1..(Len(story) - 1)
  BY StoryTx, DetectionAssumption DEF StoryOK, Happen
<1>2. 0 \in 0..Lookback
  BY DetectionAssumption
<1> QED BY <1>1, <1>2 DEF StoryOK, Happen

\* What is published of a kind, and a queue that grows by it or is served.
LEMMA PublishedAlert ==
  ASSUME AlertsOK, NEW n \in 1..Len(age), NEW kind
  PROVE  /\ Published(n, kind) \in Seq(Alert)
         /\ \A k \in 1..Len(Published(n, kind)) : Published(n, kind)[k][1] = n
         /\ Published(n, kind) # <<>> => Opens(kind)
<1>1. Len(age) \in Nat => n \in Nat
  OBVIOUS
<1> QED
  BY OpensKinds DEF Published, Alert

LEMMA MoreAlerts ==
  ASSUME NEW s \in Seq(Alert), NEW add \in Seq(Alert), NEW m \in Nat,
         \A k \in 1..Len(s) : s[k][1] \in 1..m,
         \A k \in 1..Len(add) : add[k][1] \in 1..m
  PROVE  /\ s \o add \in Seq(Alert)
         /\ \A k \in 1..Len(s \o add) : (s \o add)[k][1] \in 1..m
<1> DEFINE both == s \o add
<1>1. both \in Seq(Alert) /\ Len(both) = Len(s) + Len(add)
  OBVIOUS
<1>2. Len(s) \in Nat /\ Len(add) \in Nat
  OBVIOUS
<1>3. ASSUME NEW k \in 1..Len(both) PROVE both[k][1] \in 1..m
  <2>1. CASE k <= Len(s)
    <3>1. both[k] = s[k] /\ k \in 1..Len(s)
      BY <1>1, <1>2, <2>1
    <3> HIDE DEF both
    <3> QED BY <3>1
  <2>2. CASE k > Len(s)
    <3>1. both[k] = add[k - Len(s)] /\ k - Len(s) \in 1..Len(add)
      BY <1>1, <1>2, <2>2
    <3> HIDE DEF both
    <3> QED BY <3>1
  <2> QED BY <1>1, <1>2, <2>1, <2>2
<1> QED BY <1>1, <1>3

\* A longer history of the agent takes nothing from what was written of it.
LEMMA AlertsStay ==
  ASSUME StoryOK, AlertsOK, UNCHANGED alerts, Len(age') \in Nat, Len(age') >= Len(age)
  PROVE  AlertsOK'
<1>1. Len(age) \in Nat
  BY DEF StoryOK
<1> QED BY <1>1 DEF AlertsOK

LEMMA RaiseAlerts ==
  ASSUME StoryOK, AlertsOK, NEW n \in 1..Len(age), NEW kind, NEW failed,
         Raise(n, kind, failed), Len(age') = Len(age)
  PROVE  AlertsOK'
<1>1. Len(age) \in Nat
  BY DEF StoryOK
<1>2. CASE alerts' = alerts
  BY <1>1, <1>2, AlertsStay
<1>3. CASE alerts' = alerts \o Published(n, kind)
  <2> DEFINE add == Published(n, kind)
  <2>1. add \in Seq(Alert) /\ \A k \in 1..Len(add) : add[k][1] \in 1..Len(age)
    BY PublishedAlert
  <2>2. /\ alerts \in Seq(Alert)
        /\ \A k \in 1..Len(alerts) : alerts[k][1] \in 1..Len(age)
    BY DEF AlertsOK
  <2> HIDE DEF add
  <2>3. /\ alerts \o add \in Seq(Alert)
        /\ \A k \in 1..Len(alerts \o add) : (alerts \o add)[k][1] \in 1..Len(age)
    BY <1>1, <2>1, <2>2, MoreAlerts
  <2>4. alerts' = alerts \o add
    BY <1>3 DEF add
  <2> QED BY <2>3, <2>4 DEF AlertsOK
<1> QED BY <1>2, <1>3 DEF Raise

LEMMA TickSet ==
  ASSUME NEW pc \in {"idle", "sweep", "search"}, NEW b \in Nat, NEW d \in Nat,
         NEW todo \in SUBSET (1..Len(age)), Len(age) \in Nat, Len(age') = Len(age),
         tick' = [pc |-> pc, base |-> b, drop |-> d, todo |-> todo]
  PROVE  TickOK'
<1>1. todo \in SUBSET Nat
  OBVIOUS
<1> QED BY <1>1 DEF TickOK

LEMMA TickWith ==
  ASSUME TickOK
  PROVE  /\ tick = [pc |-> tick.pc, base |-> tick.base, drop |-> tick.drop,
                    todo |-> tick.todo]
         /\ tick.pc \in {"idle", "sweep", "search"}
         /\ tick.base \in Nat /\ tick.drop \in Nat
         /\ tick.todo \in SUBSET (1..Len(age))
BY DEF TickOK

LEMMA AdvanceTick ==
  ASSUME StoryOK, TickOK, NEW n, Advance(n), UNCHANGED age
  PROVE  TickOK'
<1>1. Len(age) \in Nat
  BY DEF StoryOK
<1>2. tick' = [pc |-> tick.pc, base |-> tick.base, drop |-> tick.drop,
               todo |-> tick.todo \ {n}]
  BY TickWith DEF Advance
<1>3. tick.todo \ {n} \in SUBSET (1..Len(age))
  BY TickWith
<1> QED BY <1>1, <1>2, <1>3, TickWith, TickSet

LEMMA EndedTick ==
  ASSUME StoryOK, EndTick, UNCHANGED story
  PROVE  /\ StoryOK' /\ TickOK' /\ Len(age') = Len(age) /\ Len(age) \in Nat
         /\ tick'.pc = "idle"
<1>1. age' \in Seq(0..Lookback) /\ Len(age') = Len(age) /\ Len(age) \in Nat
  BY EndTickAges DEF StoryOK
<1>2. StoryOK'
  BY <1>1 DEF StoryOK
<1>3. tick' = [pc |-> "idle", base |-> 0, drop |-> 0, todo |-> {}]
  BY DEF EndTick, Idle
<1> QED BY <1>1, <1>2, <1>3, TickSet

-----------------------------------------------------------------------------
(* Each step keeps it. *)
LEMMA HappenWatched ==
  ASSUME WatchInv, Happen
  PROVE  WatchInv'
<1>1. /\ age' \in Seq(0..Lookback) /\ Len(age') = Len(age) + 1
      /\ Len(age) + 1 \in 1..Len(story) /\ Len(age) \in Nat
  BY HappenAges DEF WatchInv, StoryOK
<1>2. UNCHANGED <<story, alerts, snapshot, tick, faults>>
  BY DEF Happen, raisedVars
<1>3. StoryOK'
  BY <1>1, <1>2 DEF WatchInv, StoryOK
<1>4. AlertsOK'
  BY <1>1, <1>2, AlertsStay DEF WatchInv
<1>5. TickOK'
  BY <1>1, <1>2 DEF WatchInv, TickOK
<1>6. holdings' \in Nat
  <2>1. Left(Tx(Len(age) + 1)) \in Nat
    BY <1>1, StoryTx DEF WatchInv
  <2> QED BY <2>1 DEF Happen, WatchInv
<1> QED BY <1>2, <1>3, <1>4, <1>5, <1>6 DEF WatchInv

LEMMA FaultCounts ==
  ASSUME NEW n \in Nat, faults \in Nat, Fault(n)
  PROVE  faults' \in Nat /\ faults' = faults + n
BY DEF Fault

LEMMA NoneOpensNothing == ~Opens("none")
BY DEF Opens, TriggerFor

LEMMA UpToThree == IsFiniteSet(1..3)
<1>1. 1 \in Int /\ 3 \in Int
  OBVIOUS
<1> QED BY <1>1, FS_Interval

LEMMA DeliverWatched ==
  ASSUME WatchInv, NEW n \in DOMAIN age, Deliver(n)
  PROVE  /\ WatchInv' /\ faults' >= faults
         /\ events \subseteq events' /\ \A e \in events' \ events : e[1] = n
         /\ events' = {} => alerts' = alerts
<1>1. Len(age) \in Nat /\ n \in 1..Len(age)
  BY DEF WatchInv, StoryOK
<1>2. PICK unread \in SUBSET {"mandate", "history", "balances"} :
       LET kinds   == Anomalies(Tx(n), "mandate" \notin unread,
                        {"mandate", "history"} \cap unread = {},
                        IF "balances" \in unread THEN 0 ELSE snapshot)
           found   == {k \in 1..3 : kinds[k] # "none"}
       IN \E rows \in found \cup {0} : \E sent \in {k \in found \cup {0} : k <= rows} :
            LET Sent(k) == IF k <= sent THEN Published(n, kinds[k]) ELSE <<>>
            IN /\ Fault(Cardinality(unread) + Cardinality({k \in found : k > sent})
                          + Cardinality(delivered \cap {n}))
               /\ events' = events \cup {<<n, kinds[k]>> : k \in found \cap 1..rows}
               /\ alerts' = alerts \o Sent(1) \o Sent(2) \o Sent(3)
  BY DEF Deliver
<1> DEFINE kinds == Anomalies(Tx(n), "mandate" \notin unread,
                        {"mandate", "history"} \cap unread = {},
                        IF "balances" \in unread THEN 0 ELSE snapshot)
           found == {k \in 1..3 : kinds[k] # "none"}
<1>3. PICK rows \in 0..3, sent \in 0..3 :
        LET Sent(k) == IF k <= sent THEN Published(n, kinds[k]) ELSE <<>>
        IN /\ Fault(Cardinality(unread) + Cardinality({k \in found : k > sent})
                      + Cardinality(delivered \cap {n}))
           /\ events' = events \cup {<<n, kinds[k]>> : k \in found \cap 1..rows}
           /\ alerts' = alerts \o Sent(1) \o Sent(2) \o Sent(3)
           /\ sent <= rows
  <2>1. \A p \in found \cup {0} : \A q \in {k \in found \cup {0} : k <= p} :
          p \in 0..3 /\ q \in 0..3 /\ q <= p
    <3> HIDE DEF kinds
    <3> QED OBVIOUS
  <2> QED BY <1>2, <2>1
<1> DEFINE Sent(k) == IF k <= sent THEN Published(n, kinds[k]) ELSE <<>>
<1>4. \A k \in 1..3 : /\ Sent(k) \in Seq(Alert)
                      /\ \A j \in 1..Len(Sent(k)) : Sent(k)[j][1] \in 1..Len(age)
  <2>1. <<>> \in Seq(Alert) /\ Len(<<>>) = 0
    OBVIOUS
  <2> HIDE DEF kinds
  <2> QED BY <1>1, <2>1, PublishedAlert DEF WatchInv
<1>5. AlertsOK'
  <2> DEFINE s1 == Sent(1)
             s2 == Sent(2)
             s3 == Sent(3)
  <2>1. alerts' = alerts \o s1 \o s2 \o s3
    BY <1>3
  <2>2. /\ s1 \in Seq(Alert) /\ \A j \in 1..Len(s1) : s1[j][1] \in 1..Len(age)
        /\ s2 \in Seq(Alert) /\ \A j \in 1..Len(s2) : s2[j][1] \in 1..Len(age)
        /\ s3 \in Seq(Alert) /\ \A j \in 1..Len(s3) : s3[j][1] \in 1..Len(age)
    <3> HIDE DEF Sent
    <3>1. 1 \in 1..3 /\ 2 \in 1..3 /\ 3 \in 1..3
      OBVIOUS
    <3> QED BY <1>4, <3>1
  <2> HIDE DEF s1, s2, s3, Sent, kinds, found
  <2> DEFINE a1 == alerts \o s1
             a2 == a1 \o s2
             a3 == a2 \o s3
  <2>3. a1 \in Seq(Alert) /\ \A j \in 1..Len(a1) : a1[j][1] \in 1..Len(age)
    BY <1>1, <2>2, MoreAlerts DEF WatchInv, AlertsOK
  <2> HIDE DEF a1
  <2>4. a2 \in Seq(Alert) /\ \A j \in 1..Len(a2) : a2[j][1] \in 1..Len(age)
    BY <1>1, <2>2, <2>3, MoreAlerts
  <2> HIDE DEF a2
  <2>5. a3 \in Seq(Alert) /\ \A j \in 1..Len(a3) : a3[j][1] \in 1..Len(age)
    BY <1>1, <2>2, <2>4, MoreAlerts
  <2>6. alerts' = a3
    BY <2>1 DEF a1, a2
  <2> HIDE DEF a3
  <2>7. UNCHANGED age
    BY DEF Deliver, chainVars
  <2> QED BY <2>5, <2>6, <2>7 DEF AlertsOK
<1>6. faults' \in Nat /\ faults' >= faults
  <2> DEFINE m == Cardinality(unread) + Cardinality({k \in found : k > sent})
                      + Cardinality(delivered \cap {n})
  <2>1. /\ IsFiniteSet({"mandate", "history", "balances"})
        /\ IsFiniteSet(1..3) /\ IsFiniteSet({n})
    <3>1. IsFiniteSet({"mandate"} \cup {"history"})
      BY FS_Singleton, FS_Union
    <3>2. IsFiniteSet(({"mandate"} \cup {"history"}) \cup {"balances"})
      BY <3>1, FS_Singleton, FS_Union
    <3>3. ({"mandate"} \cup {"history"}) \cup {"balances"}
             = {"mandate", "history", "balances"}
      OBVIOUS
    <3>4. IsFiniteSet({"mandate", "history", "balances"})
      BY <3>2, <3>3
    <3>5. IsFiniteSet(1..3)
      BY UpToThree
    <3> QED BY <3>4, <3>5, FS_Singleton
  <2>2. IsFiniteSet(unread) /\ IsFiniteSet(delivered \cap {n})
    BY <2>1, FS_Subset
  <2>3. IsFiniteSet({k \in found : k > sent})
    BY <2>1, FS_Subset
  <2>4. m \in Nat
    <3> HIDE DEF found
    <3>1. /\ Cardinality(unread) \in Nat
          /\ Cardinality({k \in found : k > sent}) \in Nat
          /\ Cardinality(delivered \cap {n}) \in Nat
      BY <2>2, <2>3, FS_CardinalityType
    <3> QED BY <3>1
  <2>5. Fault(m)
    BY <1>3
  <2> HIDE DEF m
  <2> QED BY <2>4, <2>5, FaultCounts DEF WatchInv
<1>7. UNCHANGED <<story, age, snapshot, tick, holdings>>
  BY DEF Deliver, chainVars
<1>8. StoryOK' /\ TickOK'
  BY <1>7 DEF WatchInv, StoryOK, TickOK
<1>9. events \subseteq events' /\ \A e \in events' \ events : e[1] = n
  <2> HIDE DEF kinds
  <2> QED BY <1>3
<1>10. ASSUME events' = {} PROVE alerts' = alerts
  <2> HIDE DEF kinds
  <2>1. ASSUME NEW k \in 1..3 PROVE Sent(k) = <<>>
    <3>1. CASE k <= sent
      <4>1. k \in 1..rows
        BY <1>3, <3>1
      <4>2. k \notin found
        BY <1>3, <1>10, <4>1
      <4>3. kinds[k] = "none"
        BY <4>2
      <4> QED BY <4>3, NoneOpensNothing DEF Published
    <3>2. CASE ~(k <= sent)
      BY <3>2
    <3> QED BY <3>1, <3>2
  <2>2. Sent(1) = <<>> /\ Sent(2) = <<>> /\ Sent(3) = <<>>
    <3> HIDE DEF Sent
    <3>1. 1 \in 1..3 /\ 2 \in 1..3 /\ 3 \in 1..3
      OBVIOUS
    <3> QED BY <2>1, <3>1
  <2>3. alerts' = alerts \o <<>> \o <<>> \o <<>>
    BY <1>3, <2>2
  <2> QED BY <2>3 DEF WatchInv, AlertsOK
<1> QED BY <1>5, <1>6, <1>7, <1>8, <1>9, <1>10 DEF WatchInv

LEMMA StartTickWatched ==
  ASSUME WatchInv, StartTick
  PROVE  WatchInv'
<1>1. PICK base \in {0, snapshot}, listed \in BOOLEAN :
       /\ Fault((IF base = snapshot THEN 0 ELSE 1) + (IF listed THEN 0 ELSE 1))
       /\ tick' = [pc |-> "sweep", base |-> base, drop |-> 0,
            todo |-> IF listed THEN {n \in DOMAIN age : story[n].named /\ Fresh(n)}
                     ELSE {}]
  BY DEF StartTick
<1> DEFINE todo == IF listed THEN {n \in DOMAIN age : story[n].named /\ Fresh(n)}
                   ELSE {}
<1>2. Len(age) \in Nat /\ DOMAIN age = 1..Len(age)
  BY DEF WatchInv, StoryOK
<1>3. todo \in SUBSET (1..Len(age))
  BY <1>2
<1>4. UNCHANGED <<story, age, alerts, snapshot, holdings>>
  BY DEF StartTick, chainVars, raisedVars
<1>5. TickOK'
  <2>1. tick' = [pc |-> "sweep", base |-> base, drop |-> 0, todo |-> todo]
    BY <1>1
  <2>2. base \in Nat
    BY DEF WatchInv
  <2> HIDE DEF todo
  <2> QED BY <1>2, <1>3, <1>4, <2>1, <2>2, TickSet
<1>6. StoryOK' /\ AlertsOK'
  BY <1>4 DEF WatchInv, StoryOK, AlertsOK
<1>7. faults' \in Nat
  <2> DEFINE m == (IF base = snapshot THEN 0 ELSE 1) + (IF listed THEN 0 ELSE 1)
  <2>1. m \in Nat /\ Fault(m)
    BY <1>1
  <2> HIDE DEF m
  <2> QED BY <2>1, FaultCounts DEF WatchInv
<1> QED BY <1>4, <1>5, <1>6, <1>7 DEF WatchInv

LEMMA RaiseFaults ==
  ASSUME NEW n, NEW kind, NEW failed \in Nat, faults \in Nat, Raise(n, kind, failed)
  PROVE  faults' \in Nat /\ faults' >= faults + failed
BY DEF Raise, Fault

LEMMA ExamineWatched ==
  ASSUME WatchInv, Examine
  PROVE  WatchInv'
<1>1. UNCHANGED <<story, age, snapshot, holdings>>
  BY DEF Examine, chainVars
<1>2. Len(age) \in Nat /\ Len(age') = Len(age)
  BY <1>1 DEF WatchInv, StoryOK
<1>3. StoryOK'
  BY <1>1 DEF WatchInv, StoryOK
<1>4. PICK n \in DOMAIN age :
       /\ Advance(n)
       /\ \/ UNCHANGED <<alerts, faults>>
          \/ Fault(1) /\ UNCHANGED alerts
          \/ \E mandate_read \in BOOLEAN :
                  LET kind   == SweepKind(Tx(n), mandate_read)
                      failed == IF mandate_read THEN 0 ELSE 1
                  IN IF kind = "none" THEN Fault(failed) /\ UNCHANGED alerts
                     ELSE Raise(n, kind, failed)
  BY DEF Examine, raisedVars
<1>5. TickOK'
  BY <1>1, <1>4, AdvanceTick DEF WatchInv
<1>6. n \in 1..Len(age)
  BY DEF WatchInv, StoryOK
<1>7. AlertsOK' /\ faults' \in Nat
  <2>1. CASE UNCHANGED <<alerts, faults>>
    BY <1>2, <2>1, AlertsStay DEF WatchInv
  <2>2. CASE Fault(1) /\ UNCHANGED alerts
    BY <1>2, <2>2, AlertsStay, FaultCounts DEF WatchInv
  <2>3. ASSUME NEW kind, NEW failed \in {0, 1},
               IF kind = "none" THEN Fault(failed) /\ UNCHANGED alerts
               ELSE Raise(n, kind, failed)
        PROVE  AlertsOK' /\ faults' \in Nat
    <3>1. CASE kind = "none"
      BY <1>2, <2>3, <3>1, AlertsStay, FaultCounts DEF WatchInv
    <3>2. CASE kind # "none"
      BY <1>2, <1>6, <2>3, <3>2, RaiseAlerts, RaiseFaults DEF WatchInv
    <3> QED BY <3>1, <3>2
  <2> QED BY <1>4, <2>1, <2>2, <2>3
<1> QED BY <1>1, <1>3, <1>5, <1>7 DEF WatchInv

LEMMA MeasureWatched ==
  ASSUME WatchInv, Measure
  PROVE  WatchInv'
<1> DEFINE drop == IF holdings < tick.base THEN tick.base - holdings ELSE 0
           todo == {n \in DOMAIN age : Searchable(n)}
<1>1. UNCHANGED <<story, holdings, alerts>>
  BY DEF Measure, raisedVars
<1>2. Len(age) \in Nat /\ DOMAIN age = 1..Len(age)
  BY DEF WatchInv, StoryOK
<1>3. snapshot' \in Nat /\ faults' \in Nat
  BY FaultCounts DEF Measure, WatchInv
<1>4. CASE EndTick
  <2>1. StoryOK' /\ TickOK' /\ Len(age') = Len(age)
    BY <1>1, <1>4, EndedTick DEF WatchInv
  <2>2. AlertsOK'
    BY <1>1, <1>2, <2>1, AlertsStay DEF WatchInv
  <2> QED BY <1>1, <1>3, <2>1, <2>2 DEF WatchInv
<1>5. CASE /\ tick' = [tick EXCEPT !.pc = "search", !.drop = drop, !.todo = todo]
           /\ UNCHANGED age
  <2>1. drop \in Nat
    BY TickWith DEF WatchInv
  <2>2. todo \in SUBSET (1..Len(age))
    BY <1>2
  <2> HIDE DEF drop, todo
  <2>3. tick' = [pc |-> "search", base |-> tick.base, drop |-> drop, todo |-> todo]
    BY <1>5, TickWith DEF WatchInv
  <2>4. TickOK'
    BY <1>2, <1>5, <2>1, <2>2, <2>3, TickWith, TickSet DEF WatchInv
  <2>5. StoryOK' /\ AlertsOK'
    BY <1>1, <1>5 DEF WatchInv, StoryOK, AlertsOK
  <2> QED BY <1>1, <1>3, <2>4, <2>5 DEF WatchInv
<1> QED BY <1>4, <1>5 DEF Measure

LEMMA SearchWatched ==
  ASSUME WatchInv, Search
  PROVE  WatchInv'
<1>1. UNCHANGED <<story, snapshot, holdings>>
  BY DEF Search
<1>2. Len(age) \in Nat /\ DOMAIN age = 1..Len(age)
  BY DEF WatchInv, StoryOK
<1>3. PICK n \in DOMAIN age :
       \/ Raise(n, "exploit", 0) /\ EndTick
       \/ UNCHANGED <<alerts, age>> /\ Advance(n) /\ (UNCHANGED faults \/ Fault(1))
  BY DEF Search, raisedVars
<1>4. faults' \in Nat
  BY <1>3, FaultCounts, RaiseFaults DEF WatchInv
<1>5. CASE Raise(n, "exploit", 0) /\ EndTick
  <2>1. StoryOK' /\ TickOK' /\ Len(age') = Len(age)
    BY <1>1, <1>5, EndedTick DEF WatchInv
  <2>2. AlertsOK'
    BY <1>2, <1>5, <2>1, RaiseAlerts DEF WatchInv
  <2> QED BY <1>1, <1>4, <2>1, <2>2 DEF WatchInv
<1>6. CASE UNCHANGED <<alerts, age>> /\ Advance(n)
  <2>1. TickOK'
    BY <1>6, AdvanceTick DEF WatchInv
  <2>2. StoryOK' /\ AlertsOK'
    BY <1>1, <1>6 DEF WatchInv, StoryOK, AlertsOK
  <2> QED BY <1>1, <1>4, <2>1, <2>2 DEF WatchInv
<1> QED BY <1>3, <1>5, <1>6

LEMMA EndTickWatched ==
  ASSUME WatchInv, Escalate \/ Abort \/ PublishThrows
  PROVE  WatchInv'
<1>1. EndTick /\ UNCHANGED <<story, alerts, snapshot, holdings>>
  BY DEF Escalate, Abort, PublishThrows, raisedVars
<1>2. faults' \in Nat
  <2>1. UNCHANGED faults \/ Fault(1) \/ Fault(2)
    BY DEF Escalate, Abort, PublishThrows
  <2> QED BY <2>1, FaultCounts DEF WatchInv
<1>3. StoryOK' /\ TickOK' /\ Len(age') = Len(age) /\ Len(age) \in Nat
  BY <1>1, EndedTick DEF WatchInv
<1>4. AlertsOK'
  BY <1>1, <1>3, AlertsStay DEF WatchInv
<1> QED BY <1>1, <1>2, <1>3, <1>4 DEF WatchInv

\* The keeper takes the oldest alert and leaves the rest as they are.
LEMMA IngestWatched ==
  ASSUME WatchInv, Ingest
  PROVE  /\ WatchInv'
         /\ Head(alerts)[1] \in 1..Len(age) /\ Head(alerts)[1] \in 1..Len(story)
         /\ Head(alerts)[2] \in Kinds
<1>1. UNCHANGED <<story, age, snapshot, tick, holdings, faults>>
  BY DEF Ingest, chainVars
<1>2. alerts \in Seq(Alert) /\ alerts # <<>> /\ alerts' = Tail(alerts)
  BY DEF Ingest, WatchInv, AlertsOK
<1>3. /\ Head(alerts) = alerts[1] /\ Len(alerts) \in Nat /\ Len(alerts) >= 1
      /\ alerts' \in Seq(Alert) /\ Len(alerts') = Len(alerts) - 1
      /\ \A k \in 1..Len(alerts') : alerts'[k] = alerts[k + 1]
  BY <1>2
<1>4. 1 \in 1..Len(alerts)
  BY <1>3
<1>5. Head(alerts)[1] \in 1..Len(age) /\ Head(alerts) \in Alert
  BY <1>2, <1>3, <1>4, InSeq DEF WatchInv, AlertsOK
<1>6. Head(alerts)[2] \in Kinds
  BY <1>5 DEF Alert
<1>7. Head(alerts)[1] \in 1..Len(story)
  <2>1. Len(age) \in Nat /\ Len(age) <= Len(story) /\ Len(story) \in Int
    BY <1>5, DetectionAssumption DEF WatchInv, StoryOK
  <2> QED BY <1>5, <2>1
<1>8. AlertsOK'
  <2>1. \A k \in 1..Len(alerts') : k + 1 \in 1..Len(alerts)
    BY <1>3
  <2> QED BY <1>1, <1>3, <2>1 DEF WatchInv, AlertsOK
<1>9. StoryOK' /\ TickOK'
  BY <1>1 DEF WatchInv, StoryOK, TickOK
<1> QED BY <1>1, <1>5, <1>6, <1>7, <1>8, <1>9 DEF WatchInv

LEMMA ReviewWatched ==
  ASSUME WatchInv, Review, holdings' \in Nat
  PROVE  WatchInv'
<1>1. UNCHANGED <<story, age, alerts, snapshot, tick, faults>>
  BY DEF Review, raisedVars
<1> QED BY <1>1 DEF WatchInv, StoryOK, AlertsOK, TickOK

-----------------------------------------------------------------------------
(* What the screens see of what the verifiers would confirm. *)

LEMMA StolenShows ==
  ASSUME NEW t \in Incident, Stolen(t)
  PROVE  ~t.failed /\ (GovernanceShape(t) \/ ExploitShape(t))
<1>1. View(t, Complete) = t.ixs
  BY WholeView, CompleteReading
<1>2. CASE VerifyExploit(t, Complete).outcome = "confirmed"
  <2>1. ~t.failed /\ HasAuthorizationEvidence(t, Complete)
    BY <1>2, CompleteReading
    DEF VerifyExploit, AdjudicateExploit, JudgeAuthorization, Verdict, Rejected,
        Indeterminate
  <2>2. \/ HasUnauthorizedMovement(t, t.ixs)
        \/ ForeignControlChanges(t.ixs) # {}
        \/ PriorDelegatePulls(t.ixs) # {}
    BY <1>1, <2>1
    DEF HasAuthorizationEvidence, ExploitPresent, ExploitUnevaluated,
        FirstSeenUnread, FanoutUnread, UpgradeUnread, AuthorizationClass,
        ExploitWeights
  <2> QED
    BY <2>1, <2>2
    DEF ExploitShape, HasUnauthorizedMovement, ForeignControlChanges,
        PriorDelegatePulls
<1>3. ASSUME NEW h, NEW f,
             VerifyGovernanceAttack(t, Complete, h, f, 0).outcome = "confirmed"
      PROVE  ~t.failed /\ GovernanceShape(t)
  <2>1. ~t.failed /\ OutsideDeclaredSet(t, t.ixs) # {}
    BY <1>1, <1>3
    DEF VerifyGovernanceAttack, AdjudicateGovernance, JudgeExposure, Verdict,
        Rejected, Indeterminate
  <2>2. \A k : Family \subseteq PermittedFor(k, t.charter)
    BY DEF PermittedFor
  <2>3. \/ ~(OwnershipChanges(t) \subseteq Family)
        \/ \E k \in Takeovers(t.ixs) : NewAuthority(k) \notin Family
    BY <2>1, <2>2 DEF OutsideDeclaredSet
  <2> QED BY <2>1, <2>3 DEF GovernanceShape
<1> QED BY <1>2, <1>3 DEF Stolen

LEMMA StrayedShows ==
  ASSUME NEW t \in Incident, Strayed(t)
  PROVE  ~t.failed /\ EnvelopeExceeded(t)
<1>1. ~t.failed /\ t.mandate.declared /\ t.mandate.matured
  BY CompleteReading DEF Strayed, VerifyAgentError, AdjudicateAgentError,
     JudgeBreach, Verdict, Rejected, Indeterminate
<1>2. \E d \in ChainCheckable : Excess(d, t) > 0
  BY DEF Strayed, BreachProvable, Breached, ChainCheckable
<1> QED BY <1>1, <1>2 DEF EnvelopeExceeded

\* The sweep raises it, and under a kind that opens a claim.
LEMMA SweepRaises ==
  ASSUME NEW t \in Incident, NEW mandate_read \in BOOLEAN
  PROVE  /\ Stolen(t) => Opens(SweepKind(t, mandate_read))
         /\ Strayed(t) /\ mandate_read => Opens(SweepKind(t, mandate_read))
<1>1. /\ Opens("governance_attack") /\ Opens("exploit") /\ Opens("agent_error")
  BY DEF Opens, TriggerFor
<1> QED BY <1>1, StolenShows, StrayedShows DEF SweepKind

-----------------------------------------------------------------------------
(* The books of the watchers.                                              *)

\* A row names a transaction that happened, or none.
EventsOK == \A e \in events : e[1] \in 0..Len(age)

\* What a full reading would confirm, in the wallet's own history.
Raisable(n) == story[n].named /\ (Stolen(Tx(n)) \/ Strayed(Tx(n)))

\* A tick that lists such a transaction writes its row or loses a call: what is
\* not on record yet is no older than the calls that failed, but for the tick
\* that has it before it, and for the one it fell into.
OneTickPerFault ==
  \A n \in 1..Len(age) :
    Raisable(n) /\ ~AlreadySeen(n) =>
      \/ faults >= Lookback - 1
      \/ age[n] <= faults
      \/ /\ age[n] <= faults + 1
         /\ tick.pc = "idle" \/ (tick.pc = "sweep" /\ n \in tick.todo)

\* A row the webhook did not write is of the sweep's kind.
SweptRowsOpen ==
  \A n \in 1..Len(age) :
    /\ AlreadySeen(n) /\ n \notin delivered
    /\ Raisable(n) /\ (Stolen(Tx(n)) \/ faults = 0)
    => Noticed(n)

HalfLoss(n) == ~Tx(n).failed /\ Tx(n).lost > 0 /\ 2 * Tx(n).lost >= Tx(n).held

\* Nothing is raised before something is written down.
NothingRaised ==
  events = {} =>
    alerts = <<>> /\ (story # <<>> => claim.status = "unfiled")

\* While nothing is written down and no call has failed, the agent holds what
\* its last transaction left, the last snapshot is no lower, and a loss of half
\* a balance is in front of the tick that will measure it, or has been measured
\* by the one under way.
InSight(n) ==
  \/ tick.pc = "idle" /\ age[n] <= 1 /\ snapshot >= Tx(n).held
  \/ tick.pc = "sweep" /\ age[n] <= 1 /\ tick.base >= Tx(n).held
  \/ tick.pc = "search" /\ age[n] <= 1 /\ 2 * tick.drop >= tick.base
  \/ tick.pc = "search" /\ age[n] = 0 /\ snapshot >= Tx(n).held

Quiet == faults = 0 /\ events = {} /\ story # <<>>

Measured ==
  Quiet =>
    /\ holdings = Left(Tx(Len(age)))
    /\ snapshot >= holdings
    /\ tick.pc = "sweep" => tick.base >= holdings
    /\ \A n \in 1..Len(age) :
         holdings <= Left(Tx(n)) /\ (HalfLoss(n) => InSight(n))

WatchBooks ==
  /\ EventsOK /\ OneTickPerFault /\ SweptRowsOpen
  /\ NothingRaised /\ Measured

LEMMA SameStory ==
  ASSUME UNCHANGED story, NEW n
  PROVE  /\ Raisable(n)' <=> Raisable(n)
         /\ Stolen(Tx(n))' <=> Stolen(Tx(n))
         /\ HalfLoss(n)' <=> HalfLoss(n)
         /\ Tx(n)' = Tx(n) /\ Left(Tx(n))' = Left(Tx(n))
BY DEF Raisable, HalfLoss, Tx, Left, Stolen

\* A step that leaves the ages, the rows and the tick alone.
LEMMA TickAlone ==
  ASSUME WatchInv, EventsOK, OneTickPerFault, SweptRowsOpen,
         UNCHANGED <<story, age, events, delivered, tick>>,
         faults' \in Nat, faults' >= faults
  PROVE  EventsOK' /\ OneTickPerFault' /\ SweptRowsOpen'
<1>1. EventsOK'
  BY DEF EventsOK
<1>2. \A n : AlreadySeen(n)' <=> AlreadySeen(n)
  BY DEF AlreadySeen
<1>3. \A n : Noticed(n)' <=> Noticed(n)
  BY DEF Noticed
<1>4. faults \in Nat /\ Lookback \in Nat /\ \A n \in 1..Len(age) : age[n] \in Nat
  BY DetectionAssumption DEF WatchInv, StoryOK
<1>5. OneTickPerFault'
  BY <1>2, <1>4, SameStory DEF OneTickPerFault
<1>6. SweptRowsOpen'
  BY <1>2, <1>3, <1>4, SameStory DEF SweptRowsOpen
<1> QED BY <1>1, <1>5, <1>6

LEMMA ReviewBooked ==
  ASSUME WatchInv, WatchBooks, Review
  PROVE  WatchBooks'
<1>1. UNCHANGED <<story, age, events, alerts, delivered, tick, snapshot, faults>>
  BY DEF Review, raisedVars
<1>2. EventsOK' /\ OneTickPerFault' /\ SweptRowsOpen'
  BY <1>1, TickAlone DEF WatchInv, WatchBooks
<1>3. events = {} => story = <<>>
  <2>1. claim.status \in Open \/ claim.status = "approved"
    BY DEF Review, Verify, Settle, Elapse
  <2> QED BY <2>1 DEF WatchBooks, NothingRaised, Open
<1>4. NothingRaised'
  BY <1>1, <1>3 DEF WatchBooks, NothingRaised
<1>5. Measured'
  BY <1>1, <1>3 DEF Measured, Quiet
<1> QED BY <1>2, <1>4, <1>5 DEF WatchBooks

LEMMA IngestBooked ==
  ASSUME WatchInv, WatchBooks, Ingest
  PROVE  WatchBooks'
<1>1. UNCHANGED <<story, age, events, delivered, tick, snapshot, faults>>
  BY DEF Ingest, chainVars
<1>2. EventsOK' /\ OneTickPerFault' /\ SweptRowsOpen'
  BY <1>1, TickAlone DEF WatchInv, WatchBooks
<1>3. events # {}
  BY DEF Ingest, WatchBooks, NothingRaised
<1> QED BY <1>1, <1>2, <1>3 DEF WatchBooks, NothingRaised, Measured, Quiet

LEMMA HappenBooked ==
  ASSUME WatchInv, WatchBooks, Happen
  PROVE  WatchBooks'
<1> DEFINE last == Len(age)
<1>1. UNCHANGED <<story, events, alerts, claim, delivered, tick, snapshot, faults>>
  BY DEF Happen, raisedVars, rowVars
<1>2. /\ last \in Nat /\ last >= 1 /\ Len(age') = last + 1
      /\ last + 1 \in 1..Len(story) /\ last \in 1..Len(story)
      /\ \A n \in 1..last : age'[n] = age[n] /\ age[n] \in 0..Lookback
      /\ age'[last + 1] = 0
      /\ Len(story) \in Int
  <2>1. last \in Nat /\ \A n \in 1..last : age[n] \in 0..Lookback
    BY InSeq DEF WatchInv, StoryOK
  <2>2. Len(story) \in Int
    BY DetectionAssumption DEF WatchInv, StoryOK
  <2> QED BY <2>1, <2>2, HappenAges DEF WatchInv
<1>3. faults \in Nat /\ Lookback \in Nat /\ snapshot \in Nat /\ holdings \in Nat
  BY DetectionAssumption DEF WatchInv
<1>4. EventsOK'
  BY <1>1, <1>2 DEF WatchBooks, EventsOK
<1>5. ~AlreadySeen(last + 1) /\ \A n : AlreadySeen(n)' <=> AlreadySeen(n)
  BY <1>1, <1>2 DEF WatchBooks, EventsOK, AlreadySeen
<1>6. \A n : Noticed(n)' <=> Noticed(n)
  BY <1>1 DEF Noticed
<1>7. \A n \in 1..Len(age') : n \in 1..last \/ n = last + 1
  BY <1>2
<1> HIDE DEF last
<1>8. OneTickPerFault'
  <2>1. ASSUME NEW n \in 1..Len(age'), Raisable(n)', ~AlreadySeen(n)'
        PROVE  \/ faults' >= Lookback - 1
               \/ age'[n] <= faults'
               \/ /\ age'[n] <= faults' + 1
                  /\ tick'.pc = "idle" \/ (tick'.pc = "sweep" /\ n \in tick'.todo)
    <3>1. CASE n = last + 1
      BY <1>1, <1>2, <1>3, <3>1
    <3>2. CASE n \in 1..last
      BY <1>1, <1>2, <1>3, <1>5, <2>1, <3>2, SameStory
      DEF WatchBooks, OneTickPerFault, last
    <3> QED BY <1>7, <3>1, <3>2
  <2> QED BY <2>1 DEF OneTickPerFault
<1>9. SweptRowsOpen'
  <2>1. ASSUME NEW n \in 1..Len(age'), AlreadySeen(n)', n \notin delivered',
               Raisable(n)', Stolen(Tx(n))' \/ faults' = 0
        PROVE  Noticed(n)'
    <3>1. n \in 1..last
      BY <1>5, <1>7, <2>1
    <3> QED BY <1>1, <1>5, <1>6, <2>1, <3>1, SameStory
            DEF WatchBooks, SweptRowsOpen, last
  <2> QED BY <2>1 DEF SweptRowsOpen
<1>10. NothingRaised'
  BY <1>1 DEF WatchBooks, NothingRaised
<1>11. Measured'
  <2> SUFFICES ASSUME Quiet' PROVE Measured'
    BY DEF Measured
  <2>1. Quiet
    BY <1>1 DEF Quiet
  <2>2. /\ holdings = Left(Tx(last)) /\ snapshot >= holdings
        /\ tick.pc = "sweep" => tick.base >= holdings
        /\ \A n \in 1..last : holdings <= Left(Tx(n)) /\ (HalfLoss(n) => InSight(n))
    BY <2>1 DEF WatchBooks, Measured, last
  <2> DEFINE t == Tx(last + 1)
  <2>3. /\ t.held = holdings /\ Left(t) \in Nat /\ Left(t) <= holdings
    <3>1. last + 1 > 1 /\ (last + 1) - 1 = last
      BY <1>2
    <3>2. /\ Left(t) \in Nat /\ Left(t) <= t.held
          /\ t.held = Left(Tx((last + 1) - 1))
      BY <1>2, <3>1, StoryTx DEF WatchInv
    <3> QED BY <2>2, <3>1, <3>2
  <2>4. holdings' = Left(t)
    <3>1. t \in Incident
      BY <1>2, StoryTx DEF WatchInv
    <3>2. t.failed => Left(t) = t.held
      BY <3>1, IncidentAmounts DEF Left
    <3> QED BY <2>3, <3>2 DEF Happen, last
  <2>5. Left(Tx(Len(age)))' = Left(t)
    BY <1>1, <1>2 DEF Left, Tx
  <2>6. /\ snapshot' >= holdings'
        /\ tick'.pc = "sweep" => tick'.base >= holdings'
    <3>1. tick.base \in Nat
      BY TickWith DEF WatchInv
    <3> QED BY <1>1, <1>3, <2>2, <2>3, <2>4, <3>1
  <2>7. ASSUME NEW n \in 1..Len(age')
        PROVE  holdings' <= Left(Tx(n))' /\ (HalfLoss(n)' => InSight(n)')
    <3>1. Tx(n)' = Tx(n) /\ Left(Tx(n))' = Left(Tx(n)) /\ (HalfLoss(n)' <=> HalfLoss(n))
      BY <1>1, SameStory
    <3>2. CASE n = last + 1
      <4>1. tick.pc \in {"idle", "sweep", "search"}
        BY TickWith DEF WatchInv
      <4>2. InSight(n)'
        BY <1>1, <1>2, <2>2, <2>3, <3>1, <3>2, <4>1 DEF InSight
      <4> QED BY <2>3, <2>4, <3>1, <3>2, <4>2
    <3>3. CASE n \in 1..last
      <4>1. holdings <= Left(Tx(n)) /\ (HalfLoss(n) => InSight(n))
        BY <2>2, <3>3
      <4>2. Left(Tx(n)) \in Nat
        <5>1. n \in 1..Len(story)
          BY <1>2, <3>3
        <5> QED BY <5>1, StoryTx DEF WatchInv
      <4>3. InSight(n) => InSight(n)'
        BY <1>1, <1>2, <3>1, <3>3 DEF InSight
      <4> QED BY <1>3, <2>3, <2>4, <3>1, <4>1, <4>2, <4>3
    <3> QED BY <1>7, <3>2, <3>3
  <2> HIDE DEF t
  <2>8. holdings' = Left(Tx(Len(age)))'
    BY <2>4, <2>5
  <2>9. \A n \in 1..Len(age)' :
          holdings' <= Left(Tx(n))' /\ (HalfLoss(n)' => InSight(n)')
    BY <2>7
  <2> QED BY <2>6, <2>8, <2>9 DEF Measured
<1> QED BY <1>4, <1>8, <1>9, <1>10, <1>11 DEF WatchBooks

LEMMA NotNoticedYet ==
  ASSUME NEW n, Noticed(n) PROVE AlreadySeen(n)
BY DEF Noticed, AlreadySeen

\* The step ends the tick: what was not listed or not reached ages by one.
LEMMA TickEnded ==
  ASSUME WatchInv, OneTickPerFault, UNCHANGED story, EndTick,
         events \subseteq events', faults' \in Nat, faults' >= faults,
         tick.pc # "idle",
         \/ faults' >= faults + 1
         \/ tick.pc = "sweep" => tick.todo = {}
  PROVE  OneTickPerFault'
<1>1. /\ Len(age') = Len(age)
      /\ \A n \in 1..Len(age) : /\ age[n] \in 0..Lookback
                                /\ age'[n] = AtMost(Lookback, age[n] + 1)
  BY EndTickAges, InSeq DEF WatchInv, StoryOK
<1>2. tick'.pc = "idle"
  BY DEF EndTick, Idle
<1>3. faults \in Nat /\ Lookback \in Nat
  BY DetectionAssumption DEF WatchInv
<1>4. ASSUME NEW n \in 1..Len(age), Raisable(n)', ~AlreadySeen(n)'
      PROVE  faults' >= Lookback - 1 \/ age'[n] <= faults' + 1
  <2>1. Raisable(n) /\ ~AlreadySeen(n)
    BY <1>4, SameStory DEF AlreadySeen
  <2>2. /\ age[n] \in Nat /\ age'[n] \in Nat /\ age'[n] <= age[n] + 1
    BY <1>1, <1>3 DEF AtMost
  <2>3. \/ faults >= Lookback - 1
        \/ age[n] <= faults
        \/ /\ age[n] <= faults + 1
           /\ tick.pc = "sweep" /\ n \in tick.todo
    BY <2>1 DEF OneTickPerFault
  <2> QED BY <1>3, <2>2, <2>3
<1> QED BY <1>1, <1>2, <1>4 DEF OneTickPerFault

\* No row is added.
LEMMA RowsAlone ==
  ASSUME WatchInv, EventsOK, SweptRowsOpen,
         UNCHANGED <<story, events, delivered>>, Len(age') = Len(age),
         faults' \in Nat, faults' >= faults
  PROVE  EventsOK' /\ SweptRowsOpen'
<1>1. EventsOK'
  BY DEF EventsOK
<1>2. \A n : AlreadySeen(n)' <=> AlreadySeen(n)
  BY DEF AlreadySeen
<1>3. \A n : Noticed(n)' <=> Noticed(n)
  BY DEF Noticed
<1>4. faults \in Nat
  BY DEF WatchInv
<1>5. SweptRowsOpen'
  BY <1>2, <1>3, <1>4, SameStory DEF SweptRowsOpen
<1> QED BY <1>1, <1>5

\* A row of the sweep is added.
LEMMA RowAdded ==
  ASSUME WatchInv, EventsOK, SweptRowsOpen,
         UNCHANGED <<story, delivered>>, Len(age') = Len(age),
         faults' \in Nat, faults' >= faults,
         NEW n \in 0..Len(age), NEW kind, events' = events \cup {<<n, kind>>},
         n > 0 /\ Raisable(n) /\ (Stolen(Tx(n)) \/ faults' = 0) => Opens(kind)
  PROVE  EventsOK' /\ SweptRowsOpen'
<1>1. EventsOK'
  BY DEF EventsOK
<1>2. \A m : AlreadySeen(m)' => AlreadySeen(m) \/ m = n
  BY DEF AlreadySeen
<1>3. \A m : Noticed(m) => Noticed(m)'
  BY DEF Noticed
<1>4. faults \in Nat /\ Len(age) \in Nat
  BY DEF WatchInv, StoryOK
<1>5. ASSUME NEW m \in 1..Len(age), AlreadySeen(m)', m \notin delivered,
             Raisable(m), Stolen(Tx(m)) \/ faults' = 0
      PROVE  Noticed(m)'
  <2>1. CASE AlreadySeen(m)
    BY <1>3, <1>4, <1>5, <2>1 DEF SweptRowsOpen
  <2>2. CASE m = n
    <3>1. Opens(kind)
      BY <1>4, <1>5, <2>2
    <3>2. <<n, kind>> \in events' /\ <<n, kind>>[1] = n /\ <<n, kind>>[2] = kind
      OBVIOUS
    <3> QED BY <2>2, <3>1, <3>2 DEF Noticed, Opens
  <2> QED BY <1>2, <1>5, <2>1, <2>2
<1>6. SweptRowsOpen'
  BY <1>5, SameStory DEF SweptRowsOpen
<1> QED BY <1>1, <1>6

\* Once a row is there or a call has failed, the quiet is over.
LEMMA QuietOver ==
  ASSUME events' # {} \/ (faults' # 0 /\ NothingRaised')
  PROVE  NothingRaised' /\ Measured'
BY DEF NothingRaised, Measured, Quiet

\* Rows, alerts and the claim are left alone.
LEMMA NothingMoreRaised ==
  ASSUME NothingRaised, UNCHANGED <<events, alerts, claim, story>>
  PROVE  NothingRaised'
BY DEF NothingRaised

LEMMA QuietBefore ==
  ASSUME Quiet', faults \in Nat, faults' \in Nat, faults' >= faults,
         events \subseteq events', UNCHANGED story
  PROVE  Quiet /\ faults' = faults /\ events' = events
BY DEF Quiet

\* Ages and amounts, for the arithmetic.
LEMMA BooksTyped ==
  ASSUME WatchInv
  PROVE  /\ Len(age) \in Nat /\ DOMAIN age = 1..Len(age)
         /\ \A n \in 1..Len(age) :
              /\ age[n] \in Nat /\ age[n] <= Lookback
              /\ Tx(n) \in Incident /\ story[n].named \in BOOLEAN
              /\ Tx(n).held \in Nat /\ Tx(n).lost \in Nat
              /\ Left(Tx(n)) \in Nat
              /\ HalfLoss(n) => Left(Tx(n)) = Tx(n).held - Tx(n).lost
         /\ Lookback \in Nat /\ Lookback >= 2
         /\ faults \in Nat /\ snapshot \in Nat /\ holdings \in Nat
         /\ tick.pc \in {"idle", "sweep", "search"}
         /\ tick.base \in Nat /\ tick.drop \in Nat
<1>1. /\ Len(age) \in Nat /\ DOMAIN age = 1..Len(age)
      /\ \A n \in 1..Len(age) : age[n] \in 0..Lookback
      /\ faults \in Nat /\ snapshot \in Nat /\ holdings \in Nat
  BY InSeq DEF WatchInv, StoryOK
<1>2. Lookback \in Nat /\ Lookback >= 2
  BY DetectionAssumption
<1>3. ASSUME NEW n \in 1..Len(age)
      PROVE  /\ Tx(n) \in Incident /\ story[n].named \in BOOLEAN
             /\ Tx(n).held \in Nat /\ Tx(n).lost \in Nat
             /\ Left(Tx(n)) \in Nat
             /\ HalfLoss(n) => Left(Tx(n)) = Tx(n).held - Tx(n).lost
  <2>1. n \in 1..Len(story)
    BY <1>1, <1>3, DetectionAssumption DEF WatchInv, StoryOK
  <2>2. Tx(n) \in Incident /\ story[n].named \in BOOLEAN /\ Left(Tx(n)) \in Nat
    BY <2>1, StoryTx DEF WatchInv
  <2> QED BY <2>2, IncidentAmounts DEF HalfLoss, Left
<1>4. /\ tick.pc \in {"idle", "sweep", "search"}
      /\ tick.base \in Nat /\ tick.drop \in Nat
  BY TickWith DEF WatchInv
<1> QED BY <1>1, <1>2, <1>3, <1>4

LEMMA DeliverBooked ==
  ASSUME WatchInv, WatchBooks, NEW n \in DOMAIN age, Deliver(n)
  PROVE  WatchBooks'
<1>1. UNCHANGED <<story, age, holdings, claim, snapshot, tick>>
      /\ delivered' = delivered \cup {n}
  BY DEF Deliver, chainVars, rowVars
<1>2. /\ faults' \in Nat /\ faults' >= faults
      /\ events \subseteq events' /\ \A e \in events' \ events : e[1] = n
      /\ events' = {} => alerts' = alerts
  BY DeliverWatched DEF WatchInv
<1>3. n \in 1..Len(age) /\ Len(age) \in Nat /\ Lookback \in Nat /\ faults \in Nat
      /\ \A m \in 1..Len(age) : age[m] \in Nat
  BY BooksTyped
<1>4. EventsOK'
  BY <1>1, <1>2, <1>3 DEF WatchBooks, EventsOK
<1>5. \A m : AlreadySeen(m) => AlreadySeen(m)'
  BY <1>2 DEF AlreadySeen
<1>6. \A m : AlreadySeen(m)' => AlreadySeen(m) \/ m = n
  BY <1>2 DEF AlreadySeen
<1>7. \A m : Noticed(m) => Noticed(m)'
  BY <1>2 DEF Noticed
<1>8. OneTickPerFault'
  BY <1>1, <1>2, <1>3, <1>5, SameStory DEF WatchBooks, OneTickPerFault
<1>9. SweptRowsOpen'
  BY <1>1, <1>2, <1>3, <1>6, <1>7, SameStory DEF WatchBooks, SweptRowsOpen
<1>10. NothingRaised'
  BY <1>1, <1>2 DEF WatchBooks, NothingRaised
<1>11. Measured'
  <2> SUFFICES ASSUME Quiet' PROVE Measured'
    BY DEF Measured
  <2>1. Quiet
    BY <1>1, <1>2, <1>3, QuietBefore
  <2>2. \A m \in 1..Len(age) : InSight(m)' <=> InSight(m)
    BY <1>1 DEF InSight, Tx
  <2>3. Left(Tx(Len(age)))' = Left(Tx(Len(age)))
    BY <1>1 DEF Left, Tx
  <2> QED BY <1>1, <2>1, <2>2, <2>3, SameStory DEF WatchBooks, Measured
<1> QED BY <1>4, <1>8, <1>9, <1>10, <1>11 DEF WatchBooks

LEMMA StartTickBooked ==
  ASSUME WatchInv, WatchBooks, StartTick
  PROVE  WatchBooks'
<1>1. PICK base \in {0, snapshot}, listed \in BOOLEAN :
       /\ Fault((IF base = snapshot THEN 0 ELSE 1) + (IF listed THEN 0 ELSE 1))
       /\ tick' = [pc |-> "sweep", base |-> base, drop |-> 0,
            todo |-> IF listed THEN {n \in DOMAIN age : story[n].named /\ Fresh(n)}
                     ELSE {}]
  BY DEF StartTick
<1> DEFINE todo == IF listed THEN {n \in DOMAIN age : story[n].named /\ Fresh(n)}
                   ELSE {}
<1>2. UNCHANGED <<story, age, holdings, events, alerts, claim, delivered, snapshot>>
      /\ tick.pc = "idle"
  BY DEF StartTick, chainVars, rowVars, raisedVars
<1>3. tick'.pc = "sweep" /\ tick'.base = base /\ tick'.todo = todo
  BY <1>1
<1> HIDE DEF todo
<1>4. /\ faults \in Nat /\ faults' \in Nat /\ faults' >= faults
      /\ ~listed => faults' >= faults + 1
      /\ base # snapshot => faults' >= faults + 1
  BY <1>1, BooksTyped DEF Fault
<1>5. EventsOK' /\ SweptRowsOpen'
  BY <1>2, <1>4, RowsAlone DEF WatchBooks
<1>6. OneTickPerFault'
  <2> SUFFICES ASSUME NEW n \in 1..Len(age), Raisable(n), ~AlreadySeen(n)
               PROVE  \/ faults' >= Lookback - 1
                      \/ age[n] <= faults'
                      \/ age[n] <= faults' + 1 /\ n \in todo
    BY <1>2, <1>3, SameStory DEF OneTickPerFault, AlreadySeen
  <2>1. /\ age[n] \in Nat /\ age[n] <= Lookback /\ Lookback \in Nat
        /\ Tx(n) \in Incident /\ DOMAIN age = 1..Len(age)
    BY BooksTyped
  <2>2. faults >= Lookback - 1 \/ age[n] <= faults + 1
    BY <1>2, <1>4, <2>1 DEF WatchBooks, OneTickPerFault
  <2>3. ~Tx(n).failed /\ story[n].named
    BY <2>1, StolenShows, StrayedShows DEF Raisable
  <2>4. listed /\ age[n] < Lookback => n \in todo
    BY <2>1, <2>3 DEF todo, Fresh
  <2> QED BY <1>4, <2>1, <2>2, <2>4
<1>7. NothingRaised'
  BY <1>2, NothingMoreRaised DEF WatchBooks
<1>8. Measured'
  <2> SUFFICES ASSUME Quiet' PROVE Measured'
    BY DEF Measured
  <2>1. Quiet /\ base = snapshot
    BY <1>2, <1>4, QuietBefore
  <2>2. /\ holdings = Left(Tx(Len(age))) /\ snapshot >= holdings
        /\ \A n \in 1..Len(age) : holdings <= Left(Tx(n)) /\ (HalfLoss(n) => InSight(n))
    BY <2>1 DEF WatchBooks, Measured
  <2>3. \A m \in 1..Len(age) : InSight(m) => InSight(m)'
    BY <1>2, <1>3, <2>1 DEF InSight, Tx
  <2>4. Left(Tx(Len(age)))' = Left(Tx(Len(age)))
    BY <1>2 DEF Left, Tx
  <2>5. tick'.base >= holdings'
    BY <1>2, <1>3, <2>1, <2>2
  <2> QED BY <1>2, <2>2, <2>3, <2>4, <2>5, SameStory DEF Measured
<1> QED BY <1>5, <1>6, <1>7, <1>8 DEF WatchBooks

\* Raising writes the row and may fail to publish it.
LEMMA RaisedRow ==
  ASSUME NEW n, NEW kind, NEW failed \in Nat, faults \in Nat, Raise(n, kind, failed)
  PROVE  /\ events' = events \cup {<<n, kind>>} /\ events' # {}
         /\ faults' \in Nat /\ faults' >= faults + failed /\ faults' >= faults
<1>1. /\ events' = events \cup {<<n, kind>>}
      /\ Fault(failed) \/ Fault(failed + 1)
  BY DEF Raise
<1>2. events' # {}
  <2>1. <<n, kind>> \in events'
    BY <1>1
  <2> QED BY <2>1
<1>3. faults' \in Nat /\ faults' >= faults + failed /\ faults' >= faults
  BY <1>1 DEF Fault
<1> QED BY <1>1, <1>2, <1>3

LEMMA ExamineBooked ==
  ASSUME WatchInv, WatchBooks, Examine
  PROVE  WatchBooks'
<1>1. PICK n \in DOMAIN age :
       /\ Advance(n)
       /\ \/ AlreadySeen(n) /\ UNCHANGED <<raisedVars, faults>>
          \/ Fault(1) /\ UNCHANGED raisedVars
          \/ \E mandate_read \in BOOLEAN :
                  LET kind   == SweepKind(Tx(n), mandate_read)
                      failed == IF mandate_read THEN 0 ELSE 1
                  IN IF kind = "none" THEN Fault(failed) /\ UNCHANGED raisedVars
                     ELSE Raise(n, kind, failed)
  BY DEF Examine
<1>2. UNCHANGED <<story, age, holdings, claim, delivered, snapshot>>
      /\ tick.pc = "sweep"
  BY DEF Examine, chainVars, rowVars
<1>3. tick'.pc = "sweep" /\ tick'.base = tick.base /\ tick'.todo = tick.todo \ {n}
  BY <1>1, <1>2, TickWith DEF Advance, WatchInv
<1>4. /\ n \in 1..Len(age) /\ Len(age) \in Nat /\ Tx(n) \in Incident
      /\ faults \in Nat /\ Lookback \in Nat
      /\ \A m \in 1..Len(age) : age[m] \in Nat
  BY BooksTyped
\* What the transaction costs the step: a row, or a call.
<1>5. /\ faults' \in Nat /\ faults' >= faults
      /\ events \subseteq events'
      /\ EventsOK' /\ SweptRowsOpen'
      /\ Raisable(n) => AlreadySeen(n)' \/ faults' >= faults + 1
      /\ NothingRaised'
  <2>1. CASE UNCHANGED raisedVars /\ faults' \in Nat /\ faults' >= faults
             /\ (Raisable(n) => AlreadySeen(n) \/ faults' >= faults + 1)
    <3>1. UNCHANGED <<events, alerts>>
      BY <2>1 DEF raisedVars
    <3>2. AlreadySeen(n)' <=> AlreadySeen(n)
      BY <3>1 DEF AlreadySeen
    <3>3. EventsOK' /\ SweptRowsOpen'
      BY <1>2, <2>1, <3>1, RowsAlone DEF WatchBooks
    <3>4. NothingRaised'
      BY <1>2, <3>1, NothingMoreRaised DEF WatchBooks
    <3> QED BY <2>1, <3>1, <3>2, <3>3, <3>4
  <2>2. CASE AlreadySeen(n) /\ UNCHANGED <<raisedVars, faults>>
    BY <1>4, <2>1, <2>2
  <2>3. CASE Fault(1) /\ UNCHANGED raisedVars
    BY <1>4, <2>1, <2>3 DEF Fault
  <2>4. ASSUME NEW mandate_read \in BOOLEAN,
               LET kind   == SweepKind(Tx(n), mandate_read)
                   failed == IF mandate_read THEN 0 ELSE 1
               IN IF kind = "none" THEN Fault(failed) /\ UNCHANGED raisedVars
                  ELSE Raise(n, kind, failed)
        PROVE  /\ faults' \in Nat /\ faults' >= faults
               /\ events \subseteq events'
               /\ EventsOK' /\ SweptRowsOpen'
               /\ Raisable(n) => AlreadySeen(n)' \/ faults' >= faults + 1
               /\ NothingRaised'
    <3> DEFINE kind   == SweepKind(Tx(n), mandate_read)
               failed == IF mandate_read THEN 0 ELSE 1
    <3>1. /\ Stolen(Tx(n)) => Opens(kind)
          /\ Strayed(Tx(n)) /\ mandate_read => Opens(kind)
      BY <1>4, SweepRaises
    <3>2. failed \in Nat /\ (~mandate_read => failed = 1)
      OBVIOUS
    <3>3. IF kind = "none" THEN Fault(failed) /\ UNCHANGED raisedVars
          ELSE Raise(n, kind, failed)
      BY <2>4
    <3> HIDE DEF kind, failed
    <3>4. CASE kind = "none"
      BY <1>4, <2>1, <3>1, <3>2, <3>3, <3>4, NoneOpensNothing DEF Raisable, Fault
    <3>5. CASE kind # "none"
      <4>1. /\ events' = events \cup {<<n, kind>>} /\ events' # {}
            /\ faults' \in Nat /\ faults' >= faults + failed /\ faults' >= faults
        BY <1>4, <3>2, <3>3, <3>5, RaisedRow
      <4>2. Raisable(n) /\ (Stolen(Tx(n)) \/ faults' = 0) => Opens(kind)
        BY <1>4, <3>1, <3>2, <4>1 DEF Raisable
      <4>3. EventsOK' /\ SweptRowsOpen'
        <5>1. n \in 0..Len(age) /\ Len(age') = Len(age)
          BY <1>2, <1>4
        <5>2. n > 0 /\ Raisable(n) /\ (Stolen(Tx(n)) \/ faults' = 0) => Opens(kind)
          BY <4>2
        <5> QED BY <1>2, <4>1, <5>1, <5>2, RowAdded DEF WatchBooks
      <4>4. AlreadySeen(n)'
        <5>1. <<n, kind>> \in events' /\ <<n, kind>>[1] = n
          BY <4>1
        <5> QED BY <5>1 DEF AlreadySeen
      <4> QED BY <4>1, <4>3, <4>4, QuietOver
    <3> QED BY <3>4, <3>5
  <2> QED BY <1>1, <2>2, <2>3, <2>4
<1>6. OneTickPerFault'
  <2> SUFFICES ASSUME NEW m \in 1..Len(age), Raisable(m), ~AlreadySeen(m)'
               PROVE  \/ faults' >= Lookback - 1
                      \/ age[m] <= faults'
                      \/ age[m] <= faults' + 1 /\ m \in tick.todo \ {n}
    BY <1>2, <1>3, SameStory DEF OneTickPerFault
  <2>1. ~AlreadySeen(m)
    BY <1>5 DEF AlreadySeen
  <2>2. \/ faults >= Lookback - 1
        \/ age[m] <= faults
        \/ age[m] <= faults + 1 /\ m \in tick.todo
    BY <1>2, <2>1 DEF WatchBooks, OneTickPerFault
  <2> QED BY <1>4, <1>5, <2>2
<1>7. Measured'
  <2> SUFFICES ASSUME Quiet' PROVE Measured'
    BY DEF Measured
  <2>1. Quiet
    BY <1>2, <1>4, <1>5, QuietBefore
  <2>2. \A m \in 1..Len(age) : InSight(m)' <=> InSight(m)
    BY <1>2, <1>3 DEF InSight, Tx
  <2>3. Left(Tx(Len(age)))' = Left(Tx(Len(age)))
    BY <1>2 DEF Left, Tx
  <2> QED BY <1>2, <1>3, <2>1, <2>2, <2>3, SameStory DEF WatchBooks, Measured
<1> QED BY <1>5, <1>6, <1>7 DEF WatchBooks

LEMMA MeasureBooked ==
  ASSUME WatchInv, WatchBooks, Measure
  PROVE  WatchBooks'
<1> DEFINE drop == IF holdings < tick.base THEN tick.base - holdings ELSE 0
<1>1. /\ UNCHANGED <<story, holdings, claim, events, alerts, delivered>>
      /\ tick.pc = "sweep" /\ tick.todo = {}
  BY DEF Measure, rowVars, raisedVars
<1>2. \/ EndTick
      \/ /\ Attributable(tick.base, drop)
         /\ tick'.pc = "search" /\ tick'.base = tick.base /\ tick'.drop = drop
         /\ UNCHANGED age
  BY TickWith DEF Measure, WatchInv
<1>3. /\ Fault(1) \/ (UNCHANGED faults /\ snapshot' = holdings)
      /\ UNCHANGED faults => (EndTick => ~Attributable(tick.base, drop))
  <2>1. Fault(1) /\ faults \in Nat => faults' # faults
    BY DEF Fault
  <2>2. tick'.pc = "search" => ~EndTick
    BY DEF EndTick, Idle
  <2> QED BY <2>1, <2>2, BooksTyped, TickWith DEF Measure, WatchInv
<1>4. drop \in Nat /\ (holdings < tick.base => drop = tick.base - holdings)
  BY BooksTyped
<1> HIDE DEF drop
<1>5. /\ faults \in Nat /\ faults' \in Nat /\ faults' >= faults
      /\ Fault(1) => faults' >= faults + 1
  BY <1>3, BooksTyped DEF Fault
<1>6. Len(age') = Len(age)
  BY <1>2, EndTickAges DEF WatchInv
<1>7. EventsOK' /\ SweptRowsOpen'
  BY <1>1, <1>5, <1>6, RowsAlone DEF WatchBooks
<1>8. OneTickPerFault'
  <2>1. CASE EndTick
    BY <1>1, <1>5, <2>1, TickEnded DEF WatchBooks
  <2>2. CASE UNCHANGED age
    <3> SUFFICES ASSUME NEW n \in 1..Len(age), Raisable(n), ~AlreadySeen(n)
                 PROVE  faults' >= Lookback - 1 \/ age[n] <= faults'
      BY <1>1, <2>2, SameStory DEF OneTickPerFault, AlreadySeen
    <3>1. faults >= Lookback - 1 \/ age[n] <= faults
      BY <1>1 DEF WatchBooks, OneTickPerFault
    <3> QED BY <1>5, <3>1, BooksTyped
  <2> QED BY <1>2, <2>1, <2>2
<1>9. NothingRaised'
  BY <1>1, NothingMoreRaised DEF WatchBooks
<1>10. Measured'
  <2> SUFFICES ASSUME Quiet' PROVE Measured'
    BY DEF Measured
  <2>1. Quiet /\ faults' = faults
    BY <1>1, <1>5, QuietBefore
  <2>2. snapshot' = holdings
    BY <1>3, <1>5, <2>1
  <2>3. /\ holdings = Left(Tx(Len(age)))
        /\ \A n \in 1..Len(age) : holdings <= Left(Tx(n)) /\ (HalfLoss(n) => InSight(n))
    BY <2>1 DEF WatchBooks, Measured
  <2>4. Left(Tx(Len(age)))' = Left(Tx(Len(age)))
    BY <1>1, <1>6 DEF Left, Tx
  <2>5. tick'.pc # "sweep"
    BY <1>2 DEF EndTick, Idle
\* A half loss is a drop that the tick looks into.
  <2>6. ASSUME NEW n \in 1..Len(age), HalfLoss(n)
        PROVE  InSight(n)'
    <3>1. InSight(n) /\ holdings <= Left(Tx(n))
      BY <2>3, <2>6
    <3>2. age[n] <= 1 /\ tick.base >= Tx(n).held
      BY <1>1, <3>1 DEF InSight
    <3>3. /\ Left(Tx(n)) = Tx(n).held - Tx(n).lost /\ Left(Tx(n)) \in Nat
          /\ Tx(n).held \in Nat /\ Tx(n).lost \in Nat
          /\ holdings \in Nat /\ tick.base \in Nat
      BY <2>6, BooksTyped
    <3>4. Tx(n).lost > 0 /\ 2 * Tx(n).lost >= Tx(n).held
      BY <2>6 DEF HalfLoss
    <3> DEFINE h == Tx(n).held
               l == Tx(n).lost
               b == tick.base
    <3>5. h \in Nat /\ l \in Nat /\ b \in Nat /\ l > 0 /\ 2 * l >= h /\ b >= h
          /\ holdings <= h - l /\ h - l >= 0 /\ holdings \in Nat
      BY <3>1, <3>2, <3>3, <3>4
    <3> HIDE DEF h, l, b
    <3>6. holdings < b /\ b > 0 /\ 2 * (b - holdings) >= b
      BY <3>5
    <3>7. drop = b - holdings
      BY <1>4, <3>6 DEF b
    <3>8. b > 0 /\ drop > 0 /\ 4 * drop >= b /\ 2 * drop >= b
      BY <3>5, <3>6, <3>7
    <3>9. Attributable(tick.base, drop)
      BY <3>8 DEF Attributable, b
    <3>10. /\ tick'.pc = "search" /\ tick'.base = tick.base /\ tick'.drop = drop
           /\ UNCHANGED age
      BY <1>2, <1>3, <2>1, <3>9
    <3>11. 2 * tick'.drop >= tick'.base /\ age'[n] <= 1
      BY <3>2, <3>8, <3>10 DEF b
    <3> QED BY <3>10, <3>11 DEF InSight
  <2>7. snapshot' >= holdings'
    BY <1>1, <2>2, BooksTyped
  <2>8. ASSUME NEW n \in 1..Len(age)
        PROVE  holdings' <= Left(Tx(n))' /\ (HalfLoss(n)' => InSight(n)')
    BY <1>1, <2>3, <2>6, SameStory
  <2>9. holdings' = Left(Tx(Len(age)))'
    BY <1>1, <2>3, <2>4
  <2> QED BY <1>6, <2>5, <2>7, <2>8, <2>9 DEF Measured
<1> QED BY <1>7, <1>8, <1>9, <1>10 DEF WatchBooks

LEMMA SearchBooked ==
  ASSUME WatchInv, WatchBooks, Search
  PROVE  WatchBooks'
<1>1. UNCHANGED <<story, holdings, claim, delivered, snapshot>> /\ tick.pc = "search"
  BY DEF Search, rowVars
<1>2. PICK n \in DOMAIN age :
       \/ Raise(n, "exploit", 0) /\ EndTick
       \/ /\ UNCHANGED <<events, alerts, age>> /\ Advance(n)
          /\ UNCHANGED faults \/ Fault(1)
  BY DEF Search, raisedVars
<1>3. /\ n \in 1..Len(age) /\ Len(age) \in Nat /\ faults \in Nat /\ Lookback \in Nat
      /\ \A m \in 1..Len(age) : age[m] \in Nat
  BY BooksTyped
<1>4. CASE Raise(n, "exploit", 0) /\ EndTick
  <2>1. /\ events' = events \cup {<<n, "exploit">>} /\ events' # {}
        /\ faults' \in Nat /\ faults' >= faults
    BY <1>3, <1>4, RaisedRow
  <2>2. Len(age') = Len(age) /\ n \in 0..Len(age)
    BY <1>3, <1>4, EndTickAges DEF WatchInv
  <2>3. n > 0 /\ Raisable(n) /\ (Stolen(Tx(n)) \/ faults' = 0) => Opens("exploit")
    BY DEF Opens, TriggerFor
  <2>4. EventsOK' /\ SweptRowsOpen'
    BY <1>1, <2>1, <2>2, <2>3, RowAdded DEF WatchBooks
  <2>5. OneTickPerFault'
    BY <1>1, <1>4, <2>1, TickEnded DEF WatchBooks
  <2> QED BY <2>1, <2>4, <2>5, QuietOver DEF WatchBooks
<1>5. CASE /\ UNCHANGED <<events, alerts, age>> /\ Advance(n)
           /\ UNCHANGED faults \/ Fault(1)
  <2>1. /\ faults' \in Nat /\ faults' >= faults
        /\ UNCHANGED faults \/ faults' # 0
    BY <1>3, <1>5 DEF Fault
  <2>2. tick'.pc = "search" /\ tick'.base = tick.base /\ tick'.drop = tick.drop
    BY <1>1, <1>5, TickWith DEF Advance, WatchInv
  <2>3. EventsOK' /\ SweptRowsOpen'
    BY <1>1, <1>5, <2>1, RowsAlone DEF WatchBooks
  <2>4. OneTickPerFault'
    <3> SUFFICES ASSUME NEW m \in 1..Len(age), Raisable(m), ~AlreadySeen(m)
                 PROVE  faults' >= Lookback - 1 \/ age[m] <= faults'
      BY <1>1, <1>5, SameStory DEF OneTickPerFault, AlreadySeen
    <3>1. faults >= Lookback - 1 \/ age[m] <= faults
      BY <1>1 DEF WatchBooks, OneTickPerFault
    <3> QED BY <1>3, <2>1, <3>1
  <2>5. NothingRaised'
    BY <1>1, <1>5, NothingMoreRaised DEF WatchBooks
  <2>6. CASE UNCHANGED faults
    <3> SUFFICES ASSUME Quiet' PROVE Measured'
      BY <2>3, <2>4, <2>5 DEF Measured, WatchBooks
    <3>1. Quiet
      BY <1>1, <1>5, <2>6 DEF Quiet
    <3>2. \A m \in 1..Len(age) : InSight(m)' <=> InSight(m)
      BY <1>1, <1>5, <2>2 DEF InSight, Tx
    <3>3. Left(Tx(Len(age)))' = Left(Tx(Len(age)))
      BY <1>1, <1>5 DEF Left, Tx
    <3> QED BY <1>1, <1>5, <2>2, <3>1, <3>2, <3>3, SameStory DEF WatchBooks, Measured
  <2>7. CASE faults' # 0
    BY <2>3, <2>4, <2>5, <2>7, QuietOver DEF WatchBooks
  <2> QED BY <2>1, <2>6, <2>7
<1> QED BY <1>2, <1>4, <1>5

LEMMA EscalateBooked ==
  ASSUME WatchInv, WatchBooks, Escalate
  PROVE  WatchBooks'
<1>1. /\ UNCHANGED <<story, holdings, claim, alerts, delivered, snapshot, faults>>
      /\ tick.pc = "search" /\ EndTick
  BY DEF Escalate, rowVars
<1>2. /\ Len(age') = Len(age) /\ Len(age) \in Nat
      /\ \A n \in 1..Len(age) : age'[n] = AtMost(Lookback, age[n] + 1)
      /\ tick'.pc = "idle"
      /\ faults \in Nat /\ faults' \in Nat /\ faults' >= faults
  BY <1>1, EndTickAges, BooksTyped DEF WatchInv, EndTick, Idle
<1>3. CASE 2 * tick.drop >= tick.base
  <2>1. events' = events \cup {<<0, "balance_drop_unexplained">>}
    BY <1>3 DEF Escalate
  <2>2. events' # {} /\ events \subseteq events'
    BY <2>1
  <2>3. 0 \in 0..Len(age)
    BY <1>2
  <2>4. EventsOK' /\ SweptRowsOpen'
    <3>1. 0 > 0 /\ Raisable(0) /\ (Stolen(Tx(0)) \/ faults' = 0)
            => Opens("balance_drop_unexplained")
      OBVIOUS
    <3> QED BY <1>1, <1>2, <2>1, <2>3, <3>1, RowAdded DEF WatchBooks
  <2>5. OneTickPerFault'
    BY <1>1, <1>2, <2>2, TickEnded DEF WatchBooks
  <2> QED BY <2>2, <2>4, <2>5, QuietOver DEF WatchBooks
<1>4. CASE ~(2 * tick.drop >= tick.base)
  <2>1. UNCHANGED events
    BY <1>4 DEF Escalate
  <2>2. EventsOK' /\ SweptRowsOpen'
    BY <1>1, <1>2, <2>1, RowsAlone DEF WatchBooks
  <2>3. OneTickPerFault'
    BY <1>1, <1>2, <2>1, TickEnded DEF WatchBooks
  <2>4. NothingRaised'
    BY <1>1, <2>1, NothingMoreRaised DEF WatchBooks
  <2>5. Measured'
    <3> SUFFICES ASSUME Quiet' PROVE Measured'
      BY DEF Measured
    <3>1. Quiet
      BY <1>1, <2>1 DEF Quiet
    <3>2. /\ holdings = Left(Tx(Len(age))) /\ snapshot >= holdings
          /\ \A n \in 1..Len(age) :
               holdings <= Left(Tx(n)) /\ (HalfLoss(n) => InSight(n))
      BY <3>1 DEF WatchBooks, Measured
    <3>3. Left(Tx(Len(age)))' = Left(Tx(Len(age)))
      BY <1>1, <1>2 DEF Left, Tx
    <3>4. ASSUME NEW n \in 1..Len(age)
          PROVE  holdings' <= Left(Tx(n))' /\ (HalfLoss(n)' => InSight(n)')
      <4>1. Tx(n)' = Tx(n) /\ Left(Tx(n))' = Left(Tx(n)) /\ (HalfLoss(n)' <=> HalfLoss(n))
        BY <1>1, SameStory
      <4>2. InSight(n) => age[n] = 0 /\ snapshot >= Tx(n).held
        BY <1>1, <1>4 DEF InSight
      <4>3. age[n] = 0 => age'[n] <= 1
        BY <1>2, BooksTyped DEF AtMost
      <4>4. InSight(n) => InSight(n)'
        BY <1>1, <1>2, <4>1, <4>2, <4>3 DEF InSight
      <4> QED BY <1>1, <3>2, <4>1, <4>4
    <3> QED BY <1>1, <1>2, <3>2, <3>3, <3>4 DEF Measured
  <2> QED BY <2>2, <2>3, <2>4, <2>5 DEF WatchBooks
<1> QED BY <1>3, <1>4

LEMMA AbortBooked ==
  ASSUME WatchInv, WatchBooks, Abort
  PROVE  WatchBooks'
<1>1. /\ UNCHANGED <<story, events, alerts, claim, delivered>>
      /\ tick.pc # "idle" /\ Fault(1) /\ EndTick
  BY DEF Abort, rowVars, raisedVars
<1>2. /\ Len(age') = Len(age) /\ faults \in Nat
      /\ faults' \in Nat /\ faults' >= faults + 1
  BY <1>1, EndTickAges, BooksTyped DEF WatchInv, Fault
<1>3. faults' >= faults /\ faults' # 0
  BY <1>2
<1>4. EventsOK' /\ SweptRowsOpen'
  BY <1>1, <1>2, <1>3, RowsAlone DEF WatchBooks
<1>5. OneTickPerFault'
  BY <1>1, <1>2, <1>3, TickEnded DEF WatchBooks
<1>6. NothingRaised'
  BY <1>1, NothingMoreRaised DEF WatchBooks
<1> QED BY <1>3, <1>4, <1>5, <1>6, QuietOver DEF WatchBooks

\* The row is there, and the tick is lost to one more call.
LEMMA PublishThrowsBooked ==
  ASSUME WatchInv, WatchBooks, PublishThrows
  PROVE  WatchBooks'
<1>1. /\ UNCHANGED <<story, claim, delivered>>
      /\ tick.pc = "sweep" /\ EndTick
  BY DEF PublishThrows, rowVars
<1>2. PICK n \in DOMAIN age, mandate_read \in BOOLEAN :
        /\ Fault(IF mandate_read THEN 1 ELSE 2)
        /\ events' = events \cup {<<n, SweepKind(Tx(n), mandate_read)>>}
  BY DEF PublishThrows
<1> DEFINE kind == SweepKind(Tx(n), mandate_read)
<1>3. /\ Len(age') = Len(age) /\ n \in 0..Len(age) /\ Tx(n) \in Incident
      /\ faults \in Nat /\ faults' \in Nat /\ faults' >= faults + 1
  <2>1. Fault(1) \/ Fault(2)
    BY <1>2
  <2>2. Len(age') = Len(age)
    BY <1>1, EndTickAges DEF WatchInv
  <2>3. n \in 1..Len(age) /\ Len(age) \in Nat /\ Tx(n) \in Incident /\ faults \in Nat
    BY BooksTyped
  <2> QED BY <2>1, <2>2, <2>3 DEF Fault
<1>4. faults' >= faults /\ faults' # 0
  BY <1>3
<1>5. Stolen(Tx(n)) => Opens(kind)
  BY <1>3, SweepRaises
<1>6. events' = events \cup {<<n, kind>>}
  BY <1>2
<1> HIDE DEF kind
<1>7. events' # {} /\ events \subseteq events'
  BY <1>6
<1>8. n > 0 /\ Raisable(n) /\ (Stolen(Tx(n)) \/ faults' = 0) => Opens(kind)
  BY <1>4, <1>5
<1>9. EventsOK' /\ SweptRowsOpen'
  BY <1>1, <1>3, <1>4, <1>6, <1>8, RowAdded DEF WatchBooks
<1>10. OneTickPerFault'
  BY <1>1, <1>3, <1>4, <1>7, TickEnded DEF WatchBooks
<1> QED BY <1>7, <1>9, <1>10, QuietOver DEF WatchBooks

LEMMA InitBooks ==
  ASSUME DetectionInit, WatchInv
  PROVE  WatchBooks
<1>1. /\ events = {} /\ alerts = <<>> /\ faults = 0 /\ tick.pc = "idle"
      /\ Lookback \in Nat /\ Lookback >= 2
  BY DetectionAssumption DEF DetectionInit, Idle
<1>2. /\ EventsOK /\ SweptRowsOpen
  BY <1>1 DEF EventsOK, SweptRowsOpen, AlreadySeen
<1>3. CASE Watched
  <2>1. /\ Len(age) = 1 /\ age[1] = 0 /\ \A n \in 1..Len(age) : n = 1
        /\ claim.status = "unfiled"
    BY <1>3 DEF Watched, Filed
  <2>2. OneTickPerFault
    BY <1>1, <2>1 DEF OneTickPerFault
  <2>3. NothingRaised
    BY <1>1, <2>1 DEF NothingRaised
  <2>4. holdings = Left(Tx(1)) /\ snapshot = Tx(1).held
    BY <1>3 DEF Watched
  <2>5. 1 \in 1..Len(story)
    BY <2>1, DetectionAssumption DEF WatchInv, StoryOK
  <2>6. Left(Tx(1)) \in Nat /\ Left(Tx(1)) <= Tx(1).held /\ Tx(1).held \in Nat
    BY <2>1, <2>5, StoryTx, BooksTyped DEF WatchInv
  <2>7. InSight(1)
    BY <1>1, <2>1, <2>4, <2>6 DEF InSight
  <2>8. Measured
    BY <1>1, <2>1, <2>4, <2>6, <2>7 DEF Measured
  <2> QED BY <1>2, <2>2, <2>3, <2>8 DEF WatchBooks
<1>4. CASE FiledByHolder
  <2>1. story = <<>> /\ Len(age) = 0 /\ 1..Len(age) = {}
    BY <1>4 DEF FiledByHolder
  <2> QED BY <1>1, <1>2, <2>1
          DEF WatchBooks, OneTickPerFault, NothingRaised, Measured, Quiet
<1> QED BY <1>3, <1>4 DEF DetectionInit

LEMMA NextBooks ==
  ASSUME WatchInv, WatchBooks, [DetectionNext]_detectionVars
  PROVE  WatchBooks'
<1>1. CASE UNCHANGED detectionVars
  <2>1. UNCHANGED <<story, age, holdings, claim, events, alerts, delivered,
                    snapshot, tick, faults>>
    BY <1>1 DEF detectionVars, reviewVars
  <2>2. faults \in Nat /\ faults' = faults
    BY <2>1 DEF WatchInv
  <2>3. EventsOK' /\ OneTickPerFault' /\ SweptRowsOpen'
    BY <2>1, <2>2, TickAlone DEF WatchBooks
  <2>4. NothingRaised'
    BY <2>1, NothingMoreRaised DEF WatchBooks
  <2>5. Quiet' => Quiet
    BY <2>1 DEF Quiet
  <2>6. \A n \in 1..Len(age) : InSight(n)' <=> InSight(n)
    BY <2>1 DEF InSight, Tx
  <2>7. Left(Tx(Len(age)))' = Left(Tx(Len(age)))
    BY <2>1 DEF Left, Tx
  <2>8. Measured'
    BY <2>1, <2>5, <2>6, <2>7, SameStory DEF WatchBooks, Measured
  <2> QED BY <2>3, <2>4, <2>8 DEF WatchBooks
<1> QED
  BY <1>1, ReviewBooked, HappenBooked, DeliverBooked, StartTickBooked,
     ExamineBooked, MeasureBooked, SearchBooked, EscalateBooked, AbortBooked,
     PublishThrowsBooked, IngestBooked
  DEF DetectionNext

-----------------------------------------------------------------------------
(* The two together, from the first sight of an agent. *)

DetectInv == ReviewInv /\ WatchInv

LEMMA FiledRow ==
  ASSUME NEW t \in Triggers, NEW a \in Nat, NEW s \in {"pending", "unfiled"},
         claim' = [trigger |-> t, status |-> s, reason |-> "filed",
                   attempts |-> a, loss |-> 0, confidence |-> 0, proven |-> FALSE,
                   provable |-> FALSE, hash |-> FALSE, reattributed |-> FALSE],
         incident' \in Incident, WellFormed(incident'), holdings' \in Nat,
         lag' \in 0..MaxLag
  PROVE  ReviewInv'
<1>1. /\ DOMAIN claim' = RowFields
      /\ claim'.trigger \in Triggers /\ claim'.status = s /\ claim'.attempts = a
      /\ claim'.loss = 0 /\ claim'.confidence = 0
      /\ claim'.proven = FALSE /\ claim'.provable = FALSE /\ claim'.hash = FALSE
      /\ claim'.reattributed = FALSE
  BY DEF RowFields
<1>2. {claim.proven, claim.provable, claim.hash, claim.reattributed}'
        \subseteq BOOLEAN
  BY <1>1
<1>3. /\ claim'.status \in Open \cup Decided \cup {"unfiled"}
      /\ claim'.loss \in 0..Coverage
      /\ claim'.confidence \in 0..CONFIDENCE_CEILING
  BY <1>1, AmountsAssumption DEF Open, Decided, CONFIDENCE_CEILING
<1>4. ReviewTypeOK'
  BY <1>1, <1>2, <1>3 DEF ReviewTypeOK
<1> QED
  BY <1>1, <1>4 DEF ReviewInv, Denied, Granted

\* A claim taken to a human as it stands was never decided by a verdict.
LEMMA CappedRow ==
  ASSUME ReviewInv, CapReached, UNCHANGED <<holdings, lag, basis>>
  PROVE  ReviewInv'
<1>1. /\ DOMAIN claim' = RowFields /\ claim'.status = "review"
      /\ claim'.trigger = claim.trigger /\ claim'.loss = claim.loss
      /\ claim'.attempts = claim.attempts
      /\ claim'.confidence = claim.confidence /\ claim'.proven = claim.proven
      /\ claim'.hash = claim.hash /\ claim'.reattributed = claim.reattributed
      /\ claim'.provable = claim.provable
  BY DEF ReviewInv, CapReached, RowFields
<1>2. UNCHANGED <<incident, holdings, lag>> /\ ReviewTypeOK
  BY DEF CapReached, ReviewInv
<1>3. ReviewTypeOK'
  BY <1>1, <1>2 DEF ReviewTypeOK, Open, Decided
<1> QED
  BY <1>1, <1>3 DEF ReviewInv, Denied, Granted

LEMMA IngestKeepsReviewInv ==
  ASSUME ReviewInv, WatchInv, Ingest
  PROVE  ReviewInv'
<1> DEFINE n       == Head(alerts)[1]
           trigger == TriggerFor[Head(alerts)[2]]
<1>1. n \in 1..Len(story) /\ trigger \in Triggers
  BY IngestWatched, TriggersOpened
<1>2. Tx(n) \in Incident /\ WellFormed(Tx(n))
  BY <1>1, StoryTx DEF WatchInv
<1>3. /\ UNCHANGED <<holdings, lag, basis>> /\ holdings' \in Nat
      /\ lag' \in 0..MaxLag /\ claim.attempts \in Nat /\ DOMAIN claim = RowFields
  BY DEF Ingest, chainVars, WatchInv, ReviewInv, ReviewTypeOK
<1>4. \/ File(trigger, n) \/ Repoint(trigger, n) \/ CapReached
      \/ UNCHANGED <<incident, claim>>
  BY DEF Ingest
<1> HIDE DEF n, trigger
<1>5. CASE File(trigger, n)
  <2>1. claim' = [trigger |-> trigger, status |-> "pending", reason |-> "filed",
             attempts |-> 0, loss |-> 0, confidence |-> 0, proven |-> FALSE,
             provable |-> FALSE, hash |-> FALSE, reattributed |-> FALSE]
    BY <1>5 DEF File, Filed
  <2> QED BY <1>1, <1>2, <1>3, <1>5, <2>1, FiledRow DEF File
<1>6. CASE Repoint(trigger, n)
  <2>1. claim' = [trigger |-> trigger, status |-> "pending", reason |-> "filed",
             attempts |-> claim.attempts, loss |-> 0, confidence |-> 0, proven |-> FALSE,
             provable |-> FALSE, hash |-> FALSE, reattributed |-> FALSE]
    BY <1>6 DEF Repoint, Filed
  <2> QED BY <1>1, <1>2, <1>3, <1>6, <2>1, FiledRow DEF Repoint
<1>7. CASE CapReached
  BY <1>3, <1>7, CappedRow
<1>8. CASE UNCHANGED <<incident, claim>>
  BY <1>3, <1>8, ApartFromReview
<1> QED BY <1>4, <1>5, <1>6, <1>7, <1>8

LEMMA InitDetectInv == DetectionInit => DetectInv
<1> SUFFICES ASSUME DetectionInit PROVE DetectInv
  OBVIOUS
<1>1. /\ events = {} /\ alerts = <<>> /\ faults = 0
      /\ tick = [pc |-> "idle", base |-> 0, drop |-> 0, todo |-> {}]
  BY DEF DetectionInit, Idle
<1>2. TickOK /\ AlertsOK
  BY <1>1 DEF TickOK, AlertsOK
<1>3. CASE Watched
  <2>1. story \in Seq([tx: Incident, named: BOOLEAN]) /\ story # <<>>
        /\ story \in Stories
    BY <1>3, DetectionAssumption DEF Watched
  <2>2. Len(story) \in Nat /\ Len(story) >= 1 /\ 1 \in 1..Len(story)
    BY <2>1
  <2>3. age = <<0>> /\ 0 \in 0..Lookback
    BY <1>3, DetectionAssumption DEF Watched
  <2>4. StoryOK
    BY <2>1, <2>2, <2>3 DEF StoryOK
  <2>5. /\ incident \in Incident /\ WellFormed(incident) /\ Left(incident) \in Nat
        /\ incident = Tx(1)
    BY <1>3, <2>2, <2>4, StoryTx DEF Watched
  <2>6. holdings \in Nat /\ snapshot \in Nat /\ lag \in 0..MaxLag
    BY <1>3, <2>5, IncidentAmounts, ReviewAssumption DEF Watched
  <2>7. claim = [Filed("exploit") EXCEPT !.status = "unfiled"]
    BY <1>3 DEF Watched
  <2>8. /\ DOMAIN claim = RowFields
        /\ claim.trigger \in Triggers /\ claim.status = "unfiled"
        /\ claim.attempts = 0 /\ claim.loss = 0 /\ claim.confidence = 0
        /\ claim.proven = FALSE /\ claim.provable = FALSE /\ claim.hash = FALSE
        /\ claim.reattributed = FALSE
    BY <2>7 DEF Filed, RowFields, Triggers
  <2>9. ReviewInv
    <3>1. {claim.proven, claim.provable, claim.hash, claim.reattributed}
            \subseteq BOOLEAN
      BY <2>8
    <3>2. /\ claim.attempts \in Nat /\ claim.loss \in 0..Coverage
          /\ claim.confidence \in 0..CONFIDENCE_CEILING
      BY <2>8, AmountsAssumption DEF CONFIDENCE_CEILING
    <3>3. ReviewTypeOK
      BY <2>5, <2>6, <2>8, <3>1, <3>2 DEF ReviewTypeOK
    <3> QED BY <2>8, <3>3 DEF ReviewInv, Denied, Granted
  <2> QED BY <1>1, <1>2, <2>4, <2>6, <2>9 DEF DetectInv, WatchInv
<1>4. CASE FiledByHolder
  <2>1. ReviewInv /\ holdings \in Nat
    BY <1>4, InitReviewInv DEF FiledByHolder, ReviewInv, ReviewTypeOK
  <2>2. StoryOK /\ snapshot \in Nat
    BY <1>4, DetectionAssumption DEF FiledByHolder, StoryOK
  <2> QED BY <1>1, <1>2, <2>1, <2>2 DEF DetectInv, WatchInv
<1> QED BY <1>3, <1>4 DEF DetectionInit

LEMMA NextDetectInv == DetectInv /\ [DetectionNext]_detectionVars => DetectInv'
<1> SUFFICES ASSUME ReviewInv, WatchInv, [DetectionNext]_detectionVars
             PROVE  ReviewInv' /\ WatchInv'
  BY DEF DetectInv
<1>1. CASE Review
  <2>1. ASSUME \E r \in IF story = <<>> THEN Readings(incident) ELSE Sightings,
                  hash \in BOOLEAN : Verify(r, hash)
        PROVE  ReviewInv'
    <3>1. PICK r \in IF story = <<>> THEN Readings(incident) ELSE Sightings,
               hash \in BOOLEAN : Verify(r, hash)
      BY <2>1
    <3> QED BY <3>1, VerifyKeepsReviewInv
  <2>2. ReviewInv'
    BY <1>1, <2>1, SettleKeepsReviewInv, ElapseKeepsReviewInv DEF Review
  <2>3. holdings' \in Nat
    BY <2>2 DEF ReviewInv, ReviewTypeOK
  <2> QED BY <1>1, <2>2, <2>3, ReviewWatched
<1>2. ASSUME UNCHANGED <<incident, claim, lag, basis>>, WatchInv'
      PROVE  ReviewInv' /\ WatchInv'
  BY <1>2, ApartFromReview DEF WatchInv
<1>3. CASE Happen
  BY <1>2, <1>3, HappenWatched DEF Happen, rowVars
<1>4. ASSUME NEW n \in DOMAIN age, Deliver(n)
      PROVE  ReviewInv' /\ WatchInv'
  BY <1>2, <1>4, DeliverWatched DEF Deliver, rowVars, chainVars
<1>5. CASE StartTick
  BY <1>2, <1>5, StartTickWatched DEF StartTick, rowVars, chainVars
<1>6. CASE Examine
  BY <1>2, <1>6, ExamineWatched DEF Examine, rowVars, chainVars
<1>7. CASE Measure
  BY <1>2, <1>7, MeasureWatched DEF Measure, rowVars
<1>8. CASE Search
  BY <1>2, <1>8, SearchWatched DEF Search, rowVars
<1>9. CASE Escalate \/ Abort \/ PublishThrows
  BY <1>2, <1>9, EndTickWatched DEF Escalate, Abort, PublishThrows, rowVars
<1>10. CASE Ingest
  BY <1>10, IngestWatched, IngestKeepsReviewInv
<1>11. CASE UNCHANGED detectionVars
  <2>1. UNCHANGED <<incident, claim, lag, basis, holdings>>
        /\ UNCHANGED <<story, age, alerts, snapshot, tick, faults>>
    BY <1>11 DEF detectionVars, reviewVars
  <2>2. WatchInv'
    BY <2>1 DEF WatchInv, StoryOK, AlertsOK, TickOK
  <2> QED BY <1>2, <2>1, <2>2
<1> QED
  BY <1>1, <1>3, <1>4, <1>5, <1>6, <1>7, <1>8, <1>9, <1>10, <1>11
  DEF DetectionNext

\* Whatever befalls the agent, whoever notices it and however often the claim
\* is re-pointed, a decided row carries the verdict of what its pass had read,
\* and every alert in flight names a transaction that happened.
THEOREM ReviewInvariant == DetectionSpec => []DetectInv
<1>1. DetectionInit => DetectInv
  BY InitDetectInv
<1>2. DetectInv /\ [DetectionNext]_detectionVars => DetectInv'
  BY NextDetectInv
<1> QED BY <1>1, <1>2, PTL DEF DetectionSpec

-----------------------------------------------------------------------------
(* What follows from it. *)

\* The row, the amounts set aside and the holdings stay of their kind however
\* many passes fail and whatever they read.
THEOREM ReviewTypeCorrect == DetectionSpec => []ReviewTypeOK
<1>1. ReviewInv => ReviewTypeOK
  BY DEF ReviewInv
<1> QED
  BY <1>1, ReviewInvariant, PTL DEF DetectInv

\* A claim rejected on a legible reading, whatever its sources left out, is one
\* that full evidence would not confirm.
THEOREM GapsNeverDenyAlways == DetectionSpec => []GapsNeverDeny
<1>1. ReviewInv => GapsNeverDeny
  <2> SUFFICES ASSUME ReviewInv, claim.status = "rejected", Legible
               PROVE  FullVerdict.outcome # "confirmed"
    BY DEF GapsNeverDeny
  <2>1. /\ incident \in Incident
        /\ Decision.outcome = "rejected"
        /\ basis.reading.garbled = {} /\ ~Lacks(basis.reading, "outflows")
        /\ claim.trigger \in {"exploit", "agent_error", "governance"}
    BY KnownIncident DEF ReviewInv, Denied, Legible, ReviewTypeOK, Triggers
  <2>2. CASE claim.trigger = "exploit"
    BY <2>1, <2>2, ExploitSurvivesEvidence DEF FullVerdict, Decision, Adjudicate
  <2>3. CASE claim.trigger = "agent_error"
    BY <2>1, <2>3, AgentErrorSurvivesEvidence DEF FullVerdict, Decision, Adjudicate
  <2>4. CASE claim.trigger = "governance"
    BY <2>1, <2>4, GovernanceSurvivesEvidence DEF FullVerdict, Decision, Adjudicate
  <2> QED
    BY <2>1, <2>2, <2>3, <2>4
<1> QED
  BY <1>1, ReviewInvariant, PTL DEF DetectInv

\* A claim approved on a legible reading would be confirmed, for the same
\* amount, on full evidence.
THEOREM GapsNeverPayAlways == DetectionSpec => []GapsNeverPay
<1>1. ReviewInv => GapsNeverPay
  <2> SUFFICES ASSUME ReviewInv, claim.status \in {"approved", "paid"}, Legible
               PROVE  FullVerdict.outcome = "confirmed"
                      /\ FullVerdict.loss = claim.loss
    BY DEF GapsNeverPay
  <2>1. /\ incident \in Incident
        /\ Decision.outcome = "confirmed"
        /\ Decision.loss = claim.loss
        /\ basis.reading.garbled = {} /\ ~Lacks(basis.reading, "outflows")
        /\ claim.trigger \in {"exploit", "agent_error", "governance"}
    BY KnownIncident DEF ReviewInv, Granted, Legible, ReviewTypeOK, Triggers
  <2>2. CASE claim.trigger = "exploit"
    BY <2>1, <2>2, ExploitSurvivesEvidence DEF FullVerdict, Decision, Adjudicate
  <2>3. CASE claim.trigger = "agent_error"
    BY <2>1, <2>3, AgentErrorSurvivesEvidence DEF FullVerdict, Decision, Adjudicate
  <2>4. CASE claim.trigger = "governance"
    BY <2>1, <2>4, GovernanceSurvivesEvidence DEF FullVerdict, Decision, Adjudicate
  <2> QED
    BY <2>1, <2>2, <2>3, <2>4
<1> QED
  BY <1>1, ReviewInvariant, PTL DEF DetectInv

\* Whatever is approved on a legible reading happened: value or control was
\* taken by the hand the trigger says.
THEOREM ApprovedHappened == DetectionSpec => []ApprovedAsItHappened
<1>1. ReviewInv => ApprovedAsItHappened
  <2> SUFFICES ASSUME ReviewInv, claim.status \in {"approved", "paid"}, Legible
               PROVE  /\ ~incident.failed
                      /\ claim.trigger = "exploit" =>
                           Intrusion /\ NetLoss(incident) >= claim.loss
                      /\ claim.trigger = "agent_error" =>
                           /\ AgentSigned(incident)
                           /\ \A m \in Movements(incident.ixs) :
                                m.authority = Agent
                           /\ EnvelopeInForce
                           /\ NetLoss(incident) >= claim.loss
                      /\ claim.trigger = "governance" => Seizure
    BY DEF ApprovedAsItHappened
  <2>1. /\ incident \in Incident /\ WellFormed(incident)
        /\ Decision.outcome = "confirmed"
        /\ Decision.loss = claim.loss
        /\ basis.reading.garbled = {}
        /\ claim.trigger \in {"exploit", "agent_error", "governance"}
    BY KnownIncident DEF ReviewInv, Granted, Legible, ReviewTypeOK, Triggers
  <2>2. CASE claim.trigger = "exploit"
    BY <2>1, <2>2, ExploitMeansIntrusion DEF Decision, Adjudicate, Intrusion
  <2>3. CASE claim.trigger = "agent_error"
    BY <2>1, <2>3, AgentErrorMeansBreach DEF Decision, Adjudicate, EnvelopeInForce
  <2>4. CASE claim.trigger = "governance"
    BY <2>1, <2>4, GovernanceMeansSeizure DEF Decision, Adjudicate, Seizure
  <2> QED
    BY <2>1, <2>2, <2>3, <2>4
<1> QED
  BY <1>1, ReviewInvariant, PTL DEF DetectInv

\* No claim is approved whose payout could not be proved on the chain for the
\* amount set aside.
THEOREM PaidProvable == DetectionSpec => []PaidIsProvable
<1>1. ReviewInv => PaidIsProvable
  <2> SUFFICES ASSUME ReviewInv, claim.status \in {"approved", "paid"}
               PROVE  PaidIsProvable
    BY DEF PaidIsProvable
  <2>1. ReviewTypeOK /\ Granted
    BY DEF ReviewInv
  <2>2. /\ claim.loss \in 0..Coverage /\ claim.loss >= MIN_PAYABLE_LOSS
        /\ claim.trigger = "agent_error" =>
             claim.loss >= MIN_PROVABLE_MANDATE_BREACH
               /\ claim.loss <= ExcessRaw(incident)
    BY <2>1, VerdictShape DEF Granted, Decision, ReviewTypeOK
  <2>3. claim.confidence \in REVIEW_CONFIDENCE..CONFIDENCE_CEILING
    <3>1. claim.confidence \in 0..CONFIDENCE_CEILING
      BY <2>1 DEF ReviewTypeOK
    <3>2. claim.confidence >= REVIEW_CONFIDENCE
      BY <2>1 DEF Granted
    <3>3. CONFIDENCE_CEILING \in Int /\ REVIEW_CONFIDENCE \in Int
      BY DEF REVIEW_CONFIDENCE, CONFIDENCE_CEILING
    <3> QED
      BY <3>1, <3>2, <3>3
  <2>4. claim.loss \in MIN_PAYABLE_LOSS..Coverage
    BY <2>2, AmountsAssumption
  <2> QED
    BY <2>1, <2>2, <2>3, <2>4 DEF Granted, PaidIsProvable
<1> QED
  BY <1>1, ReviewInvariant, PTL DEF DetectInv

\* No incident without a foreign change of control is both an exploit and an
\* agent error on full evidence.
THEOREM KindsAlwaysDisjoint == DetectionSpec => []KindsAreDisjoint
<1>1. ReviewInv => KindsAreDisjoint
  <2> SUFFICES ASSUME ReviewInv, ForeignControlChanges(incident.ixs) = {},
                      VerifyExploit(incident, Complete).outcome = "confirmed",
                      VerifyAgentError(incident, Complete).outcome = "confirmed"
               PROVE  FALSE
    BY DEF KindsAreDisjoint
  <2>1. incident \in Incident
    BY KnownIncident DEF ReviewInv
  <2>2. View(incident, Complete) = incident.ixs
    BY <2>1, WholeView, CompleteReading
  <2>3. HasAuthorizationEvidence(incident, Complete)
    BY CompleteReading DEF VerifyExploit, AdjudicateExploit, JudgeAuthorization,
        Verdict, Rejected, Indeterminate
  <2>4. \/ HasUnauthorizedMovement(incident, incident.ixs)
        \/ PriorDelegatePulls(incident.ixs) # {}
    BY <2>2, <2>3
    DEF HasAuthorizationEvidence, ExploitPresent, ExploitUnevaluated,
      FirstSeenUnread, FanoutUnread, UpgradeUnread,
        AuthorizationClass, ExploitWeights
  <2>5. AgentSigned(incident) /\ ForeignAuthorities(incident.ixs) = {}
    BY <2>2, CompleteReading
    DEF VerifyAgentError, AdjudicateAgentError, JudgeBreach,
        Verdict, Rejected, Indeterminate
  <2>6. ForeignMovements(incident.ixs) = {}
    BY <2>5 DEF ForeignAuthorities
  <2> QED
    BY <2>4, <2>5, <2>6
    DEF HasUnauthorizedMovement, PriorDelegatePulls, ForeignControlChanges
<1> QED
  BY <1>1, ReviewInvariant, PTL DEF DetectInv

\* A claim approved on a legible reading would be approved as surely on full
\* evidence: no lane is reached by reading less.
THEOREM GapsNeverRaise == DetectionSpec => []GapsNeverRaiseConfidence
<1>1. ReviewInv => GapsNeverRaiseConfidence
  <2> SUFFICES ASSUME ReviewInv, claim.status \in {"approved", "paid"}, Legible
               PROVE  claim.confidence <= FullVerdict.confidence
    BY DEF GapsNeverRaiseConfidence
  <2>1. /\ incident \in Incident /\ IsFiniteSet(incident.ixs)
        /\ Decision.outcome = "confirmed"
        /\ Decision.confidence = claim.confidence
        /\ basis.reading.garbled = {} /\ ~Lacks(basis.reading, "outflows")
        /\ basis.held \in Nat
        /\ claim.trigger \in {"exploit", "agent_error", "governance"}
    BY KnownIncident
    DEF ReviewInv, Granted, Legible, ReviewTypeOK, Triggers, WellFormed
  <2> DEFINE r == basis.reading
             h == basis.held
             f == Frozen(h)
  <2>2. f \in Nat
    BY <2>1 DEF Frozen
  <2>3. CASE claim.trigger = "exploit"
    <3>1. /\ VerifyExploit(incident, r).outcome = "confirmed"
          /\ claim.confidence = VerifyExploit(incident, r).confidence
          /\ FullVerdict = VerifyExploit(incident, Complete)
      BY <2>1, <2>3 DEF Decision, FullVerdict, Adjudicate
    <3>2. VerifyExploit(incident, Complete).outcome = "confirmed"
      BY <2>1, <3>1, ExploitSurvivesEvidence
    <3>3. ASSUME NEW q, VerifyExploit(incident, q).outcome = "confirmed"
          PROVE  VerifyExploit(incident, q).confidence = ExploitConfidence(incident, q)
      BY <3>3 DEF VerifyExploit, AdjudicateExploit, JudgeAuthorization,
          Verdict, Rejected, Indeterminate
    <3> QED BY <2>1, <3>1, <3>2, <3>3, ExploitSurer
  <2>4. CASE claim.trigger = "agent_error"
    <3>1. /\ VerifyAgentError(incident, r).outcome = "confirmed"
          /\ claim.confidence = VerifyAgentError(incident, r).confidence
          /\ FullVerdict = VerifyAgentError(incident, Complete)
      BY <2>1, <2>4 DEF Decision, FullVerdict, Adjudicate
    <3>2. VerifyAgentError(incident, Complete).outcome = "confirmed"
      BY <2>1, <3>1, AgentErrorSurvivesEvidence
    <3>3. ASSUME NEW q, VerifyAgentError(incident, q).outcome = "confirmed"
          PROVE  VerifyAgentError(incident, q).confidence
                   = AgentErrorConfidence(incident, q)
      BY <3>3 DEF VerifyAgentError, AdjudicateAgentError, JudgeBreach,
          Verdict, Rejected, Indeterminate
    <3> QED BY <2>1, <3>1, <3>2, <3>3, AgentErrorSurer
  <2>5. CASE claim.trigger = "governance"
    <3>1. /\ VerifyGovernanceAttack(incident, r, h, f, lag).outcome = "confirmed"
          /\ claim.confidence
               = VerifyGovernanceAttack(incident, r, h, f, lag).confidence
          /\ FullVerdict = VerifyGovernanceAttack(incident, Complete, h, f, lag)
      BY <2>1, <2>5 DEF Decision, FullVerdict, Adjudicate
    <3>2. VerifyGovernanceAttack(incident, Complete, h, f, lag).outcome = "confirmed"
      BY <2>1, <3>1, GovernanceSurvivesEvidence
    <3>3. ASSUME NEW q,
                 VerifyGovernanceAttack(incident, q, h, f, lag).outcome = "confirmed"
          PROVE  VerifyGovernanceAttack(incident, q, h, f, lag).confidence
                   = GovernanceConfidence(incident, q, h, f, lag)
      BY <3>3 DEF VerifyGovernanceAttack, AdjudicateGovernance, JudgeExposure,
          Verdict, Rejected, Indeterminate
    <3> QED BY <2>1, <2>2, <3>1, <3>2, <3>3, GovernanceSurer
  <2> QED BY <2>1, <2>3, <2>4, <2>5
<1> QED
  BY <1>1, ReviewInvariant, PTL DEF DetectInv

\* The books of the watchers hold all along: what a full reading would confirm
\* is on record, listed, or no older than the calls that failed.
THEOREM WatchInvariant == DetectionSpec => []WatchBooks
<1>1. DetectionInit => WatchBooks
  BY InitDetectInv, InitBooks DEF DetectInv
<1>2. DetectInv /\ WatchBooks /\ [DetectionNext]_detectionVars => WatchBooks'
  BY NextBooks DEF DetectInv
<1>3. DetectionSpec => []DetectInv
  BY ReviewInvariant
<1> QED BY <1>1, <1>2, <1>3, PTL DEF DetectionSpec

\* The sweep is the backstop: what a verifier would confirm of a transaction in
\* the wallet's history is on record before the look-back has passed it, with
\* one tick lost for each call that failed and no webhook at all.
THEOREM BackstopAlwaysRaises == DetectionSpec => []BackstopRaises
<1>1. ASSUME WatchInv, WatchBooks PROVE BackstopRaises
  <2>1. SUFFICES ASSUME NEW n \in DOMAIN age, Passed(n), faults < Lookback - 1,
                        Raisable(n)
                 PROVE  /\ AlreadySeen(n)
                        /\ n \notin delivered /\ (Stolen(Tx(n)) \/ faults = 0)
                             => Noticed(n)
    BY <1>1 DEF BackstopRaises, Raisable
  <2>2. n \in 1..Len(age) /\ faults \in Nat /\ Lookback \in Nat
    BY <1>1, BooksTyped
  <2>3. age[n] = Lookback
    BY <2>1 DEF Passed
  <2>4. AlreadySeen(n)
    BY <1>1, <2>1, <2>2, <2>3 DEF WatchBooks, OneTickPerFault
  <2> QED BY <1>1, <2>1, <2>2, <2>4 DEF WatchBooks, SweptRowsOpen
<1>2. DetectInv /\ WatchBooks => BackstopRaises
  BY <1>1 DEF DetectInv
<1> QED BY <1>2, ReviewInvariant, WatchInvariant, PTL

\* Where no call failed, half a balance does not leave an agent without a row,
\* whoever moved it: the snapshot taken before it is what the next tick to end
\* compares with, however many ticks and transactions lie between.
THEOREM HalfLossOnRecord == DetectionSpec => []HalfLossLeavesARecord
<1>1. ASSUME WatchInv, WatchBooks PROVE HalfLossLeavesARecord
  <2>1. SUFFICES ASSUME NEW n \in DOMAIN age, Passed(n), faults = 0, HalfLoss(n),
                        events = {}
                 PROVE  FALSE
    BY DEF HalfLossLeavesARecord, HalfLoss
  <2>2. n \in 1..Len(age) /\ Lookback \in Nat /\ Lookback >= 2
    BY <1>1, BooksTyped
  <2>3. Quiet
    BY <2>1 DEF Quiet, Passed, Insured
  <2>4. InSight(n)
    BY <1>1, <2>1, <2>2, <2>3 DEF WatchBooks, Measured
  <2>5. age[n] <= 1
    BY <2>1, <2>4 DEF InSight, Passed
  <2> QED BY <2>1, <2>2, <2>5 DEF Passed
<1>2. DetectInv /\ WatchBooks => HalfLossLeavesARecord
  BY <1>1 DEF DetectInv
<1> QED BY <1>2, ReviewInvariant, WatchInvariant, PTL
=============================================================================
