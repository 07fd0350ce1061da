------------------------- MODULE UnderwritingProofs -------------------------
(***************************************************************************)
(* Theorems about underwriting and the price settlement, for any number of *)
(* keys, agents, feeds and policies and any protocol constants.            *)
(*                                                                         *)
(* That the pool's theorems hold here too rests on AttestedAtQuote: the    *)
(* flat premium a purchase takes from an attestation is one the pool may   *)
(* be asked for.  PricedAsSold rests on TermsAsSold: what a policy carries *)
(* is what was attested when it was sold.                                  *)
(***************************************************************************)
EXTENDS Underwriting, VaultProofs

OfficesTyped ==
  /\ admin \in Keys /\ oracle_authority \in Keys
  /\ pending_admin \in Proposal
  /\ in_office \in [Keys -> Nat]
  /\ attestation \in [Agents -> Attestation]

TermsTyped ==
  /\ agent \in [Policies -> Agents \cup {NoAgent}]
  /\ mandate_hash \in [Policies -> Mandates \cup {NoMandate}]
  /\ price_terms \in [Policies -> PriceTerms]
  /\ sold \in [Policies -> Attestation]
  /\ evidence_record \in [Policies -> EvidenceRecord]
  /\ \A p \in Policies :
       /\ policy[p].state # Unopened => agent[p] \in Agents
       /\ policy[p].state # Paid => evidence_record[p] = NoRecord

\* The key in office is in office now, and no key later than now.
OfficeDated ==
  /\ in_office[oracle_authority] = now
  /\ \A k \in Keys : in_office[k] <= now

\* An attestation was signed by a key then in office, at the quoted price of
\* its envelope, and lives no longer than the program allows.
AttestedAtQuote ==
  \A a \in Agents : attestation[a] # NoAttestation =>
    /\ attestation[a].mandate \in Mandates
    /\ attestation[a].flat = EnvelopePrice[attestation[a].mandate]
    /\ attestation[a].signer \in Keys
    /\ in_office[attestation[a].signer] >= attestation[a].issued_at
    /\ attestation[a].expires_at
         <= attestation[a].issued_at + MAX_ATTESTATION_VALIDITY

\* A policy carries the terms of the attestation it was sold against.
TermsAsSold ==
  \A p \in Policies :
    policy[p].state # Unopened => price_terms[p] = sold[p].terms

OfficeInv ==
  OfficesTyped /\ OfficeDated /\ ProposalByIncumbent /\ AttestedAtQuote

TermInv == TermsTyped /\ TermsAsSold /\ PricedAsSold

LEMMA UnderwritingTyped ==
  UnderwritingTypeOK <=> OfficesTyped /\ TermsTyped
BY DEF UnderwritingTypeOK, OfficesTyped, TermsTyped

LEMMA ConstantFacts ==
  /\ \A m \in Mandates : EnvelopePrice[m] \in FlatPremiums
                            /\ EnvelopePrice[m] \in Nat
  /\ \A d \in Decimals : Scale[d] \in Nat \ {0}
  /\ MAX_PRICE_EVIDENCE_SKEW \in Nat /\ MAX_ATTESTATION_VALIDITY \in Nat
  /\ \A x \in Prices : x \in Nat
  /\ \A x \in Quantities : x \in Nat
  /\ \A x \in Payouts : x \in Nat
<1>1. /\ EnvelopePrice \in [Mandates -> FlatPremiums]
      /\ Scale \in [Decimals -> Nat \ {0}]
      /\ Prices \subseteq Nat \ {0} /\ Quantities \subseteq Nat
      /\ MAX_PRICE_EVIDENCE_SKEW \in Nat /\ MAX_ATTESTATION_VALIDITY \in Nat
  BY UnderwritingAssumption
<1>2. Payouts \subseteq Nat /\ FlatPremiums \subseteq Nat  BY VaultAssumption
<1> QED  BY <1>1, <1>2

-----------------------------------------------------------------------------
LEMMA UnderwritingInitInv ==
  ASSUME UnderwritingInit
  PROVE  OfficeInv /\ TermInv
<1>1. \A p \in Policies : policy[p].state = Unopened
  BY DEF UnderwritingInit, Init, NoPolicy
<1>2. NoTerms \in PriceTerms
  BY UnderwritingAssumption DEF NoTerms, PriceTerms
<1>3. NoAttestation \in Attestation
  BY <1>2 DEF NoAttestation, Attestation, Tiers
<1>4. NoRecord \in EvidenceRecord  BY DEF NoRecord, EvidenceRecord
<1>5. NoProposal \in Proposal  BY DEF NoProposal, Proposal
<1>6. now \in Nat  BY DEF UnderwritingInit, Init
<1>7. OfficesTyped
  BY <1>3, <1>5, <1>6 DEF UnderwritingInit, OfficesTyped
<1>8. TermsTyped
  BY <1>1, <1>2, <1>3, <1>4
  DEF UnderwritingInit, TermsTyped, Paid, Unopened
<1>9. OfficeDated
  BY <1>6 DEF UnderwritingInit, OfficeDated
<1>10. ProposalByIncumbent /\ AttestedAtQuote
  BY DEF UnderwritingInit, ProposalByIncumbent, AttestedAtQuote
<1>11. TermsAsSold /\ PricedAsSold
  BY <1>1 DEF TermsAsSold, PricedAsSold, Paid, Unopened
<1> QED  BY <1>7, <1>8, <1>9, <1>10, <1>11 DEF OfficeInv, TermInv

-----------------------------------------------------------------------------
(* What the instructions that pay no oracle claim do to one policy. *)
Quiet(p) ==
  /\ policy'[p].state # Unopened <=> policy[p].state # Unopened
  /\ \/ policy'[p] = policy[p]
     \/ /\ Live(p)
        /\ policy'[p].state = Paid
             => policy'[p].trigger_type # ORACLE_MANIPULATION

LEMMA ClosedQuietly ==
  ASSUME NEW q \in Policies, Live(q),
         policy'[q].state # Unopened,
         policy'[q].state = Paid
           => policy'[q].trigger_type # ORACLE_MANIPULATION,
         \A r \in Policies \ {q} : policy'[r] = policy[r],
         NEW p \in Policies
  PROVE  Quiet(p)
<1>1. CASE p = q  BY <1>1 DEF Quiet, Live, Active, Pending, Unopened
<1>2. CASE p # q  BY <1>2 DEF Quiet
<1> QED  BY <1>1, <1>2

LEMMA SharedStepQuiet ==
  ASSUME Inv, SharedStep, NEW p \in Policies
  PROVE  Quiet(p)
<1>1. policy \in [Policies -> InsurancePolicy]  BY DEF Inv, TypeOK
<1>2. CASE policy' = policy  BY <1>2 DEF Quiet
<1>3. CASE Tick  BY <1>2, <1>3 DEF Tick
<1>4. ASSUME NEW s \in Stakers, StakerStep(s)  PROVE Quiet(p)
  BY <1>2, <1>4
  DEF StakerStep, Stake, RequestUnstake, ExecuteUnstake, ClaimRewards
<1>5. ASSUME NEW b \in BOOLEAN, NEW m \in Multipliers, UpdateConfig(b, m)
      PROVE  Quiet(p)
  BY <1>2, <1>5 DEF UpdateConfig
<1>6. ASSUME NEW q \in Policies, CancelPolicy(q)  PROVE Quiet(p)
  <2>1. Live(q) /\ policy' = [policy EXCEPT ![q].state = Cancelled]
    BY <1>6 DEF CancelPolicy, Live
  <2>2. /\ policy'[q].state = Cancelled
        /\ \A r \in Policies \ {q} : policy'[r] = policy[r]
    BY <1>1, <2>1 DEF InsurancePolicy
  <2> QED  BY <2>1, <2>2, ClosedQuietly DEF Cancelled, Paid, Unopened
<1>7. ASSUME NEW q \in Policies, ExpirePolicy(q)  PROVE Quiet(p)
  <2>1. Live(q) /\ policy' = [policy EXCEPT ![q].state = Expired]
    BY <1>7 DEF ExpirePolicy, Expirable, Live
  <2>2. /\ policy'[q].state = Expired
        /\ \A r \in Policies \ {q} : policy'[r] = policy[r]
    BY <1>1, <2>1 DEF InsurancePolicy
  <2> QED  BY <2>1, <2>2, ClosedQuietly DEF Expired, Paid, Unopened
<1>8. ASSUME NEW q \in Policies, NEW t \in Triggers, SubmitClaim(q, t)
      PROVE  Quiet(p)
  <2>1. /\ Live(q)
        /\ policy' = [policy EXCEPT ![q].state = Pending,
                                    ![q].trigger_type = t,
                                    ![q].claim_submitted_at = now]
    BY <1>8 DEF SubmitClaim, Live
  <2>2. /\ policy'[q].state = Pending
        /\ \A r \in Policies \ {q} : policy'[r] = policy[r]
    BY <1>1, <2>1 DEF InsurancePolicy
  <2> QED  BY <2>1, <2>2, ClosedQuietly DEF Pending, Paid, Unopened
<1> QED
  BY <1>3, <1>4, <1>5, <1>6, <1>7, <1>8 DEF SharedStep, OracleSubmitClaim

\* A claim of another kind closes its policy and writes no evidence.
LEMMA PayOtherQuiet ==
  ASSUME Inv, NEW q \in Policies, NEW amount, PayOther(q, amount),
         NEW p \in Policies
  PROVE  Quiet(p)
<1>1. policy \in [Policies -> InsurancePolicy]  BY DEF Inv, TypeOK
<1>2. /\ Live(q) /\ policy[q].trigger_type # ORACLE_MANIPULATION
      /\ policy' = [policy EXCEPT ![q].state = Paid, ![q].payout_amount = amount]
  BY DEF PayOther, PayClaim, Live
<1>3. /\ policy'[q].state = Paid
      /\ policy'[q].trigger_type = policy[q].trigger_type
      /\ \A r \in Policies \ {q} : policy'[r] = policy[r]
  BY <1>1, <1>2 DEF InsurancePolicy
<1> QED  BY <1>2, <1>3, ClosedQuietly DEF Paid, Unopened

LEMMA TermsUndisturbed ==
  ASSUME TermInv, UNCHANGED <<termVars, evidence_record>>,
         \A p \in Policies : Quiet(p)
  PROVE  TermInv'
<1>1. /\ agent' = agent /\ price_terms' = price_terms /\ sold' = sold
      /\ mandate_hash' = mandate_hash /\ evidence_record' = evidence_record
  BY DEF termVars
<1>2. TermsAsSold'  BY <1>1 DEF TermInv, TermsAsSold, Quiet
<1>3. ASSUME NEW p \in Policies, policy'[p].state = Paid,
             policy'[p].trigger_type = ORACLE_MANIPULATION
      PROVE  policy'[p] = policy[p]
  BY <1>3 DEF Quiet
<1>4. PricedAsSold'  BY <1>1, <1>3 DEF TermInv, PricedAsSold
<1>5. ASSUME NEW p \in Policies
      PROVE  /\ policy'[p].state # Unopened => agent[p] \in Agents
             /\ policy'[p].state # Paid => evidence_record[p] = NoRecord
  BY DEF Quiet, TermInv, TermsTyped, Live, Active, Pending, Paid
<1>6. TermsTyped'  BY <1>1, <1>5 DEF TermInv, TermsTyped
<1> QED  BY <1>2, <1>4, <1>6 DEF TermInv

LEMMA OfficesUndisturbed ==
  ASSUME OfficeInv, UNCHANGED <<officeVars, attestation>>, now' = now
  PROVE  OfficeInv'
BY DEF OfficeInv, officeVars, OfficesTyped, OfficeDated, ProposalByIncumbent,
       AttestedAtQuote

-----------------------------------------------------------------------------
(* Offices and attestations. *)
LEMMA TimePassesInv ==
  ASSUME Inv, OfficeInv, TermInv, TimePasses
  PROVE  OfficeInv' /\ TermInv'
<1>1. /\ Tick /\ now' = now + 1 /\ now \in Nat
      /\ in_office' = [in_office EXCEPT ![oracle_authority] = now + 1]
      /\ UNCHANGED <<admin, oracle_authority, pending_admin, attestation>>
      /\ UNCHANGED <<termVars, evidence_record>>
  BY DEF TimePasses, Tick, Inv, TypeOK
<1>2. OfficesTyped'  BY <1>1 DEF OfficeInv, OfficesTyped
<1>3. \A k \in Keys : in_office[k] <= in_office'[k] /\ in_office'[k] <= now'
  BY <1>1 DEF OfficeInv, OfficesTyped, OfficeDated
<1>4. OfficeDated'  BY <1>1, <1>3 DEF OfficeInv, OfficesTyped, OfficeDated
<1>5. AttestedAtQuote'
  <2> SUFFICES ASSUME NEW a \in Agents, attestation[a] # NoAttestation
               PROVE  in_office'[attestation[a].signer]
                        >= attestation[a].issued_at
    BY <1>1 DEF OfficeInv, AttestedAtQuote
  <2> QED
    BY <1>2, <1>3 DEF OfficeInv, AttestedAtQuote, OfficesTyped, Attestation
<1>6. ProposalByIncumbent'  BY <1>1 DEF OfficeInv, ProposalByIncumbent
<1>7. TermInv'
  BY <1>1, SharedStepQuiet, TermsUndisturbed DEF SharedStep
<1> QED  BY <1>2, <1>4, <1>5, <1>6, <1>7 DEF OfficeInv

LEMMA OfficeStepInv ==
  ASSUME Inv, OfficeInv, TermInv, OfficeStep
  PROVE  OfficeInv' /\ TermInv'
<1>1. UNCHANGED <<policy, termVars, evidence_record, attestation>> /\ now' = now
  BY DEF OfficeStep, ProposeAdmin, AcceptAdmin, CancelAdminTransfer, Configure,
         UpdateConfig, vars, clockVars
<1>2. TermInv'  BY <1>1, TermsUndisturbed DEF Quiet
<1>3. ASSUME NEW k \in Keys, ProposeAdmin(k)  PROVE OfficeInv'
  BY <1>1, <1>3
  DEF ProposeAdmin, OfficeInv, OfficesTyped, OfficeDated, ProposalByIncumbent,
      AttestedAtQuote, Proposal
<1>4. ASSUME NEW k \in Keys, AcceptAdmin(k)  PROVE OfficeInv'
  BY <1>1, <1>4
  DEF AcceptAdmin, ProposalAccepted, NoProposal, OfficeInv, OfficesTyped,
      OfficeDated, ProposalByIncumbent, AttestedAtQuote, Proposal
<1>5. CASE CancelAdminTransfer
  <2>1. OfficeInv'
    BY <1>1, <1>5
    DEF CancelAdminTransfer, NoProposal, OfficeInv, OfficesTyped,
        OfficeDated, ProposalByIncumbent, AttestedAtQuote, Proposal
  <2> QED  BY <1>2, <2>1
<1>6. ASSUME NEW k \in Keys, NEW b \in BOOLEAN, NEW m \in Multipliers,
             Configure(k, b, m)
      PROVE  OfficeInv'
  <2>1. /\ in_office' = [in_office EXCEPT ![k] = now]
        /\ oracle_authority' = k /\ admin' = admin
        /\ pending_admin' = pending_admin /\ now \in Nat
    BY <1>6 DEF Configure, Inv, TypeOK
  <2>2. OfficesTyped'  BY <1>1, <2>1 DEF OfficeInv, OfficesTyped
  <2>3. \A j \in Keys : in_office[j] <= in_office'[j] /\ in_office'[j] <= now
    BY <2>1 DEF OfficeInv, OfficesTyped, OfficeDated
  <2>4. OfficeDated'  BY <1>1, <2>1, <2>3 DEF OfficeInv, OfficesTyped, OfficeDated
  <2>5. AttestedAtQuote'
    <3> SUFFICES ASSUME NEW a \in Agents, attestation[a] # NoAttestation
                 PROVE  in_office'[attestation[a].signer]
                          >= attestation[a].issued_at
      BY <1>1 DEF OfficeInv, AttestedAtQuote
    <3> QED
      BY <2>2, <2>3 DEF OfficeInv, AttestedAtQuote, OfficesTyped, Attestation
  <2>6. ProposalByIncumbent'  BY <2>1 DEF OfficeInv, ProposalByIncumbent
  <2> QED  BY <2>2, <2>4, <2>5, <2>6 DEF OfficeInv
<1> QED  BY <1>2, <1>3, <1>4, <1>5, <1>6 DEF OfficeStep

LEMMA UpsertAttestationInv ==
  ASSUME Inv, OfficeInv, TermInv, NEW a \in Agents, NEW tier \in Tiers,
         NEW seconds \in Validities, NEW m \in Mandates,
         NEW terms \in PriceTerms, UpsertAttestation(a, tier, seconds, m, terms)
  PROVE  OfficeInv' /\ TermInv'
<1> DEFINE att == [tier |-> tier, issued_at |-> now,
                   expires_at |-> now + seconds, mandate |-> m,
                   flat |-> EnvelopePrice[m], terms |-> terms,
                   signer |-> oracle_authority]
<1>1. /\ attestation' = [attestation EXCEPT ![a] = att]
      /\ UNCHANGED <<vars, officeVars, termVars, evidence_record>>
      /\ seconds \in 1..MAX_ATTESTATION_VALIDITY
  BY DEF UpsertAttestation, Validity
<1>2. policy' = policy /\ now' = now /\ now \in Nat
  BY <1>1 DEF vars, clockVars, Inv, TypeOK
<1>3. /\ seconds \in Nat /\ EnvelopePrice[m] \in Nat
      /\ MAX_ATTESTATION_VALIDITY \in Nat
      /\ seconds <= MAX_ATTESTATION_VALIDITY
  <2>1. seconds \in 1..MAX_ATTESTATION_VALIDITY
    BY DEF UpsertAttestation, Validity
  <2> QED  BY <2>1, ConstantFacts
<1>4. oracle_authority \in Keys /\ in_office[oracle_authority] = now
  BY DEF OfficeInv, OfficesTyped, OfficeDated
<1>5. att \in Attestation  BY <1>2, <1>3, <1>4 DEF Attestation
<1>6. /\ att.mandate = m /\ att.flat = EnvelopePrice[m]
      /\ att.signer = oracle_authority /\ att.issued_at = now
      /\ att.expires_at = now + seconds
  OBVIOUS
<1> HIDE DEF att
<1>7. /\ attestation'[a] = att
      /\ \A b \in Agents \ {a} : attestation'[b] = attestation[b]
      /\ attestation' \in [Agents -> Attestation]
  BY <1>1, <1>5 DEF OfficeInv, OfficesTyped
<1>8. in_office' = in_office /\ admin' = admin /\ pending_admin' = pending_admin
      /\ oracle_authority' = oracle_authority
  BY <1>1 DEF officeVars
<1>9. OfficesTyped' /\ OfficeDated' /\ ProposalByIncumbent'
  BY <1>2, <1>7, <1>8
  DEF OfficeInv, OfficesTyped, OfficeDated, ProposalByIncumbent
<1>10. AttestedAtQuote'
  <2> SUFFICES ASSUME NEW b \in Agents, attestation'[b] # NoAttestation
               PROVE  /\ attestation'[b].mandate \in Mandates
                      /\ attestation'[b].flat
                           = EnvelopePrice[attestation'[b].mandate]
                      /\ attestation'[b].signer \in Keys
                      /\ in_office[attestation'[b].signer]
                           >= attestation'[b].issued_at
                      /\ attestation'[b].expires_at
                           <= attestation'[b].issued_at
                                + MAX_ATTESTATION_VALIDITY
    BY <1>8 DEF AttestedAtQuote
  <2>1. CASE b = a
    BY <1>2, <1>3, <1>4, <1>6, <1>7, <2>1
  <2>2. CASE b # a  BY <1>7, <2>2 DEF OfficeInv, AttestedAtQuote
  <2> QED  BY <2>1, <2>2
<1>11. TermInv'  BY <1>1, <1>2, TermsUndisturbed DEF Quiet
<1> QED  BY <1>9, <1>10, <1>11 DEF OfficeInv

-----------------------------------------------------------------------------
(* Purchases. *)

\* The attestation a purchase uses was signed, at the quoted price of the
\* envelope the holder declares.
LEMMA PurchaseFacts ==
  ASSUME Inv, OfficeInv, NEW a \in Agents, NEW c \in Coverages,
         NEW d \in Durations, NEW m \in Mandates, CreateAttested(a, c, d, m)
  PROVE  /\ attestation[a] \in Attestation
         /\ attestation[a] # NoAttestation
         /\ attestation[a].flat = EnvelopePrice[m]
         /\ attestation[a].flat \in FlatPremiums
         /\ attestation[a].tier \in Tiers
         /\ CreatePolicy(attestation[a].tier, c, d, attestation[a].flat)
<1>1. attestation[a].mandate = m
  BY DEF CreateAttested, EnvelopeMatches
<1>2. attestation[a] # NoAttestation
  <2>1. NoAttestation.mandate = NoMandate  BY DEF NoAttestation
  <2> QED  BY <1>1, <2>1, UnderwritingAssumption
<1>3. attestation[a] \in Attestation  BY DEF OfficeInv, OfficesTyped
<1>4. attestation[a].flat = EnvelopePrice[m]
  BY <1>1, <1>2 DEF OfficeInv, AttestedAtQuote
<1>5. attestation[a].flat \in FlatPremiums /\ attestation[a].tier \in Tiers
  BY <1>3, <1>4, ConstantFacts DEF Attestation
<1>6. CreatePolicy(attestation[a].tier, c, d, attestation[a].flat)
  BY DEF CreateAttested
<1> QED  BY <1>2, <1>3, <1>4, <1>5, <1>6

LEMMA CreateAttestedInv ==
  ASSUME Inv, OfficeInv, TermInv, NEW a \in Agents, NEW c \in Coverages,
         NEW d \in Durations, NEW m \in Mandates, CreateAttested(a, c, d, m)
  PROVE  OfficeInv' /\ TermInv'
<1> SUFFICES ASSUME NEW p, p = policy_counter  PROVE OfficeInv' /\ TermInv'
  OBVIOUS
<1>1. /\ agent' = [agent EXCEPT ![p] = a]
      /\ mandate_hash' = [mandate_hash EXCEPT ![p] = m]
      /\ price_terms' = [price_terms EXCEPT ![p] = attestation[a].terms]
      /\ sold' = [sold EXCEPT ![p] = attestation[a]]
      /\ UNCHANGED <<officeVars, attestation>>
      /\ evidence_record' = evidence_record
  BY DEF CreateAttested, CoversAgent
<1>2. /\ p \in Policies /\ now' = now
      /\ policy'[p].state = Active
      /\ \A q \in Policies \ {p} : policy'[q] = policy[q]
  BY PurchaseFacts, CreateTerms
<1>3. OfficeInv'  BY <1>1, <1>2, OfficesUndisturbed
<1>4. attestation[a] \in Attestation /\ attestation[a].terms \in PriceTerms
  BY PurchaseFacts DEF Attestation
<1>5. /\ agent'[p] = a /\ price_terms'[p] = attestation[a].terms
      /\ sold'[p] = attestation[a]
      /\ \A q \in Policies \ {p} :
           agent'[q] = agent[q] /\ price_terms'[q] = price_terms[q]
             /\ sold'[q] = sold[q]
  BY <1>1, <1>2 DEF TermInv, TermsTyped
<1>6. policy[p].state = Unopened
  <2>1. p >= policy_counter  BY DEF Inv, TypeOK
  <2> QED  BY <1>2, <2>1 DEF Inv, TermsSound
<1>7. ASSUME NEW q \in Policies
      PROVE  /\ policy'[q].state # Unopened => agent'[q] \in Agents
             /\ policy'[q].state # Paid => evidence_record[q] = NoRecord
  BY <1>2, <1>5, <1>6, <1>7 DEF TermInv, TermsTyped, Paid, Unopened
<1>8. TermsTyped'
  BY <1>1, <1>4, <1>7 DEF TermInv, TermsTyped
<1>9. TermsAsSold'
  BY <1>2, <1>5 DEF TermInv, TermsAsSold
<1>10. PricedAsSold'
  <2> SUFFICES ASSUME NEW q \in Policies, policy'[q].state = Paid
               PROVE  q # p
    BY <1>1, <1>2, <1>5 DEF TermInv, PricedAsSold
  <2> QED  BY <1>2 DEF Active, Paid
<1> QED  BY <1>3, <1>8, <1>9, <1>10 DEF TermInv

-----------------------------------------------------------------------------
(* The settlement of a claim. *)
LEMMA DistanceNat ==
  ASSUME NEW x \in Nat, NEW y \in Nat
  PROVE  Distance(x, y) \in Nat
BY DEF Distance

LEMMA DistanceNear ==
  ASSUME NEW x \in Nat, NEW y \in Nat, NEW bound \in Nat,
         NEW low \in Nat, NEW high \in Nat,
         Distance(x, y) <= bound, low <= y, y <= high
  PROVE  x \in low - bound..high + bound
BY DEF Distance

\* The cap divides by the scale what the payout is then multiplied by.
LEMMA CapMeans ==
  ASSUME NEW paid \in Nat, NEW d \in Nat, NEW quantity \in Nat,
         NEW most \in Nat, NEW scale \in Nat \ {0},
         quantity <= most, paid <= (d * quantity) \div scale
  PROVE  paid * scale <= d * most
<1>1. d * quantity \in Nat /\ d * most \in Nat  BY MulNat
<1>2. d * quantity <= d * most
  <2>1. quantity * d <= most * d  BY MulMono
  <2> QED  BY <2>1
<1>3. (d * quantity) \div scale \in Nat  BY <1>1, DivNat
<1>4. ((d * quantity) \div scale) * scale <= d * quantity  BY <1>1, DivMul
<1>5. paid * scale <= ((d * quantity) \div scale) * scale
  BY <1>3, MulMono
<1>6. paid * scale \in Nat /\ ((d * quantity) \div scale) * scale \in Nat
  BY <1>3, MulNat
<1> QED  BY <1>1, <1>2, <1>4, <1>5, <1>6

LEMMA PayPriceInv ==
  ASSUME Inv, OfficeInv, TermInv, NEW p \in Policies, NEW amount \in Payouts,
         NEW u \in PriceUpdates, NEW executed \in Prices,
         NEW quantity \in Quantities, NEW at \in 1..now,
         PayPrice(p, amount, u, executed, quantity, at)
  PROVE  OfficeInv' /\ TermInv'
<1> DEFINE terms == price_terms[p]
           claim_at == policy[p].claim_submitted_at
           start == policy[p].start_time
           r == [feed |-> u.feed, reference |-> u.price, executed |-> executed,
                 quantity |-> quantity, publish_time |-> u.publish_time,
                 trigger_time |-> at]
<1>1. /\ terms.feed # NoFeed
      /\ quantity \in 1..terms.max_quantity
      /\ u.price = Market[u.feed][u.publish_time]
      /\ u.feed = terms.feed
      /\ Distance(u.publish_time, at) <= MAX_PRICE_EVIDENCE_SKEW
      /\ at \in start..claim_at
      /\ amount <= MaxProvableLoss(executed, u.price, quantity,
                                   Scale[terms.decimals])
  BY DEF PayPrice, PriceProven, TermsOfPolicy, Posted
<1>2. /\ PayClaim(p, amount)
      /\ evidence_record' = [evidence_record EXCEPT ![p] = r]
      /\ UNCHANGED <<officeVars, attestation, termVars>>
  BY DEF PayPrice, PriceProven
<1>3. /\ policy \in [Policies -> InsurancePolicy] /\ now \in Nat
      /\ policy[p] \in InsurancePolicy
  BY DEF Inv, TypeOK
<1>4. start \in Nat /\ claim_at \in Nat /\ policy[p].state = Pending
  BY <1>2, <1>3 DEF InsurancePolicy, PayClaim
<1>5. terms \in PriceTerms /\ evidence_record \in [Policies -> EvidenceRecord]
  BY DEF TermInv, TermsTyped
<1>6. /\ terms.max_quantity \in Nat /\ terms.decimals \in Decimals
      /\ terms.feed \in Feeds \cup {NoFeed}
  BY <1>5 DEF PriceTerms
<1>7. /\ Scale[terms.decimals] \in Nat \ {0} /\ MAX_PRICE_EVIDENCE_SKEW \in Nat
      /\ executed \in Nat /\ quantity \in Nat /\ amount \in Nat
  BY <1>6, ConstantFacts
<1>8. /\ u.publish_time \in Nat /\ at \in Nat /\ u.feed \in Feeds
      /\ u.price \in Nat
  BY <1>3, ConstantFacts DEF PriceUpdates
<1>9. u.publish_time \in start - MAX_PRICE_EVIDENCE_SKEW
                          ..claim_at + MAX_PRICE_EVIDENCE_SKEW
  <2>1. /\ start <= at /\ at <= claim_at
        /\ Distance(u.publish_time, at) <= MAX_PRICE_EVIDENCE_SKEW
    BY <1>1, <1>4, <1>8
  <2> HIDE DEF start, claim_at
  <2> QED  BY <1>4, <1>7, <1>8, <2>1, DistanceNear
<1>10. amount * Scale[terms.decimals]
         <= Distance(executed, u.price) * terms.max_quantity
  <2>1. Distance(executed, u.price) \in Nat  BY <1>7, <1>8, DistanceNat
  <2>2. quantity <= terms.max_quantity  BY <1>1, <1>6, <1>7
  <2>3. amount <= (Distance(executed, u.price) * quantity)
                    \div Scale[terms.decimals]
    BY <1>1 DEF MaxProvableLoss
  <2> HIDE DEF terms
  <2> QED  BY <1>6, <1>7, <2>1, <2>2, <2>3, CapMeans
<1>11. r \in EvidenceRecord
  BY <1>7, <1>8 DEF EvidenceRecord
<1>12. /\ r.feed = u.feed /\ r.reference = u.price /\ r.executed = executed
       /\ r.publish_time = u.publish_time
  OBVIOUS
<1>13. /\ policy'[p].payout_amount = amount /\ policy'[p].state = Paid
       /\ policy'[p].start_time = start
       /\ policy'[p].claim_submitted_at = claim_at
       /\ \A q \in Policies \ {p} : policy'[q] = policy[q]
       /\ now' = now
  <2>1. policy' = [policy EXCEPT ![p].state = Paid, ![p].payout_amount = amount]
        /\ now' = now
    BY <1>2 DEF PayClaim, clockVars
  <2> QED  BY <1>3, <2>1 DEF InsurancePolicy
<1> HIDE DEF terms, claim_at, start, r
<1>14. /\ agent' = agent /\ mandate_hash' = mandate_hash
       /\ price_terms' = price_terms /\ sold' = sold
  BY <1>2 DEF termVars
<1>15. /\ evidence_record' \in [Policies -> EvidenceRecord]
       /\ evidence_record'[p] = r
       /\ \A q \in Policies \ {p} : evidence_record'[q] = evidence_record[q]
  BY <1>2, <1>5, <1>11
<1>16. OfficeInv'  BY <1>2, <1>13, OfficesUndisturbed
<1>17. TermsAsSold'
  BY <1>4, <1>13, <1>14 DEF TermInv, TermsAsSold, Pending, Unopened, Paid
<1>18. TermsTyped'
  <2>1. ASSUME NEW q \in Policies
        PROVE  /\ policy'[q].state # Unopened => agent[q] \in Agents
               /\ policy'[q].state # Paid => evidence_record'[q] = NoRecord
    BY <1>4, <1>13, <1>15
    DEF TermInv, TermsTyped, Pending, Unopened, Paid
  <2> QED  BY <1>14, <1>15, <2>1 DEF TermInv, TermsTyped
<1>19. PricedAsSold'
  <2> DEFINE Priced(q) ==
        LET t == sold[q].terms
            e == evidence_record'[q]
        IN /\ t.feed # NoFeed
           /\ e.feed = t.feed
           /\ e.reference = Market[t.feed][e.publish_time]
           /\ e.publish_time \in
                policy'[q].start_time - MAX_PRICE_EVIDENCE_SKEW
                  ..policy'[q].claim_submitted_at + MAX_PRICE_EVIDENCE_SKEW
           /\ policy'[q].payout_amount * Scale[t.decimals]
                <= Distance(e.executed, e.reference) * t.max_quantity
  <2>1. sold[p].terms = terms
    BY <1>4 DEF TermInv, TermsAsSold, terms, Pending, Unopened
  <2>2. Priced(p)
    BY <1>1, <1>9, <1>10, <1>12, <1>13, <1>15, <2>1
  <2>3. ASSUME NEW q \in Policies \ {p}, policy'[q].state = Paid,
               policy'[q].trigger_type = ORACLE_MANIPULATION
        PROVE  Priced(q)
    BY <1>13, <1>15, <2>3 DEF TermInv, PricedAsSold
  <2> QED  BY <1>14, <2>2, <2>3 DEF PricedAsSold
<1> QED  BY <1>16, <1>17, <1>18, <1>19 DEF TermInv

-----------------------------------------------------------------------------
(* The pool takes a step of its own in every step.                            *)
LEMMA PurchaseIsPoolStep ==
  ASSUME Inv, OfficeInv, NEW a \in Agents, NEW c \in Coverages,
         NEW d \in Durations, NEW m \in Mandates, CreateAttested(a, c, d, m)
  PROVE  Next
BY PurchaseFacts DEF Next

LEMMA UnderwritingStepIsPoolStep ==
  ASSUME Inv, OfficeInv, [UnderwritingNext]_uwVars
  PROVE  [Next]_vars
<1>1. CASE TimePasses  BY <1>1 DEF TimePasses, Next
<1>2. CASE UnattestedStep
  BY <1>2 DEF UnattestedStep, PayOther, Next, PolicyStep
<1>3. CASE OfficeStep
  <2>1. ASSUME NEW k \in Keys, NEW b \in BOOLEAN, NEW m \in Multipliers,
               Configure(k, b, m)
        PROVE  Next
    BY <2>1 DEF Configure, Next
  <2>2. CASE \E k \in Keys : ProposeAdmin(k) \/ AcceptAdmin(k)
    BY <2>2 DEF ProposeAdmin, AcceptAdmin
  <2>3. CASE CancelAdminTransfer  BY <2>3 DEF CancelAdminTransfer
  <2> QED  BY <1>3, <2>1, <2>2, <2>3 DEF OfficeStep
<1>4. ASSUME NEW a \in Agents, Attest(a)  PROVE UNCHANGED vars
  BY <1>4 DEF Attest, UpsertAttestation
<1>5. ASSUME NEW p \in Policies, SettlePrice(p)  PROVE Next
  <2>1. PICK amount \in Payouts : PayClaim(p, amount)
    BY <1>5 DEF SettlePrice, PayPrice, PriceProven
  <2> QED  BY <2>1 DEF Next, PolicyStep
<1>6. ASSUME NEW a \in Agents, NEW c \in Coverages, NEW d \in Durations,
             NEW m \in Mandates, CreateAttested(a, c, d, m)
      PROVE  Next
  BY <1>6, PurchaseIsPoolStep
<1>7. CASE UNCHANGED uwVars  BY <1>7 DEF uwVars
<1> QED
  BY <1>1, <1>2, <1>3, <1>4, <1>5, <1>6, <1>7 DEF UnderwritingNext

LEMMA UnderwritingStepInv ==
  ASSUME Inv, OfficeInv, TermInv, [UnderwritingNext]_uwVars
  PROVE  OfficeInv' /\ TermInv'
<1>1. CASE TimePasses  BY <1>1, TimePassesInv
<1>2. CASE UnattestedStep
  <2>1. UNCHANGED <<officeVars, attestation>>
        /\ UNCHANGED <<termVars, evidence_record>>
    BY <1>2 DEF UnattestedStep, underwritingVars, officeVars, termVars
  <2>2. CASE SharedStep /\ now' = now
    BY <2>1, <2>2, SharedStepQuiet, TermsUndisturbed, OfficesUndisturbed
  <2>3. ASSUME NEW p \in Policies, NEW amount \in Payouts, PayOther(p, amount)
        PROVE  OfficeInv' /\ TermInv'
    <3>1. now' = now  BY <2>3 DEF PayOther, PayClaim, clockVars
    <3> QED
      BY <2>1, <2>3, <3>1, PayOtherQuiet, TermsUndisturbed, OfficesUndisturbed
  <2>4. ASSUME NEW s \in Stakers, StakerStep(s)
        PROVE  SharedStep /\ now' = now
    BY <2>4
    DEF SharedStep, StakerStep, Stake, RequestUnstake, ExecuteUnstake,
        ClaimRewards, clockVars
  <2>5. ASSUME NEW p \in Policies,
               \/ CancelPolicy(p) \/ ExpirePolicy(p)
               \/ \E t \in Triggers : SubmitClaim(p, t) \/ OracleSubmitClaim(p, t)
        PROVE  SharedStep /\ now' = now
    BY <2>5
    DEF SharedStep, CancelPolicy, ExpirePolicy, SubmitClaim,
        OracleSubmitClaim, clockVars
  <2> QED  BY <1>2, <2>2, <2>3, <2>4, <2>5 DEF UnattestedStep
<1>3. CASE OfficeStep  BY <1>3, OfficeStepInv
<1>4. ASSUME NEW a \in Agents, Attest(a)  PROVE OfficeInv' /\ TermInv'
  <2>1. PICK tier \in AttestedTiers, seconds \in Validities, m \in Mandates,
             terms \in [feed: Feeds \cup {NoFeed}, decimals: Decimals,
                        max_quantity: Quantities \cup {0}] :
               UpsertAttestation(a, tier, seconds, m, terms)
    BY <1>4 DEF Attest
  <2>2. tier \in Tiers /\ terms \in PriceTerms
    <3>1. AttestedTiers \subseteq Tiers  BY UnderwritingAssumption
    <3> QED  BY <3>1, ConstantFacts DEF PriceTerms
  <2> QED  BY <2>1, <2>2, UpsertAttestationInv
<1>5. ASSUME NEW p \in Policies, SettlePrice(p)  PROVE OfficeInv' /\ TermInv'
  BY <1>5, PayPriceInv DEF SettlePrice
<1>6. ASSUME NEW a \in Agents, NEW c \in Coverages, NEW d \in Durations,
             NEW m \in Mandates, CreateAttested(a, c, d, m)
      PROVE  OfficeInv' /\ TermInv'
  BY <1>6, CreateAttestedInv
<1>7. CASE UNCHANGED uwVars
  <2>1. UNCHANGED <<officeVars, attestation>>
        /\ UNCHANGED <<termVars, evidence_record>>
        /\ policy' = policy /\ now' = now
    BY <1>7 DEF uwVars, vars, clockVars, underwritingVars, officeVars, termVars
  <2> QED
    BY <2>1, TermsUndisturbed, OfficesUndisturbed DEF Quiet
<1> QED
  BY <1>1, <1>2, <1>3, <1>4, <1>5, <1>6, <1>7 DEF UnderwritingNext

LEMMA UnderwritingInvariance ==
  UnderwritingSpec => [](Inv /\ OfficeInv /\ TermInv)
<1>1. UnderwritingInit => Inv /\ OfficeInv /\ TermInv
  BY UnderwritingInitInv, InitInv DEF UnderwritingInit
<1>2. Inv /\ OfficeInv /\ TermInv /\ [UnderwritingNext]_uwVars
        => (Inv /\ OfficeInv /\ TermInv)'
  BY UnderwritingStepIsPoolStep, UnderwritingStepInv, StepInv
<1> QED  BY <1>1, <1>2, PTL DEF UnderwritingSpec

\* The pool that sells on attestations is a pool: all that is proved of Vault
\* holds of it, whoever is in office and whatever is attested.
THEOREM UnderwritingImplementsPool == UnderwritingSpec => Spec
<1>1. UnderwritingInit => Init  BY DEF UnderwritingInit
<1>2. Inv /\ OfficeInv /\ TermInv /\ [UnderwritingNext]_uwVars => [Next]_vars
  BY UnderwritingStepIsPoolStep
<1> QED
  BY <1>1, <1>2, UnderwritingInvariance, PTL DEF UnderwritingSpec, Spec

\* The accounts of underwriting keep their types; a policy has its agent from
\* the sale and an evidence record from the payout.
THEOREM UnderwritingTypeCorrect == UnderwritingSpec => []UnderwritingTypeOK
<1>1. OfficeInv /\ TermInv => UnderwritingTypeOK
  BY UnderwritingTyped DEF OfficeInv, TermInv
<1> QED  BY <1>1, UnderwritingInvariance, PTL

\* No proposal outlives the admin who made it.
THEOREM ProposalsByIncumbent == UnderwritingSpec => []ProposalByIncumbent
<1>1. OfficeInv => ProposalByIncumbent  BY DEF OfficeInv
<1> QED  BY <1>1, UnderwritingInvariance, PTL

\* An oracle-manipulation payout is measured by what was attested at the sale,
\* whatever is attested afterwards.
THEOREM PayoutsPricedAsSold == UnderwritingSpec => []PricedAsSold
<1>1. TermInv => PricedAsSold  BY DEF TermInv
<1> QED  BY <1>1, UnderwritingInvariance, PTL

-----------------------------------------------------------------------------
(* What a sale is made on. *)

\* Only a purchase opens a policy.
LEMMA OnlyPurchasesOpen ==
  ASSUME Inv, OfficeInv, [UnderwritingNext]_uwVars, NEW p \in Policies,
         policy[p].state = Unopened, policy'[p].state # Unopened
  PROVE  \E a \in Agents, c \in Coverages, d \in Durations, m \in Mandates :
           CreateAttested(a, c, d, m) /\ p = policy_counter
<1>1. ASSUME policy' = policy  PROVE FALSE  BY <1>1
<1>2. ASSUME \A q \in Policies : Quiet(q)  PROVE FALSE  BY <1>2 DEF Quiet
<1>3. CASE TimePasses
  BY <1>1, <1>3 DEF TimePasses, Tick
<1>4. CASE UnattestedStep
  <2>1. ASSUME NEW q \in Policies, NEW amount \in Payouts, PayOther(q, amount)
        PROVE  FALSE
    BY <1>2, <2>1, PayOtherQuiet
  <2>2. SharedStep \/ \E q \in Policies, amount \in Payouts : PayOther(q, amount)
    BY <1>4 DEF UnattestedStep, SharedStep
  <2> QED  BY <1>2, <2>1, <2>2, SharedStepQuiet
<1>5. CASE OfficeStep
  BY <1>1, <1>5
  DEF OfficeStep, ProposeAdmin, AcceptAdmin, CancelAdminTransfer, Configure,
      UpdateConfig, vars
<1>6. ASSUME NEW a \in Agents, Attest(a)  PROVE FALSE
  BY <1>1, <1>6 DEF Attest, UpsertAttestation, vars
<1>7. ASSUME NEW q \in Policies, SettlePrice(q)  PROVE FALSE
  <2>1. PICK amount \in Payouts : PayClaim(q, amount)
    BY <1>7 DEF SettlePrice, PayPrice, PriceProven
  <2>2. /\ policy[q].state = Pending
        /\ \A r \in Policies \ {q} : policy'[r] = policy[r]
    BY <2>1, PayClaimPays DEF PayClaim
  <2> QED  BY <2>2 DEF Pending, Unopened
<1>8. CASE UNCHANGED uwVars  BY <1>1, <1>8 DEF uwVars, vars
<1>9. ASSUME NEW a \in Agents, NEW c \in Coverages, NEW d \in Durations,
             NEW m \in Mandates, CreateAttested(a, c, d, m)
      PROVE  p = policy_counter
  <2> SUFFICES ASSUME NEW n, n = policy_counter, p # n  PROVE FALSE
    OBVIOUS
  <2>1. \A q \in Policies \ {n} : policy'[q] = policy[q]
    BY <1>9, PurchaseFacts, CreateTerms
  <2> QED  BY <2>1
<1> QED
  BY <1>3, <1>4, <1>5, <1>6, <1>7, <1>8, <1>9 DEF UnderwritingNext

\* What the premium is at least.
LEMMA PremiumCoversFlat ==
  ASSUME Inv, NEW tier \in Tiers, NEW c \in Coverages, NEW d \in Durations,
         NEW flat \in Nat
  PROVE  Premium(tier, c, d, flat) >= (flat * premium_multiplier_bps) \div BPS
<1> DEFINE annual == (c * PREMIUM_BPS[tier]) \div BPS
           tenor  == (annual * d) \div SECONDS_PER_YEAR
           scaled == ((tenor + flat) * premium_multiplier_bps) \div BPS
           least  == (flat * premium_multiplier_bps) \div BPS
<1>1. PREMIUM_BPS[tier] \in Nat /\ BPS \in Nat \ {0} /\ MIN_PREMIUM \in Nat
      /\ SECONDS_PER_YEAR \in Nat \ {0} /\ premium_multiplier_bps \in Nat
      /\ c \in Nat /\ d \in Nat
  BY VaultAssumption DEF Inv, TypeOK
<1>2. annual \in Nat  BY <1>1, DivNat, MulNat
<1>3. tenor \in Nat  BY <1>1, <1>2, DivNat, MulNat
<1>4. tenor + flat \in Nat /\ flat <= tenor + flat  BY <1>3
<1>5. flat * premium_multiplier_bps <= (tenor + flat) * premium_multiplier_bps
  BY <1>1, <1>4, MulMono
<1>6. /\ flat * premium_multiplier_bps \in Nat
      /\ (tenor + flat) * premium_multiplier_bps \in Nat
  BY <1>1, <1>4, MulNat
<1>7. least <= scaled  BY <1>1, <1>5, <1>6, DivMono
<1>8. least \in Nat /\ scaled \in Nat  BY <1>1, <1>6, DivNat
<1> HIDE DEF scaled, least
<1>9. Premium(tier, c, d, flat) = Greater(scaled, MIN_PREMIUM)
  BY DEF Premium, scaled
<1>10. Premium(tier, c, d, flat) >= least
  BY <1>1, <1>7, <1>8, <1>9 DEF Greater
<1> QED  BY <1>10 DEF least

LEMMA SaleStep ==
  ASSUME Inv, OfficeInv, TermInv, [UnderwritingNext]_uwVars,
         NEW p \in Policies, policy[p].state = Unopened,
         policy'[p].state # Unopened
  PROVE  /\ now - in_office[sold'[p].signer] <= MAX_ATTESTATION_VALIDITY
         /\ policy'[p].premium_paid >=
              (EnvelopePrice[mandate_hash'[p]] * premium_multiplier_bps)
                \div BPS
<1>1. PICK a \in Agents, c \in Coverages, d \in Durations, m \in Mandates :
        CreateAttested(a, c, d, m) /\ p = policy_counter
  BY OnlyPurchasesOpen
<1> DEFINE att == attestation[a]
<1>2. /\ att \in Attestation /\ att # NoAttestation
      /\ att.flat = EnvelopePrice[m] /\ att.tier \in Tiers
      /\ att.flat \in FlatPremiums
      /\ CreatePolicy(att.tier, c, d, att.flat)
  BY <1>1, PurchaseFacts
<1>3. /\ now <= att.expires_at
      /\ sold' = [sold EXCEPT ![p] = att]
      /\ mandate_hash' = [mandate_hash EXCEPT ![p] = m]
  BY <1>1 DEF CreateAttested
<1>4. sold'[p] = att /\ mandate_hash'[p] = m
  BY <1>3 DEF TermInv, TermsTyped
<1>5. now - in_office[att.signer] <= MAX_ATTESTATION_VALIDITY
  <2>1. /\ in_office[att.signer] >= att.issued_at /\ att.signer \in Keys
        /\ att.expires_at <= att.issued_at + MAX_ATTESTATION_VALIDITY
    BY <1>2 DEF OfficeInv, AttestedAtQuote
  <2>2. /\ in_office[att.signer] \in Nat /\ att.issued_at \in Nat
        /\ att.expires_at \in Nat /\ now \in Nat
    BY <1>2, <2>1 DEF OfficeInv, OfficesTyped, Attestation, Inv, TypeOK
  <2> HIDE DEF att
  <2> QED  BY <1>3, <2>1, <2>2, ConstantFacts
<1>6. policy'[p].premium_paid = Premium(att.tier, c, d, att.flat)
  <2>1. policy' = [policy EXCEPT ![p] =
           [state |-> Active, coverage_amount |-> c,
            premium_paid |-> Premium(att.tier, c, d, att.flat),
            start_time |-> now,
            expiry_time |-> now + d, claim_submitted_at |-> 0,
            trigger_type |-> "none", payout_amount |-> 0]]
    BY <1>1, <1>2 DEF CreatePolicy
  <2> QED  BY <2>1 DEF Inv, TypeOK
<1>7. att.flat \in Nat  BY <1>2, VaultAssumption
<1>8. Premium(att.tier, c, d, att.flat)
        >= (EnvelopePrice[m] * premium_multiplier_bps) \div BPS
  <2> HIDE DEF att
  <2> QED  BY <1>2, <1>7, PremiumCoversFlat
<1> QED  BY <1>4, <1>5, <1>6, <1>8

\* What a policy is sold on was signed by a key that was the oracle at most
\* one validity before, however the office has moved since.
THEOREM SoldByRecentOracles == UnderwritingSpec => SoldByRecentOracle
<1>1. Inv /\ OfficeInv /\ TermInv /\ [UnderwritingNext]_uwVars =>
        [\A p \in Policies :
           policy[p].state = Unopened /\ policy'[p].state # Unopened =>
             now - in_office[sold'[p].signer] <= MAX_ATTESTATION_VALIDITY]_uwVars
  BY SaleStep
<1> QED
  BY <1>1, UnderwritingInvariance, PTL
  DEF UnderwritingSpec, SoldByRecentOracle

\* No envelope is sold below its quoted price.
THEOREM EnvelopesPaidFor == UnderwritingSpec => EnvelopePaidFor
<1>1. Inv /\ OfficeInv /\ TermInv /\ [UnderwritingNext]_uwVars =>
        [\A p \in Policies :
           policy[p].state = Unopened /\ policy'[p].state # Unopened =>
             policy'[p].premium_paid >=
               (EnvelopePrice[mandate_hash'[p]] * premium_multiplier_bps)
                 \div BPS]_uwVars
  BY SaleStep
<1> QED
  BY <1>1, UnderwritingInvariance, PTL
  DEF UnderwritingSpec, EnvelopePaidFor
=============================================================================
