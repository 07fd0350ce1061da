---------------------------- MODULE Underwriting ----------------------------
(***************************************************************************)
(* What a policy is sold on, and who decides it: the admin and the oracle  *)
(* key of ProtocolConfig with the two-step handover of the first, the      *)
(* attestation the oracle signs for an agent, the price terms a purchase   *)
(* copies from it, and the settlement of an oracle-manipulation claim      *)
(* against a guardian-signed price.  Composed with the pool of Vault.      *)
(*                                                                         *)
(* The market is what the Pyth guardians sign: one price per feed and      *)
(* second.  An update that fewer of them signed may say anything.          *)
(***************************************************************************)
EXTENDS Vault

CONSTANTS
  Keys,                        \* keys that may hold an office
  Agents,                      \* insured agents
  AttestedTiers,               \* tiers the oracle attests
  NoKey, NoAgent, NoFeed, NoMandate,
  ORACLE_MANIPULATION,         \* the claim kind settled here
  Feeds,                       \* Pyth feeds
  Market,                      \* Market[f][t]: the price of f the quorum signed at t
  Prices,                      \* prices an update or an execution may name
  Decimals, Scale,             \* Scale[d]: quantity units times price units per USDC unit
  Quantities,
  Mandates,                    \* envelopes a holder may declare
  EnvelopePrice,               \* EnvelopePrice[m]: what the quote charges for m
  Validities,                  \* lifetimes the oracle may ask for
  MAX_ATTESTATION_VALIDITY,
  MAX_PRICE_EVIDENCE_SKEW, MAX_CLAIM_EVIDENCE_LAG,
  MIN_PROVABLE_DEVIATION_BPS

ASSUME UnderwritingAssumption ==
  /\ ORACLE_MANIPULATION \in Triggers
  /\ Keys # {}
  /\ AttestedTiers \subseteq Tiers
  /\ NoKey \notin Keys /\ NoFeed \notin Feeds
  /\ NoMandate \notin Mandates /\ NoAgent \notin Agents
  /\ Market \in [Feeds -> [1..Horizon -> Nat \ {0}]]
  /\ Prices \subseteq Nat \ {0}
  /\ 0 \in Decimals /\ Scale \in [Decimals -> Nat \ {0}]
  /\ Quantities \subseteq Nat
  /\ EnvelopePrice \in [Mandates -> FlatPremiums]
  /\ Validities \subseteq Nat
  /\ MAX_ATTESTATION_VALIDITY \in Nat
  /\ MAX_PRICE_EVIDENCE_SKEW \in Nat /\ MAX_CLAIM_EVIDENCE_LAG \in Nat
  /\ MIN_PROVABLE_DEVIATION_BPS \in Nat

VARIABLES
  admin, oracle_authority,     \* ProtocolConfig
  pending_admin,               \* the PendingAdminTransfer account
  attestation,                 \* attestation[a]: the RiskAttestation of a
  agent,                       \* agent[p]: the agent p covers
  mandate_hash,                \* mandate_hash[p]: the envelope declared for p
  price_terms,                 \* price_terms[p]: the PolicyPriceTerms of p
  evidence_record,             \* evidence_record[p]: the ClaimEvidenceRecord of p
  \* History, which no instruction reads
  in_office,                   \* in_office[k]: last second k was the oracle
  sold                         \* sold[p]: the attestation p was bought against

officeVars == <<admin, oracle_authority, pending_admin, in_office>>
termVars   == <<agent, mandate_hash, price_terms, sold>>
underwritingVars ==
  <<admin, oracle_authority, pending_admin, in_office, attestation, agent,
    mandate_hash, price_terms, sold, evidence_record>>
uwVars == <<vars, underwritingVars>>

PriceTerms == [feed: Feeds \cup {NoFeed}, decimals: Decimals, max_quantity: Nat]
NoTerms == [feed |-> NoFeed, decimals |-> 0, max_quantity |-> 0]

Proposal == [proposed: Keys \cup {NoKey}, by: Keys \cup {NoKey}]
NoProposal == [proposed |-> NoKey, by |-> NoKey]

\* The signer is checked by the program and not stored: history.
Attestation ==
  [tier: Tiers, issued_at: Nat, expires_at: Nat,
   mandate: Mandates \cup {NoMandate}, flat: Nat, terms: PriceTerms,
   signer: Keys \cup {NoKey}]
NoAttestation ==
  [tier |-> LOW, issued_at |-> 0, expires_at |-> 0, mandate |-> NoMandate,
   flat |-> 0, terms |-> NoTerms, signer |-> NoKey]

EvidenceRecord ==
  [feed: Feeds \cup {NoFeed}, reference: Nat, executed: Nat, quantity: Nat,
   publish_time: Nat, trigger_time: Nat]
NoRecord ==
  [feed |-> NoFeed, reference |-> 0, executed |-> 0, quantity |-> 0,
   publish_time |-> 0, trigger_time |-> 0]

UnderwritingInit ==
  /\ Init
  /\ admin \in Keys /\ oracle_authority \in Keys
  /\ pending_admin = NoProposal
  /\ in_office = [k \in Keys |-> IF k = oracle_authority THEN now ELSE 0]
  /\ attestation = [a \in Agents |-> NoAttestation]
  /\ agent = [p \in Policies |-> NoAgent]
  /\ mandate_hash = [p \in Policies |-> NoMandate]
  /\ price_terms = [p \in Policies |-> NoTerms]
  /\ sold = [p \in Policies |-> NoAttestation]
  /\ evidence_record = [p \in Policies |-> NoRecord]

-----------------------------------------------------------------------------
(* Offices: admin_transfer.rs and update_config.rs.  An instruction that asks  *)
(* for the admin's or the oracle's signature is taken by the key in office.   *)

\* Re-proposing overwrites whatever is pending.
ProposeAdmin(new_admin) ==
  /\ new_admin # admin
  /\ pending_admin' = [proposed |-> new_admin, by |-> admin]
  /\ UNCHANGED <<vars, admin, oracle_authority, in_office, attestation,
                 termVars, evidence_record>>

\* Accepting closes the proposal.
ProposalAccepted == NoProposal

AcceptAdmin(k) ==
  /\ k = pending_admin.proposed
  /\ admin' = k
  /\ pending_admin' = ProposalAccepted
  /\ UNCHANGED <<vars, oracle_authority, in_office, attestation, termVars,
                 evidence_record>>

CancelAdminTransfer ==
  /\ pending_admin # NoProposal
  /\ pending_admin' = NoProposal
  /\ UNCHANGED <<vars, admin, oracle_authority, in_office, attestation,
                 termVars, evidence_record>>

\* A field the caller leaves out keeps its value.
Configure(new_oracle, new_paused, new_multiplier) ==
  /\ UpdateConfig(new_paused, new_multiplier)
  /\ oracle_authority' = new_oracle
  /\ in_office' = [in_office EXCEPT ![new_oracle] = now]
  /\ UNCHANGED <<admin, pending_admin, attestation, termVars, evidence_record>>

-----------------------------------------------------------------------------
(* Attestations and purchases. *)

\* AttestedPriceTerms::validate: all of it or none of it.
ValidTerms(t) == t = NoTerms \/ (t.feed # NoFeed /\ t.max_quantity > 0)

\* Slip: any lifetime is accepted.
ValidityAnyLength(seconds) == seconds > 0

Validity(seconds) == seconds \in 1..MAX_ATTESTATION_VALIDITY

\* What the oracle attests for an envelope is its quoted price.
UpsertAttestation(a, tier, seconds, m, terms) ==
  /\ ValidTerms(terms)
  /\ Validity(seconds)
  /\ attestation' = [attestation EXCEPT ![a] =
       [tier |-> tier, issued_at |-> now, expires_at |-> now + seconds,
        mandate |-> m, flat |-> EnvelopePrice[m], terms |-> terms,
        signer |-> oracle_authority]]
  /\ UNCHANGED <<vars, officeVars, termVars, evidence_record>>

\* The envelope declared is the envelope that was priced.
\* Slip: any envelope the account satisfies.
EnvelopeMatchesAny(a, m) == attestation[a].mandate # NoMandate

EnvelopeMatches(a, m) == attestation[a].mandate = m

\* The policy account names the agent.  Slip: filed under the next number.
CoversNext(p, a) == [agent EXCEPT ![p + 1] = a]

CoversAgent(p, a) == [agent EXCEPT ![p] = a]

CreateAttested(a, coverage, duration, m) ==
  LET p   == policy_counter
      att == attestation[a]
  IN /\ now <= att.expires_at
     /\ EnvelopeMatches(a, m)
     /\ CreatePolicy(att.tier, coverage, duration, att.flat)
     /\ agent' = CoversAgent(p, a)
     /\ mandate_hash' = [mandate_hash EXCEPT ![p] = m]
     /\ price_terms' = [price_terms EXCEPT ![p] = att.terms]
     /\ sold' = [sold EXCEPT ![p] = att]
     /\ UNCHANGED <<officeVars, attestation, evidence_record>>

-----------------------------------------------------------------------------
(* verify_and_payout_v2. *)

Distance(a, b) == IF a >= b THEN a - b ELSE b - a

DeviationBps(executed, reference) ==
  (Distance(executed, reference) * BPS) \div reference

\* What a deviation from the signed price can have cost.
MaxProvableLoss(executed, reference, quantity, scale) ==
  (Distance(executed, reference) * quantity) \div scale

\* PriceUpdateV2 accounts the receiver program may have written by now.
PriceUpdates ==
  [feed: Feeds, publish_time: 1..now, price: Prices, full: BOOLEAN]

\* Only the quorum's signature vouches for the price.
Posted(u) == u.full => u.price = Market[u.feed][u.publish_time]

\* The terms fixed at the purchase.  Slip: those the oracle attests now.
TermsOfPolicyNow(p) == attestation[agent[p]].terms

TermsOfPolicy(p) == price_terms[p]

\* The evidence is of the feed sold, of its quantity and of a second of the
\* cover, and the quorum signed its price.
PriceProven(p, u, quantity, at) ==
  LET terms    == TermsOfPolicy(p)
      claim_at == policy[p].claim_submitted_at
  IN /\ policy[p].trigger_type = ORACLE_MANIPULATION
     /\ terms.feed # NoFeed
     /\ quantity \in 1..terms.max_quantity
     /\ Posted(u)
     /\ u.full
     /\ u.feed = terms.feed
     /\ Distance(u.publish_time, at) <= MAX_PRICE_EVIDENCE_SKEW
     /\ at \in policy[p].start_time..claim_at
     /\ claim_at - at <= MAX_CLAIM_EVIDENCE_LAG

\* The execution was far from it, and no more than that can have cost is paid.
PayPrice(p, amount, u, executed, quantity, at) ==
  /\ PriceProven(p, u, quantity, at)
  /\ DeviationBps(executed, u.price) >= MIN_PROVABLE_DEVIATION_BPS
  /\ amount <= MaxProvableLoss(executed, u.price, quantity,
                               Scale[TermsOfPolicy(p).decimals])
  /\ PayClaim(p, amount)
  /\ evidence_record' = [evidence_record EXCEPT ![p] =
       [feed |-> u.feed, reference |-> u.price, executed |-> executed,
        quantity |-> quantity, publish_time |-> u.publish_time,
        trigger_time |-> at]]
  /\ UNCHANGED <<officeVars, attestation, termVars>>

-----------------------------------------------------------------------------
\* The oracle in office stays in office while time passes.
TimePasses ==
  /\ Tick
  /\ in_office' = [in_office EXCEPT ![oracle_authority] = now + 1]
  /\ UNCHANGED <<admin, oracle_authority, pending_admin, attestation, termVars,
                 evidence_record>>

\* Claims of other kinds are settled by the other instructions.
PayOther(p, amount) ==
  /\ policy[p].trigger_type # ORACLE_MANIPULATION
  /\ PayClaim(p, amount)

UnattestedStep ==
  /\ \/ \E s \in Stakers : StakerStep(s)
     \/ \E p \in Policies :
          \/ CancelPolicy(p)
          \/ ExpirePolicy(p)
          \/ \E t \in Triggers : SubmitClaim(p, t) \/ OracleSubmitClaim(p, t)
          \/ \E amount \in Payouts : PayOther(p, amount)
  /\ UNCHANGED underwritingVars

\* Bound: offices move while a policy may be sold, attestations while one may
\* be sold or settled.
Selling == policy_counter < MaxPolicies
Business == Selling \/ \E p \in Policies : Live(p)

OfficeStep ==
  \/ \E k \in Keys : ProposeAdmin(k) \/ AcceptAdmin(k)
  \/ CancelAdminTransfer
  \/ \E k \in Keys, b \in BOOLEAN, m \in Multipliers : Configure(k, b, m)

Attest(a) ==
  \E tier \in AttestedTiers, seconds \in Validities, m \in Mandates,
     f \in Feeds \cup {NoFeed}, d \in Decimals, q \in Quantities \cup {0} :
    UpsertAttestation(a, tier, seconds, m,
                      [feed |-> f, decimals |-> d, max_quantity |-> q])

SettlePrice(p) ==
  \E amount \in Payouts, u \in PriceUpdates, executed \in Prices,
     quantity \in Quantities, at \in 1..now :
    PayPrice(p, amount, u, executed, quantity, at)

UnderwritingNext ==
  \/ TimePasses
  \/ UnattestedStep
  \/ Selling /\ OfficeStep
  \/ Business /\ \E a \in Agents : Attest(a)
  \/ \E p \in Policies : SettlePrice(p)
  \/ \E a \in Agents, c \in Coverages, d \in Durations, m \in Mandates :
       CreateAttested(a, c, d, m)

UnderwritingSpec == UnderwritingInit /\ [][UnderwritingNext]_uwVars

-----------------------------------------------------------------------------
(***************************************************************************)
(* Properties.                                                             *)
(***************************************************************************)
\* Offices are held by keys; a policy carries terms once it is opened, and an
\* evidence record only once it is paid.
UnderwritingTypeOK ==
  /\ admin \in Keys /\ oracle_authority \in Keys
  /\ pending_admin \in Proposal
  /\ in_office \in [Keys -> Nat]
  /\ attestation \in [Agents -> Attestation]
  /\ agent \in [Policies -> Agents \cup {NoAgent}]
  /\ mandate_hash \in [Policies -> Mandates \cup {NoMandate}]
  /\ price_terms \in [Policies -> PriceTerms]
  /\ sold \in [Policies -> Attestation]
  /\ evidence_record \in [Policies -> EvidenceRecord]
  /\ \A p \in Policies :
       /\ policy[p].state # Unopened => agent[p] \in Agents
       /\ policy[p].state # Paid => evidence_record[p] = NoRecord

\* A proposal that can be accepted was made by the admin now in office: none
\* outlives a handover, so a retired admin cannot decide who comes next
\* (admin_transfer.rs 10-22).
ProposalByIncumbent ==
  pending_admin # NoProposal => pending_admin.by = admin

\* A policy is sold on the word of a key that was the oracle at most one
\* validity ago: rotating the oracle key bounds how long what the old one
\* signed is good for (update_config.rs 35, upsert_attestation.rs 44-52).
SoldByRecentOracle ==
  [][ \A p \in Policies :
        policy[p].state = Unopened /\ policy'[p].state # Unopened =>
          now - in_office[sold'[p].signer] <= MAX_ATTESTATION_VALIDITY ]_uwVars

\* The premium charged is never below the quoted price of the envelope the
\* policy ends up with, at the multiplier of the day: neither a refresh of the
\* attestation between quote and purchase nor the choice of another envelope
\* buys one at the price of another (create_policy.rs 85-97).
EnvelopePaidFor ==
  [][ \A p \in Policies :
        policy[p].state = Unopened /\ policy'[p].state # Unopened =>
          policy'[p].premium_paid >=
            (EnvelopePrice[mandate_hash'[p]] * premium_multiplier_bps) \div BPS
    ]_uwVars

\* What an oracle-manipulation payout is measured from: the price the quorum
\* signed for the feed attested when the policy was sold, next to a second of
\* the cover, times no more than the quantity attested then.  Attestations
\* and oracles that came later do not matter (price_terms.rs 6-24).
PricedAsSold ==
  \A p \in Policies :
    policy[p].state = Paid /\ policy[p].trigger_type = ORACLE_MANIPULATION =>
      LET terms == sold[p].terms
          r     == evidence_record[p]
      IN /\ terms.feed # NoFeed
         /\ r.feed = terms.feed
         /\ r.reference = Market[terms.feed][r.publish_time]
         /\ r.publish_time \in
              policy[p].start_time - MAX_PRICE_EVIDENCE_SKEW
                ..policy[p].claim_submitted_at + MAX_PRICE_EVIDENCE_SKEW
         /\ policy[p].payout_amount * Scale[terms.decimals]
              <= Distance(r.executed, r.reference) * terms.max_quantity
=============================================================================
