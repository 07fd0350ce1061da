---------------------------- MODULE PriceReview -----------------------------
(***************************************************************************)
(* An oracle-manipulation claim and its verification passes                *)
(* (claim-keeper.ts, processClaim; verifiers/oracle-manipulation.ts): a    *)
(* pass asks the price sources leg by leg and moment by moment, and any of *)
(* them may be down, silent, late or wrong at each.  What is approved is   *)
(* settled by verify_and_payout_v2 against the price the guardians signed. *)
(*                                                                         *)
(* Underwriting models the terms, the posted update and the lock of that   *)
(* instruction; here it is the last comparison a verdict has to survive.   *)
(***************************************************************************)
EXTENDS PriceVerdict

CONSTANTS
  Incidents,             \* the trades a claim may be about, with their market
  Asked(_, _, _),        \* the answers the sources may give: incident, token, moment
  ProofEnabled,          \* ORACLE_PROOF_ENABLED
  NOISE,                 \* what an honest source may be off by, and say it may,
                         \* in thousandths
  MAX_VERIFY_ATTEMPTS

\* The market as it was: truth prices every token at the trade and at every
\* moment sampled; poisoned sources answer what they like; covered is the
\* token and cap the largest quantity of the terms the policy was sold on.
Incident ==
  [trade: Trade, truth: [0..Offsets -> [Tokens -> Nat \ {0}]],
   poisoned: SUBSET Sources, covered: Tokens, cap: Nat]

Honest(incident, token, moment, answer) ==
  answer.kind = "point" =>
    LET truth == incident.truth[moment][token]
    IN /\ 1000 * Apart(answer.value, truth) <= NOISE * truth
       /\ 1000 * answer.conf <= NOISE * truth

ASSUME ReviewAssumption ==
  /\ Incidents \subseteq Incident
  /\ \A i \in Incidents, t \in Tokens, m \in 0..Offsets :
       /\ Asked(i, t, m) \subseteq Answers
       /\ \A answers \in Asked(i, t, m) :
            /\ \A s \in Sources \ i.poisoned : Honest(i, t, m, answers[s])
            /\ \A s \in Sources \ {Pyth} :
                 answers[s].kind = "point" => ~answers[s].signed
  /\ ProofEnabled \in BOOLEAN
  /\ NOISE \in 0..3 /\ MAX_VERIFY_ATTEMPTS \in Nat \ {0}

VARIABLES
  incident,   \* what happened
  claim,      \* the row
  pass        \* the evidence of the pass under way, or Idle

priceVars == <<incident, claim, pass>>

Idle == [next |-> 0]

Open    == {"pending", "indeterminate"}
Settled == {"approved", "paid", "failed"}
Decided == Settled \cup {"rejected", "review"}

trade == incident.trade

Running  == pass # Idle
Pricing  == Running /\ pass.next <= Len(Legs(trade))
Sampling == /\ Running /\ ~Pricing
            /\ HasSubject(pass) /\ pass.sold > 0 /\ pass.sampled < Offsets
Gathered == Running /\ ~Pricing /\ ~Sampling

-----------------------------------------------------------------------------
(* How a pass ends. *)

Park(reason) ==
  /\ claim' = [claim EXCEPT
       !.status = IF claim.attempts + 1 >= MAX_VERIFY_ATTEMPTS
                  THEN "review" ELSE "indeterminate",
       !.reason = reason, !.attempts = @ + 1]
  /\ pass' = Idle

Reject(reason) ==
  /\ claim' = [claim EXCEPT !.status = "rejected", !.reason = reason]
  /\ pass' = Idle

\* buildProofInputs: the subject's implied price, quantity and signed price.
Proof ==
  [token    |-> Legs(trade)[pass.subject.leg].token,
   executed |-> OtherSide(pass) \div pass.subject.amount,
   quantity |-> pass.subject.amount,
   signed   |-> pass.subject.signed]

NoProof == [token |-> "none", executed |-> 0, quantity |-> 0, signed |-> 0]

Provable == HasSubject(pass) /\ pass.subject.signed > 0

\* planProvenSettlement on the evidence of this pass; hash says its bundle
\* could be recorded.
Plannable(hash) == ProofEnabled /\ Provable /\ hash

Confirm(verdict) == \E hash \in BOOLEAN :
  /\ claim' =
       IF verdict.confidence >= REVIEW_CONFIDENCE /\ Plannable(hash)
       THEN [claim EXCEPT
              !.status = "approved", !.reason = verdict.reason,
              !.attempts = @ + 1, !.loss = verdict.loss,
              !.confidence = verdict.confidence, !.proof = Proof,
              !.sources = pass.sources, !.sampled = Len(pass.series)]
       ELSE [claim EXCEPT !.status = "review", !.reason = "lane"]
  /\ pass' = Idle

-----------------------------------------------------------------------------
(* The steps of a pass, one per answer it waits for. *)

\* The transaction is read: its programs, its shape and its block time, which
\* the indexer and the RPC may give differently or not at all.
Begin ==
  /\ claim.status \in Open /\ ~Running
  /\ UNCHANGED incident
  /\ IF ~trade.dex
     THEN IF trade.lending THEN Park("lending_oracle_exposure")
          ELSE Reject("no_dex_interaction")
     ELSE IF Unsupported(trade) THEN Park("unsupported_swap_shape")
     ELSE IF ~Comparable(trade) THEN Reject("incomplete_swap")
     ELSE \/ Park("no_block_time")
          \/ \E late \in BOOLEAN : pass' = Fresh(late) /\ UNCHANGED claim

\* Mutated form: what cannot be valued is denied.
ValuationFailedDenied == Reject("not_priced")

\* A leg that cannot be valued proves nothing, for the claim or against it.
ValuationFailed == Park("not_priced")

\* valueLegs for one leg.  A token without a feed is not asked for.
PriceLeg ==
  /\ Pricing
  /\ UNCHANGED incident
  /\ LET token == Legs(trade)[pass.next].token
     IN IF Fed(token)
        THEN \E answers \in Asked(incident, token, 0) :
               LET w == Window(answers)
               IN IF Unavailable(answers) THEN Park("price_source_unavailable")
                  ELSE IF ~Valued(token, w) THEN ValuationFailed
                  ELSE pass' = WithLeg(pass, trade, w) /\ UNCHANGED claim
        ELSE IF ~Valued(token, NoWindow) THEN ValuationFailed
             ELSE pass' = WithLeg(pass, trade, NoWindow) /\ UNCHANGED claim

\* sampleReference for one moment; a source that is down thins the sample.
Sample ==
  /\ Sampling
  /\ \E answers \in Asked(incident, Legs(trade)[pass.subject.leg].token,
                          pass.sampled + 1) :
       pass' = WithSample(pass, Window(answers))
  /\ UNCHANGED <<incident, claim>>

\* raw: the transaction's own balances could be read; block: the slot's block.
Decide ==
  /\ Gathered
  /\ UNCHANGED incident
  /\ \E raw, block \in BOOLEAN :
       LET verdict == AdjudicatePrice(pass, trade, raw, block)
       IN \/ /\ verdict.outcome = "indeterminate"
             /\ Park(verdict.reason)
          \/ /\ verdict.outcome = "rejected"
             /\ Reject(verdict.reason)
          \/ /\ verdict.outcome = "confirmed"
             /\ Confirm(verdict)

\* verify_and_payout_v2: the claim is about the market the policy was sold on,
\* and the price the guardians signed supports the amount.
SupportedBySignature(proof, amount) ==
  LET delta == Apart(proof.executed, proof.signed)
  IN /\ proof.token = incident.covered /\ proof.quantity <= incident.cap
     /\ proof.executed > 0
     /\ 10000 * delta >= 50 * proof.signed
     /\ amount <= delta * proof.quantity

Settle ==
  /\ claim.status = "approved"
  /\ claim' = [claim EXCEPT !.status =
       IF SupportedBySignature(claim.proof, claim.loss) THEN "paid" ELSE "failed"]
  /\ UNCHANGED <<incident, pass>>

Filed ==
  [status |-> "pending", reason |-> "filed", attempts |-> 0, loss |-> 0,
   confidence |-> 0, proof |-> NoProof, sources |-> 0, sampled |-> 0]

PriceInit ==
  /\ incident \in Incidents
  /\ claim = Filed
  /\ pass = Idle

PriceNext == Begin \/ PriceLeg \/ Sample \/ Decide \/ Settle

PriceSpec == PriceInit /\ [][PriceNext]_priceVars

-----------------------------------------------------------------------------
(* Properties. *)

Subjects ==
  [amount: Nat, price: Nat, conf: Nat, value: Nat, spread: Nat,
   sold: BOOLEAN, signed: Nat, leg: Nat]
Samples == [price: Nat \ {0}, spread: Nat, conf: Nat]
Passes ==
  [next: Nat, sold: Nat, bought: Nat, conf: Nat, subject: Subjects,
   priced: BOOLEAN, sources: Nat, spread: Nat, skew: Nat, unsigned: BOOLEAN,
   par: BOOLEAN, late: BOOLEAN, series: Seq(Samples), sampled: Nat]

\* The row holds a status, a loss no larger than the coverage and a confidence
\* no higher than the ceiling, and a pass accumulates totals of its kind.
PriceTypeOK ==
  /\ incident \in Incidents
  /\ claim.status \in Open \cup Decided
  /\ claim.attempts \in 0..MAX_VERIFY_ATTEMPTS
  /\ claim.loss \in 0..Coverage
  /\ claim.confidence \in 0..CONFIDENCE_CEILING
  /\ pass \in Passes \cup {Idle}

\* "A huge deviation from one lonely feed should not outrank a modest one":
\* nothing is set aside for payment on a price only one source gave, nor when
\* the reference could not be followed around the trade, nor without a signed
\* price to settle against.
PaidIsCorroborated ==
  claim.status \in Settled =>
    /\ claim.sources >= 2 /\ claim.sampled >= 2
    /\ claim.proof.signed > 0
    /\ claim.confidence \in REVIEW_CONFIDENCE..CONFIDENCE_CEILING
    /\ claim.loss \in MIN_PAYABLE_LOSS..Coverage

\* What the first n legs are worth at a price for each token.
Worth(legs, price, n) ==
  LET worth[k \in 0..Len(legs)] ==
        IF k = 0 THEN 0
        ELSE worth[k - 1] + legs[k].amount * price[legs[k].token]
  IN worth[n]

\* The trade at the prices of the market.
TrueSold      == Worth(trade.sold, incident.truth[0], Len(trade.sold))
TrueBought    == Worth(trade.bought, incident.truth[0], Len(trade.bought))
TrueShortfall == TrueSold - TrueBought

\* One poisoned source, or two where every leg needs three.
FewPoisoned ==
  \/ Cardinality(incident.poisoned) <= 1
  \/ /\ Cardinality(incident.poisoned) <= 2
     /\ \A k \in DOMAIN Legs(trade) : ~Stable(Legs(trade)[k].token)

\* The stables of the trade were worth a dollar, give or take the half a per cent
\* of uncertainty that one valued at par carries.
Pegged ==
  \A k \in DOMAIN Legs(trade) :
    LET token == Legs(trade)[k].token
    IN Stable(token) => 200 * Apart(incident.truth[0][token], UNIT) <= UNIT

\* "The reference price never comes from a single source": while few sources
\* are poisoned and the stables hold, no fair fill is approved whatever they
\* answer, and what is approved overstates the loss by no more than references
\* that agree may differ, and an honest one may be off.
FairFillNeverPaid ==
  claim.status \in Settled /\ FewPoisoned /\ Pegged =>
    /\ 1000 * TrueShortfall > 3 * TrueSold
    /\ 1000 * (claim.loss - TrueShortfall) <= 24 * (TrueSold + TrueBought)

\* The token's market did not move about the trade.
StoodStill(token) ==
  \A m \in 0..Offsets : incident.truth[m][token] = incident.truth[0][token]

\* A fill far worse than a market which did not move, by an order too small to
\* have moved the venue.
Misfill ==
  /\ trade.dex /\ Comparable(trade) /\ trade.depth < DOMINANT_DEPTH_SHARE
  /\ \A k \in DOMAIN Legs(trade) : StoodStill(Legs(trade)[k].token)
  /\ 100 * TrueShortfall >= 6 * TrueSold
  /\ TrueShortfall >= 2 * MIN_PAYABLE_LOSS

\* "The claim goes indeterminate, retries, and is never rejected": sources
\* that are down, silent or late deny no claim of such a fill.
SilenceNeverDenies ==
  claim.status = "rejected" /\ incident.poisoned = {} /\ Pegged => ~Misfill
=============================================================================
