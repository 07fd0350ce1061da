---------------------------- MODULE PriceVerdict ----------------------------
(***************************************************************************)
(* The oracle-manipulation verdict (verifiers/oracle-manipulation.ts,      *)
(* oracle/signatures.ts, oracle/adjudicate.ts).  A pass values the legs of *)
(* the trade one after another, samples the subject's price around it, and *)
(* compares what was handed over with what came back.                      *)
(*                                                                         *)
(* Values are amounts times price units; shares of a threshold are rounded *)
(* up, so that comparing integers compares the shares exactly.             *)
(***************************************************************************)
EXTENDS PriceConsensus, Sequences

CONSTANTS
  Coverage,            \* coverage of the policy
  MIN_PAYABLE_LOSS,    \* MIN_PAYABLE_LOSS_RAW
  Offsets              \* number of moments around the trade that are sampled

ASSUME VerdictAssumption ==
  /\ MIN_PAYABLE_LOSS \in Nat \ {0}
  /\ Coverage \in Nat /\ Coverage >= MIN_PAYABLE_LOSS
  /\ Offsets \in Nat \ {0}

\* Confidence in ten-thousandths (confidence-lanes.ts).
CONFIDENCE_CEILING == 9200
REVIEW_CONFIDENCE  == 7500

DOMINANT_DEPTH_SHARE == 50   \* percent of the venue's reserve
DEPTH_SHARE_FLOOR    == 10

\* One leg of the trade, and the trade the claim is about.  depth is the share
\* of the venue's reserve the order took, in percent.
Delta == [token: Tokens, amount: Nat \ {0}]
Trade ==
  [sold: Seq(Delta), bought: Seq(Delta), dex: BOOLEAN, lending: BOOLEAN,
   flash: BOOLEAN, sandwich: BOOLEAN, orderbook: BOOLEAN, depth: 0..100]

Legs(trade)        == trade.sold \o trade.bought
IsSold(trade, k)   == k <= Len(trade.sold)
Comparable(trade)  == /\ Len(trade.sold) > 0 /\ Len(trade.bought) > 0
                      /\ Len(trade.sold) = 1 \/ Len(trade.bought) = 1
Unsupported(trade) == Len(trade.sold) > 1 /\ Len(trade.bought) > 1

-----------------------------------------------------------------------------
(* The evidence of a pass, gathered leg by leg. *)

NoSubject == [amount |-> 0, price |-> 0, conf |-> 0, value |-> 0,
              spread |-> 0, sold |-> FALSE, signed |-> 0, leg |-> 0]

\* What valueLegs has established so far: totals, the weakest window, and the
\* largest leg with a price of its own.
Fresh(late) ==
  [next |-> 1, sold |-> 0, bought |-> 0, conf |-> 0, subject |-> NoSubject,
   priced |-> FALSE, sources |-> 0, spread |-> 0, skew |-> 0,
   unsigned |-> FALSE, par |-> FALSE, late |-> late, series |-> <<>>,
   sampled |-> 0]

\* The window joins the bundle whether or not the leg is then valued at par.
\* Bound of the model: one feed for each token.  Legs are net per mint, so two
\* legs meet on a feed only where two mints share it; of their windows the
\* bundle keeps the later one, and this keeps the weaker of the two.
WithWindow(pass, w) ==
  IF w.count = 0 THEN pass
  ELSE [pass EXCEPT
         !.priced   = TRUE,
         !.sources  = IF pass.priced THEN Smaller(@, w.count) ELSE w.count,
         !.spread   = Larger(@, Dispersion(w)),
         !.skew     = Larger(@, w.skew),
         !.unsigned = @ \/ w.unsigned]

\* pickSubjectLeg: the largest leg not at par, the earlier of equals.
Subject(pass, trade, w) ==
  LET leg   == Legs(trade)[pass.next]
      value == leg.amount * LegPrice(leg.token, w)
  IN IF AtPar(leg.token, w) \/ value <= pass.subject.value
     THEN pass.subject
     ELSE [amount |-> leg.amount, price |-> w.price, conf |-> w.conf,
           value |-> value, spread |-> Dispersion(w),
           sold |-> IsSold(trade, pass.next), signed |-> w.signed,
           leg |-> pass.next]

WithLeg(pass, trade, w) ==
  LET leg   == Legs(trade)[pass.next]
      value == leg.amount * LegPrice(leg.token, w)
  IN [WithWindow(pass, w) EXCEPT
        !.next    = @ + 1,
        !.sold    = IF IsSold(trade, pass.next) THEN @ + value ELSE @,
        !.bought  = IF IsSold(trade, pass.next) THEN @ ELSE @ + value,
        !.conf    = @ + leg.amount * LegConf(leg.token, w),
        !.par     = @ \/ AtPar(leg.token, w),
        !.subject = Subject(pass, trade, w)]

\* A moment nothing answered for thins the series and is not an error.
WithSample(pass, w) ==
  [pass EXCEPT
     !.sampled = @ + 1,
     !.series  = IF w.count = 0 THEN @
                 ELSE Append(@, [price |-> w.price, spread |-> Dispersion(w),
                                 conf |-> (10000 * w.conf) \div w.price])]

HasSubject(pass) == pass.subject.leg # 0

-----------------------------------------------------------------------------
(* What the fill looks like beside the reference (signatures.ts). *)

Sampled(pass) == Len(pass.series) >= 2

SeriesPrice(pass) == [k \in DOMAIN pass.series |-> pass.series[k].price]

\* The other side of the trade, which the subject's implied price comes from.
OtherSide(pass) == IF pass.subject.sold THEN pass.bought ELSE pass.sold

Apart(a, b) == IF a >= b THEN a - b ELSE b - a

\* The reference travelled less than half as far as the fill.
ReferenceHeld(pass) ==
  LET all    == DOMAIN pass.series \cup {0}
      prices == [k \in all |-> IF k = 0 THEN pass.subject.price
                               ELSE pass.series[k].price]
      low    == Lowest(prices, all)
      travel == Highest(prices, all) - low
      gap    == Apart(OtherSide(pass), pass.subject.value)
  IN gap > 0 /\ 2 * travel * pass.subject.value < gap * low

Usual(pass, field) ==
  Median([k \in DOMAIN pass.series |-> pass.series[k][field]], DOMAIN pass.series)

DispersionSpike(pass) ==
  LET usual == Usual(pass, "spread")
  IN IF usual > 0 THEN pass.subject.spread > 3 * usual
     ELSE pass.subject.spread > 50

ConfBlowout(pass) ==
  LET usual == Usual(pass, "conf")
  IN usual > 0 /\ (10000 * pass.subject.conf) \div pass.subject.price > 3 * usual

Weight == [flash_loan |-> 30, reference_held |-> 40, dispersion_spike |-> 20,
           conf_blowout |-> 15, sandwich |-> 35]

\* The shapes an attack would leave that this pass saw; block says the slot's
\* block could be fetched.
Present(pass, trade, block) ==
  (IF trade.flash THEN {"flash_loan"} ELSE {}) \cup
  (IF block /\ trade.sandwich THEN {"sandwich"} ELSE {}) \cup
  (IF ~Sampled(pass) THEN {}
   ELSE (IF ReferenceHeld(pass) THEN {"reference_held"} ELSE {}) \cup
        (IF DispersionSpike(pass) THEN {"dispersion_spike"} ELSE {}) \cup
        (IF ConfBlowout(pass) THEN {"conf_blowout"} ELSE {}))

Points(present, shape) == IF shape \in present THEN Weight[shape] ELSE 0

\* In hundredths.
Score(present) ==
  Points(present, "flash_loan") + Points(present, "reference_held")
    + Points(present, "dispersion_spike") + Points(present, "conf_blowout")
    + Points(present, "sandwich")

\* Mutated form: one entry for all that the samples would have shown.
UnevaluatedByReason(pass, raw, block) ==
  2 + (IF Sampled(pass) THEN 0 ELSE 1)
    + (IF block THEN 0 ELSE 1) + (IF raw THEN 0 ELSE 1)

\* Two shapes need pool state nobody archives; three need samples, one the
\* block and one the raw transaction.
Unevaluated(pass, raw, block) ==
  2 + (IF Sampled(pass) THEN 0 ELSE 3)
    + (IF block THEN 0 ELSE 1) + (IF raw THEN 0 ELSE 1)

-----------------------------------------------------------------------------
(* The judgement (adjudicate.ts). *)

Shortfall(pass) == pass.sold - pass.bought
Excess(pass)    == Shortfall(pass) - (30 * pass.sold) \div 10000

\* Mutated form: the loss in full.
CapToCoverageIgnored(loss) == loss

CapToCoverage(loss) == Smaller(loss, Coverage)

\* Half the relative spread of the samples, doubled again by the multiplier.
Turbulence(pass) ==
  IF ~Sampled(pass) \/ ~HasSubject(pass) THEN 0
  ELSE LET low == Lowest(SeriesPrice(pass), DOMAIN pass.series)
       IN CeilDiv((Highest(SeriesPrice(pass), DOMAIN pass.series) - low) * pass.sold, low)

\* What the shortfall has to reach: the floor of 0.5%, three confidences, twice
\* the volatility, and 3% for the slippage nobody measured.
Threshold(pass) ==
  Larger(Larger(CeilDiv(pass.sold, 200), 3 * pass.conf),
         Larger(Turbulence(pass), CeilDiv(3 * pass.sold, 100)))

Clamp(low, n, high) == Larger(low, Smaller(n, high))

\* Mutated form: a lone source costs nothing.
CorroborationGenerous(pass) == IF pass.sources >= 4 THEN 500 ELSE 0

Corroboration(pass) ==
  IF pass.sources >= 4 THEN 500 ELSE IF pass.sources <= 1 THEN -1500 ELSE 0

Confidence(pass, present, missing) ==
  LET need == Threshold(pass)
  IN Clamp(0,
       5000 + Smaller((333 * (Shortfall(pass) - need)) \div need, 999)
         + Corroboration(pass)
         - Smaller(1000, 2 * pass.spread)
         - Smaller(600, 20 * pass.skew)
         - (IF pass.unsigned THEN 300 ELSE 0)
         - (IF pass.par THEN 300 ELSE 0)
         - (IF pass.late THEN 500 ELSE 0)
         + Smaller(2500, 35 * Score(present))
         - Smaller(1000, 200 * missing),
       CONFIDENCE_CEILING)

Rejected(reason)      == [outcome |-> "rejected", reason |-> reason,
                          loss |-> 0, confidence |-> 0]
Indeterminate(reason) == [outcome |-> "indeterminate", reason |-> reason,
                          loss |-> 0, confidence |-> 0]

\* Once every leg is valued and the moments around are sampled.
AdjudicatePrice(pass, trade, raw, block) ==
  LET loss    == CapToCoverage(Excess(pass))
      present == IF HasSubject(pass) THEN Present(pass, trade, block) ELSE {}
      missing == Unevaluated(pass, raw, block)
  IN CASE pass.sold = 0 -> Rejected("zero_value_sold")
       [] pass.sold > 0 /\ Shortfall(pass) < Threshold(pass) ->
            Rejected("deviation_below_threshold")
       [] pass.sold > 0 /\ Shortfall(pass) >= Threshold(pass) ->
            IF Excess(pass) <= 0 THEN Rejected("within_expected_trading_cost")
            ELSE IF loss < MIN_PAYABLE_LOSS THEN Rejected("loss_below_dust")
            ELSE IF HasSubject(pass) /\ trade.orderbook
                 THEN Indeterminate("orderbook_execution_not_reconstructible")
            ELSE IF HasSubject(pass) /\ raw /\ trade.depth >= DOMINANT_DEPTH_SHARE
                 THEN Rejected("slippage_explained_by_order_size")
            ELSE IF HasSubject(pass) /\ raw /\ trade.depth >= DEPTH_SHARE_FLOOR
                 THEN Indeterminate("material_self_inflicted_slippage")
            ELSE IF present = {} THEN Indeterminate("no_manipulation_signature")
            ELSE [outcome |-> "confirmed", reason |-> "price_deviation",
                  loss |-> loss,
                  confidence |-> Confidence(pass, present, missing)]
=============================================================================
