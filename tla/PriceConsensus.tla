--------------------------- MODULE PriceConsensus ---------------------------
(***************************************************************************)
(* The price of a token at a moment, as the oracle-manipulation verifier   *)
(* sees it: several sources are asked, those that answer near enough to    *)
(* the moment form a window, and a leg of the trade is valued from its     *)
(* window or, for a stable, at par (consensus.ts, valuation.ts).           *)
(*                                                                         *)
(* Prices are integers, UNIT to the dollar; a median of an even number of  *)
(* answers is rounded down to one, what is compared with a sum rounded up. *)
(***************************************************************************)
EXTENDS Integers, FiniteSets, FiniteSetsExt

CONSTANTS
  Sources,        \* the price sources
  Pyth,           \* the one whose answers the guardians sign
  Granularity,    \* Granularity[s]: seconds one answer of s stands for
  MAX_SKEW,       \* seconds allowed beyond that
  Tokens,         \* the mints a trade may move
  Kind,           \* Kind[t]: what the registry says of t
  UNIT            \* price units of one dollar

Kinds == {"priced", "stable", "stable_unfed", "unregistered"}

ASSUME MarketAssumption ==
  /\ IsFiniteSet(Sources) /\ Pyth \in Sources
  /\ Granularity \in [Sources -> Nat] /\ MAX_SKEW \in Nat
  /\ Kind \in [Tokens -> Kinds]
  /\ UNIT \in Nat \ {0}

MIN_SOURCES_PRICED    == 3
MIN_SOURCES_STABLE    == 1
CONSENSUS_MAX_SKEW    == 90

\* A source that could not be asked is down, one that knows no price silent.
Point   == [kind: {"point"}, value: Nat \ {0}, conf: Nat, skew: Nat, signed: BOOLEAN]
Mute    == {[kind |-> "down"], [kind |-> "silent"]}
Answers == [Sources -> Point \cup Mute]

Larger(a, b)  == IF a >= b THEN a ELSE b
Smaller(a, b) == IF a <= b THEN a ELSE b
CeilDiv(a, b) == (a + b - 1) \div b

\* The k-th smallest of the values f takes on S, repetitions counted.
Ranked(f, S, k) ==
  CHOOSE v \in {f[s] : s \in S} :
    /\ Cardinality({s \in S : f[s] < v}) < k
    /\ k <= Cardinality({s \in S : f[s] <= v})

Median(f, S) ==
  LET n == Cardinality(S)
  IN (Ranked(f, S, (n + 1) \div 2) + Ranked(f, S, n \div 2 + 1)) \div 2

Lowest(f, S)  == Ranked(f, S, 1)
Highest(f, S) == Ranked(f, S, Cardinality(S))

-----------------------------------------------------------------------------
(* The window (consensus.ts). *)

\* Each source is held to its own resolution.
Contributors(answers) ==
  {s \in Sources : /\ answers[s].kind = "point"
                   /\ answers[s].skew <= Granularity[s] + MAX_SKEW}

\* Only when no source could be asked is there nothing to go by.
Unavailable(answers) == \A s \in Sources : answers[s].kind = "down"

NoWindow == [count |-> 0, price |-> 0, conf |-> 0, low |-> 0, spread |-> 0,
             skew |-> 0, signed |-> 0, unsigned |-> FALSE]

\* The wider of what the sources claim and half of what they differ by.
AnchorConf(stated, implied) == Larger(stated, implied)

\* signed is the price the guardians put their name to.
Window(answers) ==
  LET from  == Contributors(answers)
      value == [s \in from |-> answers[s].value]
      conf  == [s \in from |-> answers[s].conf]
      skew  == [s \in from |-> answers[s].skew]
      fair  == Median(value, from)
      low   == Lowest(value, from)
      apart == Highest(value, from) - low
  IN IF from = {} THEN NoWindow
     ELSE [count |-> Cardinality(from), price |-> fair,
           conf |-> AnchorConf(Median(conf, from), CeilDiv(apart * fair, 2 * low)),
           low |-> low, spread |-> apart, skew |-> Lowest(skew, from),
           signed |-> IF Pyth \in from /\ answers[Pyth].signed
                      THEN answers[Pyth].value ELSE 0,
           unsigned |-> \E s \in from : ~answers[s].signed]

\* relativeSpread in ten-thousandths.
Dispersion(w) == IF w.count < 2 THEN 0 ELSE (10000 * w.spread) \div w.low

-----------------------------------------------------------------------------
(* The value of a leg (valuation.ts). *)

Stable(token) == Kind[token] \in {"stable", "stable_unfed"}
Fed(token)    == Kind[token] \in {"priced", "stable"}

Required(token) ==
  IF Stable(token) THEN MIN_SOURCES_STABLE ELSE MIN_SOURCES_PRICED

Corroborated(token, w) == w.count >= Required(token)

\* References more than MAX_DISPERSION, 2%, apart prove nothing.
Disagree(w) == w.count > 1 /\ 50 * w.spread > w.low

\* A stable nobody priced is worth a dollar, give or take half a cent.
AtPar(token, w) == Stable(token) /\ ~Corroborated(token, w)

Valued(token, w) ==
  \/ AtPar(token, w)
  \/ /\ Fed(token) /\ Corroborated(token, w)
     /\ w.skew <= CONSENSUS_MAX_SKEW /\ ~Disagree(w)

LegPrice(token, w) == IF AtPar(token, w) THEN UNIT ELSE w.price
LegConf(token, w)  == IF AtPar(token, w) THEN UNIT \div 200 ELSE w.conf
=============================================================================
