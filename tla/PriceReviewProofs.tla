------------------------- MODULE PriceReviewProofs -------------------------
(***************************************************************************)
(* Proofs about the review of an oracle-manipulation claim, for every set  *)
(* of sources, incidents and answers, and any number of passes: first the  *)
(* order statistics and consensus windows of any finite set of sources,    *)
(* whatever they answer, then what the verdict makes of them, and last how *)
(* near the totals of a pass stay to the market it asked about.            *)
(***************************************************************************)
EXTENDS PriceReview, SequenceTheorems, FiniteSetTheorems, WellFoundedInduction, TLAPS

-----------------------------------------------------------------------------
(* Order statistics of finitely many naturals. *)

LEMMA LeastNatural ==
  ASSUME NEW T \in SUBSET Nat, T # {}
  PROVE  \E x \in T : \A y \in T : x <= y
<1> DEFINE Less == {ss \in Nat \X Nat : ss[1] < ss[2]}
<1>1. IsWellFoundedOn(Less, Nat)
  BY NatLessThanWellFounded, Zenon DEF OpToRel
<1>2. PICK x \in T : \A y \in T : ~(<<y, x>> \in Less)
  <2> HIDE DEF Less
  <2> QED
    BY <1>1, WFMin
<1>3. ASSUME NEW y \in T PROVE x <= y
  <2>1. ASSUME y < x PROVE FALSE
    <3>1. <<y, x>> \in Nat \X Nat /\ <<y, x>>[1] < <<y, x>>[2]
      BY <2>1
    <3>2. <<y, x>> \in Less
      BY <3>1, Zenon
    <3> QED
      BY <1>2, <3>2
  <2> QED
    BY <2>1
<1> QED
  BY <1>3

\* A function takes finitely many naturals no larger than some natural.
LEMMA FiniteBounded ==
  ASSUME NEW S, IsFiniteSet(S), NEW f, \A s \in S : f[s] \in Nat
  PROVE  \E n \in Nat : \A s \in S : f[s] <= n
<1> DEFINE Bounded(U) == \E n \in Nat : \A s \in U : f[s] <= n
           Unbounded  == {n \in Nat : \E U \in SUBSET S :
                            Cardinality(U) = n /\ ~Bounded(U)}
<1>1. SUFFICES ASSUME ~Bounded(S) PROVE FALSE
  OBVIOUS
<1>2. Cardinality(S) \in Unbounded
  BY <1>1, FS_CardinalityType
<1>3. PICK least \in Unbounded : \A n \in Unbounded : least <= n
  BY <1>2, LeastNatural
<1>4. PICK U \in SUBSET S : Cardinality(U) = least /\ ~Bounded(U)
  BY <1>3
<1>5. PICK x \in U : TRUE
  <2>1. U = {} => Bounded(U)
    OBVIOUS
  <2> QED
    BY <1>4, <2>1
<1>6. /\ IsFiniteSet(U) /\ least \in Nat
      /\ Cardinality(U \ {x}) = least - 1 /\ Cardinality(U \ {x}) \in Nat
  BY <1>3, <1>4, <1>5, FS_Subset, FS_RemoveElement, FS_CardinalityType
<1>7. Bounded(U \ {x})
  <2>1. Cardinality(U \ {x}) \notin Unbounded
    <3>1. ASSUME Cardinality(U \ {x}) \in Unbounded PROVE FALSE
      <4>1. least <= least - 1
        BY <1>3, <1>6, <3>1
      <4> QED
        BY <1>6, <4>1
    <3> QED
      BY <3>1
  <2> QED
    BY <2>1, <1>6
<1>8. PICK n \in Nat : \A s \in U \ {x} : f[s] <= n
  BY <1>7
<1>9. \A s \in U : f[s] <= Larger(n, f[x])
  BY <1>5, <1>8 DEF Larger
<1>10. Larger(n, f[x]) \in Nat
  BY <1>5, <1>8 DEF Larger
<1> QED
  BY <1>4, <1>9, <1>10

Under(f, S, v) == {s \in S : f[s] < v}
UpTo(f, S, v)  == {s \in S : f[s] <= v}

LEMMA PartsFinite ==
  ASSUME NEW S, IsFiniteSet(S), NEW f, NEW v
  PROVE  /\ IsFiniteSet(Under(f, S, v)) /\ IsFiniteSet(UpTo(f, S, v))
         /\ Cardinality(Under(f, S, v)) \in Nat
         /\ Cardinality(UpTo(f, S, v)) \in Nat
         /\ Under(f, S, v) \subseteq S /\ UpTo(f, S, v) \subseteq S
<1>1. Under(f, S, v) \subseteq S /\ UpTo(f, S, v) \subseteq S
  BY DEF Under, UpTo
<1> QED
  BY <1>1, FS_Subset, FS_CardinalityType

\* The k-th smallest value is one of the values, has fewer than k below it and
\* at least k up to it.
LEMMA RankedMeans ==
  ASSUME NEW S, IsFiniteSet(S), NEW f, \A s \in S : f[s] \in Nat,
         NEW k \in 1..Cardinality(S)
  PROVE  /\ Ranked(f, S, k) \in {f[s] : s \in S}
         /\ Ranked(f, S, k) \in Nat
         /\ Cardinality(Under(f, S, Ranked(f, S, k))) < k
         /\ k <= Cardinality(UpTo(f, S, Ranked(f, S, k)))
<1> DEFINE Reached == {v \in Nat : k <= Cardinality(UpTo(f, S, v))}
<1>1. Cardinality(S) \in Nat /\ k \in Nat /\ 1 <= k
  BY FS_CardinalityType
<1>2. PICK n \in Nat : \A s \in S : f[s] <= n
  BY FiniteBounded
<1>3. n \in Reached
  <2>1. UpTo(f, S, n) = S
    BY <1>2 DEF UpTo
  <2> QED
    BY <1>1, <2>1
<1>4. PICK v \in Reached : \A u \in Reached : v <= u
  BY <1>3, LeastNatural
<1>5. Cardinality(Under(f, S, v)) < k
  <2>1. CASE v = 0
    <3>1. Under(f, S, v) = {}
      BY <2>1 DEF Under
    <3> QED
      BY <1>1, <3>1, FS_EmptySet
  <2>2. CASE v # 0
    <3>1. v - 1 \in Nat /\ v - 1 \notin Reached
      BY <1>4, <2>2
    <3>2. Under(f, S, v) = UpTo(f, S, v - 1)
      BY <1>4 DEF Under, UpTo
    <3>3. Cardinality(UpTo(f, S, v - 1)) \in Nat
      BY PartsFinite
    <3> QED
      BY <1>1, <3>1, <3>2, <3>3
  <2> QED
    BY <2>1, <2>2
<1>6. v \in {f[s] : s \in S}
  <2>1. Under(f, S, v) # UpTo(f, S, v)
    BY <1>1, <1>4, <1>5, PartsFinite
  <2> QED
    BY <1>4, <2>1 DEF Under, UpTo
<1>7. /\ Ranked(f, S, k) \in {f[s] : s \in S}
      /\ Cardinality(Under(f, S, Ranked(f, S, k))) < k
      /\ k <= Cardinality(UpTo(f, S, Ranked(f, S, k)))
  BY <1>4, <1>5, <1>6 DEF Ranked, Under, UpTo
<1> QED
  BY <1>7

\* If all but fewer than k values are at least low, and all but fewer than
\* the rest at most high, the k-th smallest lies between them.
LEMMA RankedBetween ==
  ASSUME NEW S, IsFiniteSet(S), NEW f, \A s \in S : f[s] \in Nat,
         NEW k \in 1..Cardinality(S),
         NEW Bad \in SUBSET S, Cardinality(Bad) < k,
         Cardinality(Bad) + k <= Cardinality(S),
         NEW low \in Nat, NEW high \in Nat,
         \A s \in S \ Bad : low <= f[s] /\ f[s] <= high
  PROVE  Ranked(f, S, k) \in low..high
<1> DEFINE v     == Ranked(f, S, k)
           Below == Under(f, S, v)
           Least == UpTo(f, S, v)
<1>1. /\ v \in Nat /\ k \in Nat
      /\ Cardinality(Below) < k /\ k <= Cardinality(Least)
  BY RankedMeans, FS_CardinalityType
<1>2. /\ Cardinality(S) \in Nat /\ Cardinality(Bad) \in Nat
      /\ Cardinality(Below) \in Nat /\ Cardinality(Least) \in Nat
      /\ IsFiniteSet(Bad) /\ IsFiniteSet(Below) /\ IsFiniteSet(Least)
      /\ Below \subseteq S /\ Least \subseteq S
  BY PartsFinite, FS_Subset, FS_CardinalityType
<1> HIDE DEF v
<1>3. low <= v
  <2>1. PICK s \in Least : s \notin Bad
    <3>1. ~(Least \subseteq Bad)
      BY <1>1, <1>2, FS_Subset
    <3> QED
      BY <3>1
  <2> QED
    BY <1>1, <2>1 DEF UpTo
<1>4. v <= high
  <2>1. PICK s \in S : s \notin Bad /\ s \notin Below
    <3> HIDE DEF Below
    <3>1. Cardinality(Below \cap Bad) \in Nat
      BY <1>2, FS_Intersection, FS_CardinalityType
    <3>2. Cardinality(Below \cup Bad)
            = Cardinality(Below) + Cardinality(Bad) - Cardinality(Below \cap Bad)
      BY <1>2, FS_Union
    <3>3. Cardinality(Below \cup Bad) < Cardinality(S)
      BY <1>1, <1>2, <3>1, <3>2
    <3>4. Below \cup Bad # S
      BY <3>3, <1>2
    <3> QED
      BY <1>2, <3>4
  <2> QED
    BY <1>1, <2>1 DEF Under
<1>5. v \in low..high
  BY <1>1, <1>3, <1>4
<1> QED
  BY <1>5 DEF v

\* A minority of the answers, whatever they are, cannot carry the median past
\* the rest.
THEOREM MedianResistsMinority ==
  ASSUME NEW S, IsFiniteSet(S), NEW f, \A s \in S : f[s] \in Nat,
         NEW Bad \in SUBSET S, 2 * Cardinality(Bad) < Cardinality(S),
         NEW low \in Nat, NEW high \in Nat,
         \A s \in S \ Bad : low <= f[s] /\ f[s] <= high
  PROVE  Median(f, S) \in low..high
<1> DEFINE n == Cardinality(S)
           b == Cardinality(Bad)
<1>1. n \in Nat /\ b \in Nat
  BY FS_Subset, FS_CardinalityType
<1> DEFINE j == (n + 1) \div 2
           k == n \div 2 + 1
<1>2. /\ j \in 1..n /\ b < j /\ b + j <= n
      /\ k \in 1..n /\ b < k /\ b + k <= n
  <2>1. 2 * b < n
    OBVIOUS
  <2> HIDE DEF n, b
  <2>2. /\ j \in Int /\ 2 * j <= n + 1 /\ n + 1 < 2 * j + 2
        /\ k \in Int /\ 2 * k <= n + 2 /\ n < 2 * k
    BY <1>1
  <2> HIDE DEF j, k
  <2> QED
    BY <1>1, <2>1, <2>2
<1> HIDE DEF j, k
<1>3. Ranked(f, S, j) \in low..high
  BY <1>2, RankedBetween
<1>4. Ranked(f, S, k) \in low..high
  BY <1>2, RankedBetween
<1>5. Median(f, S) = (Ranked(f, S, j) + Ranked(f, S, k)) \div 2
  BY DEF Median, j, k
<1> HIDE DEF n, b
<1> QED
  BY <1>3, <1>4, <1>5

-----------------------------------------------------------------------------
(* The window. *)

LEMMA ContributorsFinite ==
  ASSUME NEW answers
  PROVE  /\ IsFiniteSet(Contributors(answers))
         /\ Contributors(answers) \subseteq Sources
         /\ Cardinality(Contributors(answers)) \in Nat
         /\ Cardinality(Contributors(answers)) = 0 <=> Contributors(answers) = {}
BY MarketAssumption, FS_Subset, FS_CardinalityType, FS_EmptySet DEF Contributors

\* An answer that joins a window is a price.
LEMMA ContributorsAnswer ==
  ASSUME NEW answers \in Answers, NEW s \in Contributors(answers)
  PROVE  answers[s] \in Point
BY DEF Contributors, Answers, Point, Mute

LEMMA ProductNatural ==
  ASSUME NEW a \in Nat, NEW b \in Nat
  PROVE  a * b \in Nat
OBVIOUS

LEMMA QuotientNatural ==
  ASSUME NEW a \in Nat, NEW b \in Nat \ {0}
  PROVE  a \div b \in Nat
OBVIOUS

LEMMA CeilDivNatural ==
  ASSUME NEW a \in Nat, NEW b \in Nat \ {0}
  PROVE  CeilDiv(a, b) \in Nat
<1>1. a + b - 1 \in Nat
  OBVIOUS
<1> QED
  BY <1>1, QuotientNatural DEF CeilDiv

LEMMA MedianNatural ==
  ASSUME NEW S, IsFiniteSet(S), S # {}, NEW f, \A s \in S : f[s] \in Nat
  PROVE  /\ Median(f, S) \in Nat
         /\ (\A s \in S : f[s] > 0) => Median(f, S) > 0
<1>1. PICK n \in Nat : \A s \in S : f[s] <= n
  BY FiniteBounded
<1>2. {} \in SUBSET S /\ 2 * Cardinality({}) < Cardinality(S)
  BY FS_EmptySet, FS_CardinalityType
<1>3. Median(f, S) \in 0..n
  BY <1>1, <1>2, MedianResistsMinority
<1>4. ASSUME \A s \in S : f[s] > 0 PROVE Median(f, S) \in 1..n
  BY <1>1, <1>2, <1>4, MedianResistsMinority
<1> QED
  BY <1>3, <1>4

LEMMA ExtremesNatural ==
  ASSUME NEW S, IsFiniteSet(S), S # {}, NEW f, \A s \in S : f[s] \in Nat
  PROVE  /\ Lowest(f, S) \in Nat /\ Highest(f, S) \in Nat
         /\ Lowest(f, S) \in {f[s] : s \in S}
         /\ Lowest(f, S) <= Highest(f, S)
<1>1. 1 \in 1..Cardinality(S) /\ Cardinality(S) \in 1..Cardinality(S)
  BY FS_EmptySet, FS_CardinalityType
<1>2. /\ Lowest(f, S) \in Nat /\ Highest(f, S) \in Nat
      /\ Lowest(f, S) \in {f[s] : s \in S}
      /\ Highest(f, S) \in {f[s] : s \in S}
      /\ Cardinality(Under(f, S, Lowest(f, S))) < 1
  BY <1>1, RankedMeans DEF Lowest, Highest
<1>3. Under(f, S, Lowest(f, S)) = {}
  BY <1>2, PartsFinite, FS_EmptySet
<1> QED
  BY <1>2, <1>3 DEF Under

Windows == [count: Nat, price: Nat, conf: Nat, low: Nat, spread: Nat,
            skew: Nat, signed: Nat, unsigned: BOOLEAN]

\* A window is well formed, and priced when anything contributed to it.
LEMMA WindowTyped ==
  ASSUME NEW answers \in Answers
  PROVE  /\ Window(answers) \in Windows
         /\ Window(answers).count = Cardinality(Contributors(answers))
         /\ Window(answers).count > 0 =>
              Window(answers).price > 0 /\ Window(answers).low > 0
<1> DEFINE from  == Contributors(answers)
           value == [s \in from |-> answers[s].value]
           conf  == [s \in from |-> answers[s].conf]
           skew  == [s \in from |-> answers[s].skew]
           fair  == Median(value, from)
           low   == Lowest(value, from)
           apart == Highest(value, from) - low
<1>1. /\ IsFiniteSet(from) /\ Cardinality(from) \in Nat
      /\ Cardinality(from) = 0 <=> from = {}
  BY ContributorsFinite
<1>2. CASE from = {}
  <2>1. Window(answers) = NoWindow
    BY <1>2 DEF Window
  <2> QED
    BY <1>1, <1>2, <2>1 DEF NoWindow, Windows
<1>3. CASE from # {}
  <2>1. \A s \in from : /\ value[s] \in Nat /\ value[s] > 0
                        /\ conf[s] \in Nat /\ skew[s] \in Nat
    <3>1. \A s \in from : answers[s] \in Point
      BY ContributorsAnswer
    <3> QED
      BY <3>1 DEF Point
  <2> HIDE DEF value, conf, skew
  <2>2. fair \in Nat /\ fair > 0
    BY <1>1, <1>3, <2>1, MedianNatural
  <2>3. Median(conf, from) \in Nat
    BY <1>1, <1>3, <2>1, MedianNatural
  <2>4. Lowest(skew, from) \in Nat
    BY <1>1, <1>3, <2>1, ExtremesNatural
  <2>5. low \in Nat /\ low > 0 /\ apart \in Nat
    <3>1. /\ low \in Nat /\ Highest(value, from) \in Nat
          /\ low <= Highest(value, from) /\ low \in {value[s] : s \in from}
      BY <1>1, <1>3, <2>1, ExtremesNatural
    <3> QED
      BY <2>1, <3>1
  <2> HIDE DEF fair, low, apart
  <2>6. CeilDiv(apart * fair, 2 * low) \in Nat
    <3>1. apart * fair \in Nat /\ 2 * low \in Nat \ {0}
      BY <2>2, <2>5, ProductNatural
    <3> QED
      BY <3>1, CeilDivNatural
  <2>7. AnchorConf(Median(conf, from), CeilDiv(apart * fair, 2 * low)) \in Nat
    BY <2>3, <2>6 DEF AnchorConf, Larger
  <2> DEFINE signed   == IF Pyth \in from /\ answers[Pyth].signed
                         THEN answers[Pyth].value ELSE 0
             unsigned == \E s \in from : ~answers[s].signed
  <2>8. signed \in Nat
    <3>1. Pyth \in from => answers[Pyth].value \in Nat
      BY ContributorsAnswer DEF Point
    <3> QED
      BY <3>1
  <2>9. Window(answers) =
          [count |-> Cardinality(from), price |-> fair,
           conf |-> AnchorConf(Median(conf, from), CeilDiv(apart * fair, 2 * low)),
           low |-> low, spread |-> apart, skew |-> Lowest(skew, from),
           signed |-> signed, unsigned |-> unsigned]
    BY <1>3 DEF Window, fair, low, apart, value, conf, skew
  <2>10. unsigned \in BOOLEAN
    OBVIOUS
  <2> DEFINE anchor == AnchorConf(Median(conf, from), CeilDiv(apart * fair, 2 * low))
             late   == Lowest(skew, from)
             count  == Cardinality(from)
  <2> HIDE DEF signed, unsigned, anchor, late, count
  <2>11. Window(answers) =
           [count |-> count, price |-> fair, conf |-> anchor, low |-> low,
            spread |-> apart, skew |-> late, signed |-> signed,
            unsigned |-> unsigned]
    BY <2>9 DEF anchor, late, count
  <2>12. count \in Nat /\ anchor \in Nat /\ late \in Nat
    BY <1>1, <2>4, <2>7 DEF anchor, late, count
  <2>13. Window(answers) \in Windows
    BY <2>2, <2>5, <2>8, <2>10, <2>11, <2>12 DEF Windows
  <2>14. /\ Window(answers).count = count
         /\ Window(answers).price = fair /\ Window(answers).low = low
    BY <2>11
  <2> QED
    BY <2>2, <2>5, <2>13, <2>14 DEF count
<1> QED
  BY <1>2, <1>3

\* Two answers are never both the guardians'.
LEMMA SecondAnswerUnsigned ==
  ASSUME NEW answers \in Answers,
         \A s \in Sources \ {Pyth} : answers[s].kind = "point" => ~answers[s].signed,
         Window(answers).count >= 2
  PROVE  Window(answers).unsigned
<1> DEFINE from == Contributors(answers)
<1>1. /\ IsFiniteSet(from) /\ from \subseteq Sources
      /\ Cardinality(from) >= 2 /\ from # {}
  BY ContributorsFinite, WindowTyped, FS_EmptySet
<1>2. PICK s \in from : s # Pyth
  <2>1. ~(from \subseteq {Pyth})
    BY <1>1, FS_Singleton, FS_Subset
  <2> QED
    BY <2>1
<1>3. ~answers[s].signed
  BY <1>1, <1>2 DEF Contributors
<1> QED
  BY <1>1, <1>3 DEF Window

-----------------------------------------------------------------------------
\* "The reference price never comes from a single source": as long as those
\* who lie are a minority of those who answer, the consensus is off by no more
\* than an honest source is.
THEOREM ConsensusResistsMinority ==
  ASSUME NEW i \in Incidents, NEW t \in Tokens, NEW m \in 0..Offsets,
         NEW answers \in Asked(i, t, m),
         2 * Cardinality(Contributors(answers) \cap i.poisoned)
           < Window(answers).count
  PROVE  1000 * Apart(Window(answers).price, i.truth[m][t])
           <= NOISE * i.truth[m][t]
<1> DEFINE from  == Contributors(answers)
           value == [s \in from |-> answers[s].value]
           truth == i.truth[m][t]
           noise == NOISE * truth
           slack == noise \div 1000
           low   == IF truth >= slack THEN truth - slack ELSE 0
<1>1. /\ answers \in Answers /\ truth \in Nat /\ NOISE \in Nat
      /\ \A s \in Sources \ i.poisoned : Honest(i, t, m, answers[s])
  <2> HIDE DEF truth
  <2>1. i \in Incident
    BY ReviewAssumption
  <2>2. i.truth \in [0..Offsets -> [Tokens -> Nat \ {0}]]
    BY <2>1 DEF Incident
  <2>3. truth \in Nat
    BY <2>2 DEF truth
  <2>4. answers \in Answers
    BY ReviewAssumption
  <2>5. \A s \in Sources \ i.poisoned : Honest(i, t, m, answers[s])
    BY ReviewAssumption
  <2> QED
    BY <2>3, <2>4, <2>5, ReviewAssumption
<1>2. /\ IsFiniteSet(from) /\ from \subseteq Sources
      /\ 2 * Cardinality(from \cap i.poisoned) < Cardinality(from)
  BY <1>1, ContributorsFinite, WindowTyped
<1>3. \A s \in from : /\ value[s] \in Nat /\ value[s] = answers[s].value
                      /\ answers[s].kind = "point"
  BY <1>1, ContributorsAnswer DEF Point
<1>4. noise \in Nat
  BY <1>1, ProductNatural
<1>5. \A s \in from \ i.poisoned : 1000 * Apart(value[s], truth) <= noise
  BY <1>1, <1>2, <1>3 DEF Honest
<1> HIDE DEF value, truth, noise
<1>6. slack \in Nat /\ 1000 * slack <= noise /\ noise < 1000 * slack + 1000
  BY <1>4
<1> HIDE DEF slack
<1>7. \A s \in from \ i.poisoned : low <= value[s] /\ value[s] <= truth + slack
  BY <1>1, <1>3, <1>4, <1>5, <1>6 DEF Apart
<1>8. low \in Nat /\ truth + slack \in Nat
  BY <1>1, <1>6
<1>9. Median(value, from) \in low..truth + slack
  <2> DEFINE bad == from \cap i.poisoned
             high == truth + slack
  <2>1. bad \in SUBSET from /\ 2 * Cardinality(bad) < Cardinality(from)
    BY <1>2
  <2>2. \A s \in from \ bad : low <= value[s] /\ value[s] <= high
    BY <1>7
  <2> HIDE DEF bad, high, low, from
  <2>3. high \in Nat
    BY <1>8 DEF high
  <2>4. Median(value, from) \in low..high
    BY <1>2, <1>3, <1>8, <2>1, <2>2, <2>3, MedianResistsMinority
  <2> QED
    BY <2>4 DEF high
<1>10. from # {}
  BY <1>2, FS_EmptySet, FS_Subset, FS_CardinalityType
<1>11. Window(answers).price = Median(value, from)
  BY <1>10 DEF Window, value
<1>12. 1000 * Apart(Median(value, from), truth) <= noise
  BY <1>1, <1>4, <1>6, <1>9 DEF Apart
<1> QED
  BY <1>11, <1>12 DEF noise, truth
-----------------------------------------------------------------------------
(* Products and quotients that the prover would not multiply out by itself. *)

LEMMA ApartNatural ==
  ASSUME NEW x \in Nat, NEW y \in Nat
  PROVE  Apart(x, y) \in Nat
BY DEF Apart

LEMMA ProductMonotone ==
  ASSUME NEW a \in Nat, NEW x \in Nat, NEW y \in Nat, x <= y
  PROVE  a * x <= a * y
<1>1. y - x \in Nat
  OBVIOUS
<1>2. a * (y - x) \in Nat
  BY <1>1, ProductNatural
<1>3. a * y = a * x + a * (y - x)
  OBVIOUS
<1>4. a * x \in Nat /\ a * y \in Nat
  BY ProductNatural
<1> QED
  BY <1>2, <1>3, <1>4

LEMMA ProductApart ==
  ASSUME NEW a \in Nat, NEW x \in Nat, NEW y \in Nat
  PROVE  Apart(a * x, a * y) = a * Apart(x, y)
<1>1. CASE x >= y
  <2>1. a * y <= a * x
    BY <1>1, ProductMonotone
  <2>2. a * x \in Nat /\ a * y \in Nat /\ a * (x - y) = a * x - a * y
    BY ProductNatural
  <2> QED
    BY <1>1, <2>1, <2>2 DEF Apart
<1>2. CASE ~(x >= y)
  <2>1. a * x <= a * y
    BY <1>2, ProductMonotone
  <2>2. a * x \in Nat /\ a * y \in Nat /\ a * (y - x) = a * y - a * x
    BY ProductNatural
  <2>3. CASE a * x = a * y
    BY <1>2, <2>2, <2>3 DEF Apart
  <2>4. CASE a * x # a * y
    BY <1>2, <2>1, <2>2, <2>4 DEF Apart
  <2> QED
    BY <2>3, <2>4
<1> QED
  BY <1>1, <1>2

\* What is true of a price is true of an amount of it.
LEMMA AmountApart ==
  ASSUME NEW a \in Nat, NEW x \in Nat, NEW y \in Nat,
         NEW k \in Nat, NEW m \in Nat, NEW z \in Nat,
         k * Apart(x, y) <= m * z
  PROVE  k * Apart(a * x, a * y) <= m * (a * z)
<1> DEFINE d == Apart(x, y)
<1>1. d \in Nat
  BY ApartNatural
<1>2. Apart(a * x, a * y) = a * d
  BY ProductApart
<1> HIDE DEF d
<1>3. k * d \in Nat /\ m * z \in Nat
  BY <1>1, ProductNatural
<1>4. a * (k * d) <= a * (m * z)
  <2>1. k * d <= m * z
    BY DEF d
  <2> QED
    BY <1>3, <2>1, ProductMonotone
<1>5. k * (a * d) = a * (k * d) /\ m * (a * z) = a * (m * z)
  BY <1>1
<1> QED
  BY <1>2, <1>4, <1>5

\* The quotient rounded up is the least whose multiple covers the dividend.
LEMMA CeilDivCovers ==
  ASSUME NEW a \in Nat, NEW b \in Nat \ {0}
  PROVE  /\ a <= b * CeilDiv(a, b)
         /\ \A z \in Nat : a <= b * z => CeilDiv(a, b) <= z
<1> DEFINE c == CeilDiv(a, b)
<1>1. c \in Nat /\ b * c <= a + b - 1 /\ a + b - 1 < b * c + b
  <2>1. c = (a + b - 1) \div b
    BY DEF CeilDiv
  <2>2. a + b - 1 \in Nat
    OBVIOUS
  <2> HIDE DEF c
  <2> QED
    BY <2>1, <2>2
<1> HIDE DEF c
<1>2. a <= b * c
  <2>1. b * c \in Nat
    BY <1>1, ProductNatural
  <2> QED
    BY <1>1, <2>1
<1>3. ASSUME NEW z \in Nat, a <= b * z PROVE c <= z
  <2>1. SUFFICES ASSUME z + 1 <= c PROVE FALSE
    BY <1>1
  <2>2. b * (z + 1) <= b * c
    BY <1>1, <2>1, ProductMonotone
  <2>3. b * (z + 1) = b * z + b /\ b * z \in Nat /\ b * c \in Nat
    BY <1>1, ProductNatural
  <2> QED
    BY <1>1, <1>3, <2>2, <2>3
<1> QED
  BY <1>2, <1>3 DEF c

\* A factor can be taken out of an inequality.
LEMMA ProductCancels ==
  ASSUME NEW a \in Nat \ {0}, NEW x \in Nat, NEW y \in Nat, a * x <= a * y
  PROVE  x <= y
<1>1. SUFFICES ASSUME y + 1 <= x PROVE FALSE
  OBVIOUS
<1>2. a * (y + 1) <= a * x
  BY <1>1, ProductMonotone
<1>3. a * (y + 1) = a * y + a /\ a * y \in Nat /\ a * x \in Nat
  BY ProductNatural
<1> QED
  BY <1>2, <1>3

-----------------------------------------------------------------------------
(* What a window says of the answers in it. *)

LEMMA HighestMeans ==
  ASSUME NEW S, IsFiniteSet(S), S # {}, NEW f, \A s \in S : f[s] \in Nat
  PROVE  /\ Highest(f, S) \in {f[s] : s \in S}
         /\ \A s \in S : Lowest(f, S) <= f[s] /\ f[s] <= Highest(f, S)
<1> DEFINE n    == Cardinality(S)
           high == Highest(f, S)
           low  == Lowest(f, S)
<1>1. n \in Nat /\ 1 \in 1..n /\ n \in 1..n
  BY FS_EmptySet, FS_CardinalityType
<1>2. /\ high \in Nat /\ high \in {f[s] : s \in S} /\ n <= Cardinality(UpTo(f, S, high))
      /\ low \in Nat /\ Cardinality(Under(f, S, low)) < 1
  BY <1>1, RankedMeans DEF Highest, Lowest
<1> HIDE DEF high, low, n
<1>3. UpTo(f, S, high) = S
  <2>1. /\ IsFiniteSet(UpTo(f, S, high)) /\ UpTo(f, S, high) \subseteq S
        /\ Cardinality(UpTo(f, S, high)) \in Nat
    BY PartsFinite
  <2>2. Cardinality(UpTo(f, S, high)) <= n
    BY <2>1, FS_Subset DEF n
  <2>3. Cardinality(UpTo(f, S, high)) = n
    BY <1>1, <1>2, <2>1, <2>2
  <2> QED
    BY <2>1, <2>3, FS_Subset DEF n
<1>4. Under(f, S, low) = {}
  BY <1>2, PartsFinite, FS_EmptySet
<1>5. \A s \in S : low <= f[s] /\ f[s] <= high
  BY <1>2, <1>3, <1>4 DEF Under, UpTo
<1> QED
  BY <1>2, <1>5 DEF high, low

\* The fields of a window, and its price and answers between its extremes.
LEMMA WindowMeans ==
  ASSUME NEW answers \in Answers, Window(answers).count > 0
  PROVE  LET w == Window(answers)
             from == Contributors(answers)
             conf == [s \in from |-> answers[s].conf]
         IN /\ w.price \in Nat \ {0} /\ w.low \in Nat \ {0}
            /\ w.spread \in Nat /\ w.conf \in Nat /\ w.count \in Nat
            /\ from # {} /\ IsFiniteSet(from) /\ w.count = Cardinality(from)
            /\ \A s \in from : /\ answers[s].value \in Nat
                               /\ w.low <= answers[s].value
                               /\ answers[s].value <= w.low + w.spread
            /\ w.low <= w.price /\ w.price <= w.low + w.spread
            /\ \E s \in from : w.low = answers[s].value
            /\ \E s \in from : w.low + w.spread = answers[s].value
            /\ w.conf = Larger(Median(conf, from),
                               CeilDiv(w.spread * w.price, 2 * w.low))
<1> DEFINE from  == Contributors(answers)
           value == [s \in from |-> answers[s].value]
           conf  == [s \in from |-> answers[s].conf]
           skew  == [s \in from |-> answers[s].skew]
           low   == Lowest(value, from)
           high  == Highest(value, from)
           fair  == Median(value, from)
           w     == Window(answers)
<1>1. /\ w \in Windows /\ w.count = Cardinality(from)
      /\ w.price > 0 /\ w.low > 0
  BY WindowTyped
<1>2. IsFiniteSet(from) /\ from # {}
  BY <1>1, ContributorsFinite, FS_EmptySet
<1>3. /\ w.price = fair /\ w.low = low /\ w.spread = high - low
      /\ w.conf = Larger(Median(conf, from), CeilDiv((high - low) * fair, 2 * low))
  BY <1>2 DEF Window, AnchorConf
<1>4. \A s \in from : value[s] \in Nat /\ value[s] = answers[s].value
  BY ContributorsAnswer DEF Point
<1>5. /\ w.price \in Nat \ {0} /\ w.low \in Nat \ {0}
      /\ w.spread \in Nat /\ w.conf \in Nat /\ w.count \in Nat
  BY <1>1 DEF Windows
<1> HIDE DEF w, value
<1>6. /\ low \in Nat /\ high \in Nat
      /\ low \in {value[s] : s \in from} /\ high \in {value[s] : s \in from}
      /\ \A s \in from : low <= value[s] /\ value[s] <= high
  BY <1>2, <1>4, ExtremesNatural, HighestMeans
<1> HIDE DEF low, high
<1>7. fair \in low..high
  <2>1. {} \in SUBSET from /\ 2 * Cardinality({}) < Cardinality(from)
    BY <1>2, FS_EmptySet, FS_CardinalityType
  <2>2. \A s \in from \ {} : low <= value[s] /\ value[s] <= high
    BY <1>6
  <2> QED
    BY <1>2, <1>4, <1>6, <2>1, <2>2, MedianResistsMinority
<1> HIDE DEF fair, from, conf
<1>8. \A s \in from : /\ answers[s].value \in Nat
                      /\ w.low <= answers[s].value
                      /\ answers[s].value <= w.low + w.spread
  BY <1>3, <1>4, <1>6
<1>9. w.low <= w.price /\ w.price <= w.low + w.spread
  BY <1>3, <1>6, <1>7
<1>10. /\ \E s \in from : w.low = answers[s].value
       /\ \E s \in from : w.low + w.spread = answers[s].value
  BY <1>3, <1>4, <1>6
<1>11. w.conf = Larger(Median(conf, from), CeilDiv(w.spread * w.price, 2 * w.low))
  BY <1>3
<1> QED
  BY <1>1, <1>2, <1>5, <1>8, <1>9, <1>10, <1>11 DEF w, from, conf

\* The uncertainty a window states is at least half of what its answers differ.
LEMMA SpreadCovered ==
  ASSUME NEW answers \in Answers, Window(answers).count > 0
  PROVE  Window(answers).spread <= 2 * Window(answers).conf
<1> DEFINE w       == Window(answers)
           from    == Contributors(answers)
           conf    == [s \in from |-> answers[s].conf]
           stated  == Median(conf, from)
           implied == CeilDiv(w.spread * w.price, 2 * w.low)
<1>1. /\ w.price \in Nat \ {0} /\ w.low \in Nat \ {0} /\ w.spread \in Nat
      /\ w.low <= w.price /\ w.conf = Larger(stated, implied) /\ w.conf \in Nat
      /\ from # {} /\ IsFiniteSet(from)
  BY WindowMeans
<1>2. stated \in Nat
  <2>1. \A s \in from : conf[s] \in Nat
    BY ContributorsAnswer DEF Point
  <2> QED
    BY <1>1, <2>1, MedianNatural
<1> HIDE DEF stated, w
<1>3. /\ w.spread * w.price \in Nat /\ 2 * w.low \in Nat \ {0}
  BY <1>1, ProductNatural
<1>4. implied \in Nat /\ w.spread * w.price <= (2 * w.low) * implied
  BY <1>3, CeilDivNatural, CeilDivCovers
<1> HIDE DEF implied
<1>5. implied <= w.conf
  BY <1>1, <1>2, <1>4 DEF Larger
<1>6. w.spread <= 2 * implied
  <2>1. w.spread * w.low <= w.spread * w.price
    BY <1>1, ProductMonotone
  <2>2. w.low * w.spread <= w.low * (2 * implied)
    <3>1. w.spread * w.low = w.low * w.spread
      BY <1>1
    <3>2. (2 * w.low) * implied = w.low * (2 * implied)
      BY <1>1, <1>4
    <3>3. w.spread * w.low \in Nat /\ w.low * (2 * implied) \in Nat
      BY <1>1, <1>4, ProductNatural
    <3> QED
      BY <1>3, <1>4, <2>1, <3>1, <3>2, <3>3
  <2>3. 2 * implied \in Nat
    BY <1>4
  <2> QED
    BY <1>1, <2>2, <2>3, ProductCancels
<1> QED
  BY <1>1, <1>4, <1>5, <1>6 DEF w

-----------------------------------------------------------------------------
(* What a leg is valued at, and what it was worth. *)

\* A price p with an uncertainty c, an honest price h near it, and the truth t.
FairPrice(p, c, h, t) ==
  /\ Apart(p, h) <= 2 * c
  /\ 1000 * Apart(h, t) <= 3 * t
  /\ 1000 * Apart(p, t) <= 24 * t

\* A price and an uncertainty nobody who answered tampered with.
HeardPrice(p, c, t) ==
  /\ 199 * Apart(p, t) <= t
  /\ 166 * c <= t

LEMMA TruthPositive ==
  ASSUME NEW i \in Incidents, NEW t \in Tokens, NEW m \in 0..Offsets
  PROVE  i.truth[m][t] \in Nat \ {0}
<1>1. i \in Incident
  BY ReviewAssumption
<1>2. i.truth \in [0..Offsets -> [Tokens -> Nat \ {0}]]
  BY <1>1 DEF Incident
<1> QED
  BY <1>2

\* What an honest source answers.
LEMMA HonestAnswer ==
  ASSUME NEW i \in Incidents, NEW t \in Tokens, NEW m \in 0..Offsets,
         NEW answers \in Asked(i, t, m), NEW s \in Contributors(answers),
         s \notin i.poisoned
  PROVE  /\ answers[s].value \in Nat /\ answers[s].conf \in Nat
         /\ 1000 * Apart(answers[s].value, i.truth[m][t]) <= 3 * i.truth[m][t]
         /\ 1000 * answers[s].conf <= 3 * i.truth[m][t]
<1> DEFINE truth == i.truth[m][t]
           value == answers[s].value
           conf  == answers[s].conf
<1>1. answers \in Answers /\ s \in Sources /\ answers[s].kind = "point"
  BY ReviewAssumption DEF Contributors
<1>2. value \in Nat /\ conf \in Nat
  BY <1>1, ContributorsAnswer DEF Point
<1>3. Honest(i, t, m, answers[s])
  BY <1>1, ReviewAssumption
<1>4. 1000 * Apart(value, truth) <= NOISE * truth /\ 1000 * conf <= NOISE * truth
  BY <1>1, <1>3 DEF Honest
<1>5. truth \in Nat
  BY TruthPositive
<1> HIDE DEF truth, value, conf
<1>6. NOISE * truth \in Nat /\ NOISE * truth <= 3 * truth
  BY <1>5, ReviewAssumption
<1>7. Apart(value, truth) \in Nat
  BY <1>2, <1>5, ApartNatural
<1> QED
  BY <1>2, <1>4, <1>5, <1>6, <1>7 DEF truth, value, conf

\* More answers than poisoned sources: an honest one is among them, and the
\* consensus is no further from it than the answers are apart.
LEMMA WindowFair ==
  ASSUME NEW i \in Incidents, NEW t \in Tokens, NEW answers \in Asked(i, t, 0),
         Window(answers).count > 1, Cardinality(i.poisoned) < Window(answers).count,
         ~Disagree(Window(answers))
  PROVE  \E h \in Nat :
           FairPrice(Window(answers).price, Window(answers).conf, h, i.truth[0][t])
<1> DEFINE w     == Window(answers)
           from  == Contributors(answers)
           truth == i.truth[0][t]
<1>1. answers \in Answers /\ 0 \in 0..Offsets /\ truth \in Nat \ {0}
  <2>1. 0 \in 0..Offsets
    BY VerdictAssumption
  <2> QED
    BY <2>1, TruthPositive, ReviewAssumption
<1>2. /\ w.price \in Nat \ {0} /\ w.low \in Nat \ {0} /\ w.count \in Nat
      /\ w.spread \in Nat /\ w.conf \in Nat
      /\ IsFiniteSet(from) /\ w.count = Cardinality(from)
      /\ w.low <= w.price /\ w.price <= w.low + w.spread
      /\ \A s \in from : /\ answers[s].value \in Nat
                         /\ w.low <= answers[s].value
                         /\ answers[s].value <= w.low + w.spread
      /\ w.spread <= 2 * w.conf
  <2>1. w.count > 0
    BY <1>1, WindowTyped DEF Windows
  <2> QED
    BY <1>1, <2>1, WindowMeans, SpreadCovered
<1>3. PICK s \in from : s \notin i.poisoned
  <2>1. IsFiniteSet(i.poisoned) /\ Cardinality(i.poisoned) \in Nat
    <3>1. i.poisoned \subseteq Sources
      BY ReviewAssumption DEF Incident
    <3> QED
      BY <3>1, MarketAssumption, FS_Subset, FS_CardinalityType
  <2>2. ~(from \subseteq i.poisoned)
    BY <1>2, <2>1, FS_Subset
  <2> QED
    BY <2>2
<1> DEFINE h == answers[s].value
<1>4. h \in Nat /\ 1000 * Apart(h, truth) <= 3 * truth
  BY <1>1, <1>3, HonestAnswer
<1>5. w.low <= h /\ h <= w.low + w.spread
  BY <1>2, <1>3
<1>6. 50 * w.spread <= w.low
  BY <1>2 DEF Disagree
<1> HIDE DEF w, h, truth, from
<1>7. Apart(w.price, h) <= w.spread
  BY <1>2, <1>4, <1>5 DEF Apart
<1>8. 1000 * Apart(w.price, truth) <= 24 * truth
  BY <1>1, <1>2, <1>4, <1>5, <1>6, <1>7 DEF Apart
<1>9. FairPrice(w.price, w.conf, h, truth)
  <2>1. Apart(w.price, h) \in Nat
    BY <1>2, <1>4, ApartNatural
  <2> QED
    BY <1>2, <1>4, <1>7, <1>8, <2>1 DEF FairPrice
<1> QED
  BY <1>4, <1>9 DEF w, truth

\* A stable at par while it is worth a dollar, give or take half a cent.
LEMMA ParFair ==
  ASSUME NEW t \in Nat, 200 * Apart(t, UNIT) <= UNIT
  PROVE  FairPrice(UNIT, UNIT \div 200, t, t) /\ HeardPrice(UNIT, UNIT \div 200, t)
<1> DEFINE c == UNIT \div 200
<1>1. UNIT \in Nat \ {0}
  BY MarketAssumption
<1>2. c \in Nat /\ 200 * c <= UNIT /\ UNIT < 200 * c + 200
  BY <1>1
<1> HIDE DEF c
<1>3. /\ Apart(UNIT, t) <= c
      /\ 1000 * Apart(t, t) <= 3 * t
      /\ 1000 * Apart(UNIT, t) <= 24 * t
      /\ 199 * Apart(UNIT, t) <= t /\ 166 * c <= t /\ Apart(UNIT, t) \in Nat
  BY <1>1, <1>2 DEF Apart
<1>4. FairPrice(UNIT, c, t, t) /\ HeardPrice(UNIT, c, t)
  BY <1>2, <1>3 DEF FairPrice, HeardPrice
<1> QED
  BY <1>4 DEF c

\* Where nobody lies the consensus is as good as an honest source, and no less
\* certain than two of them allow.
LEMMA WindowHeard ==
  ASSUME NEW i \in Incidents, NEW t \in Tokens, NEW m \in 0..Offsets,
         NEW answers \in Asked(i, t, m),
         i.poisoned = {}, Window(answers).count > 0
  PROVE  /\ HeardPrice(Window(answers).price, Window(answers).conf, i.truth[m][t])
         /\ 1000 * Apart(Window(answers).price, i.truth[m][t]) <= 3 * i.truth[m][t]
<1> DEFINE w       == Window(answers)
           from    == Contributors(answers)
           truth   == i.truth[m][t]
           conf    == [s \in from |-> answers[s].conf]
           stated  == Median(conf, from)
           implied == CeilDiv(w.spread * w.price, 2 * w.low)
           slack   == (3 * truth) \div 1000
<1>1. answers \in Answers /\ truth \in Nat \ {0}
  BY TruthPositive, ReviewAssumption
<1>2. /\ w.price \in Nat \ {0} /\ w.low \in Nat \ {0}
      /\ w.spread \in Nat /\ w.conf \in Nat
      /\ from # {} /\ IsFiniteSet(from) /\ w.count = Cardinality(from)
      /\ w.low <= w.price /\ w.price <= w.low + w.spread
      /\ \E s \in from : w.low = answers[s].value
      /\ \E s \in from : w.low + w.spread = answers[s].value
      /\ w.conf = Larger(stated, implied)
  BY <1>1, WindowMeans
<1>3. \A s \in from : /\ answers[s].value \in Nat /\ answers[s].conf \in Nat
                      /\ 1000 * Apart(answers[s].value, truth) <= 3 * truth
                      /\ 1000 * answers[s].conf <= 3 * truth
  BY HonestAnswer
<1> HIDE DEF w, truth, from
<1>4. slack \in Nat /\ 1000 * slack <= 3 * truth /\ 3 * truth < 1000 * slack + 1000
  BY <1>1
<1> HIDE DEF slack
<1>5. \A s \in from : /\ answers[s].conf <= slack
                      /\ truth - slack <= answers[s].value
                      /\ answers[s].value <= truth + slack
  <2> SUFFICES ASSUME NEW s \in from
               PROVE  /\ answers[s].conf <= slack
                      /\ truth - slack <= answers[s].value
                      /\ answers[s].value <= truth + slack
    OBVIOUS
  <2> DEFINE v == answers[s].value
             c == answers[s].conf
  <2>1. /\ v \in Nat /\ c \in Nat
        /\ 1000 * Apart(v, truth) <= 3 * truth /\ 1000 * c <= 3 * truth
    BY <1>3
  <2> HIDE DEF v, c
  <2>2. c <= slack /\ truth - slack <= v /\ v <= truth + slack
    BY <1>1, <1>4, <2>1 DEF Apart
  <2> QED
    BY <2>2 DEF v, c
<1>6. stated \in 0..slack
  <2>1. {} \in SUBSET from /\ 2 * Cardinality({}) < Cardinality(from)
    BY <1>2, FS_EmptySet, FS_CardinalityType
  <2>2. /\ \A s \in from : conf[s] \in Nat
        /\ \A s \in from \ {} : 0 <= conf[s] /\ conf[s] <= slack
    BY <1>3, <1>5
  <2> HIDE DEF conf
  <2> QED
    BY <1>2, <1>4, <2>1, <2>2, MedianResistsMinority
<1>7. truth - slack <= w.low /\ w.low + w.spread <= truth + slack
  BY <1>2, <1>5
<1>8. w.spread <= 2 * slack /\ w.price <= 2 * w.low
  BY <1>1, <1>2, <1>4, <1>7
<1>9. implied \in Nat /\ implied <= 2 * slack
  <2>1. w.spread * w.price <= (2 * w.low) * (2 * slack)
    <3>1. w.spread * w.price <= w.spread * (2 * w.low)
      BY <1>2, <1>8, ProductMonotone
    <3>2. (2 * w.low) * w.spread <= (2 * w.low) * (2 * slack)
      BY <1>2, <1>4, <1>8, ProductMonotone
    <3>3. w.spread * (2 * w.low) = (2 * w.low) * w.spread
      BY <1>2
    <3>4. /\ w.spread * w.price \in Nat /\ w.spread * (2 * w.low) \in Nat
          /\ (2 * w.low) * (2 * slack) \in Nat
      BY <1>2, <1>4, ProductNatural
    <3> QED
      BY <3>1, <3>2, <3>3, <3>4
  <2>2. w.spread * w.price \in Nat /\ 2 * w.low \in Nat \ {0} /\ 2 * slack \in Nat
    BY <1>2, <1>4, ProductNatural
  <2> QED
    BY <2>1, <2>2, CeilDivNatural, CeilDivCovers
<1> HIDE DEF stated, implied
<1>10. w.conf <= 2 * slack
  BY <1>2, <1>4, <1>6, <1>9 DEF Larger
<1>11. /\ 1000 * Apart(w.price, truth) <= 3 * truth
       /\ 199 * Apart(w.price, truth) <= truth
  BY <1>1, <1>2, <1>4, <1>7 DEF Apart
<1>12. 166 * w.conf <= truth
  BY <1>1, <1>2, <1>4, <1>10
<1> QED
  BY <1>11, <1>12 DEF HeardPrice, w, truth

-----------------------------------------------------------------------------
(* What a trade is worth, leg by leg. *)

\* g holds the sums of the first values of w, up to n of them.
Sums(g, w, n) ==
  /\ g \in [0..n -> Nat] /\ g[0] = 0
  /\ \A k \in 1..n : g[k] = g[k - 1] + w[k]

LEMMA SumsExist ==
  ASSUME NEW n \in Nat, NEW w, \A k \in 1..n : w[k] \in Nat
  PROVE  \E g : Sums(g, w, n)
<1> DEFINE Missing == {m \in 0..n : ~\E g : Sums(g, w, m)}
<1>1. SUFFICES Missing = {}
  OBVIOUS
<1>2. SUFFICES ASSUME Missing # {} PROVE FALSE
  OBVIOUS
<1>3. PICK m \in Missing : \A k \in Missing : m <= k
  <2>1. Missing \in SUBSET Nat
    OBVIOUS
  <2> HIDE DEF Missing
  <2> QED
    BY <1>2, <2>1, LeastNatural
<1>4. m # 0
  <2> DEFINE g == [k \in 0..0 |-> 0]
  <2>1. Sums(g, w, 0)
    BY DEF Sums
  <2> QED
    BY <1>3, <2>1
<1>5. m - 1 \in 0..n /\ m \in 1..n /\ m - 1 \notin Missing
  BY <1>3, <1>4
<1>6. PICK f : Sums(f, w, m - 1)
  BY <1>5
<1> DEFINE g == [k \in 0..m |-> IF k = m THEN f[m - 1] + w[m] ELSE f[k]]
<1>7. Sums(g, w, m)
  <2>1. m - 1 \in Nat /\ f[m - 1] \in Nat /\ w[m] \in Nat /\ f[0] = 0
    BY <1>5, <1>6 DEF Sums
  <2>2. \A k \in 0..m : k # m => k \in 0..(m - 1) /\ f[k] \in Nat
    BY <1>5, <1>6 DEF Sums
  <2>3. g \in [0..m -> Nat]
    BY <1>5, <2>1, <2>2
  <2>4. g[0] = 0
    BY <1>4, <1>5, <2>1
  <2>5. ASSUME NEW k \in 1..m PROVE g[k] = g[k - 1] + w[k]
    <3>1. CASE k = m
      <4>1. m - 1 \in 0..m /\ m \in 0..m /\ m - 1 # m
        BY <1>5
      <4> QED
        BY <3>1, <4>1
    <3>2. CASE k # m
      <4>1. /\ k \in 1..(m - 1) /\ k - 1 \in 0..m /\ k \in 0..m
            /\ k - 1 # m
        BY <1>5, <3>2
      <4>2. f[k] = f[k - 1] + w[k]
        BY <1>6, <4>1 DEF Sums
      <4> QED
        BY <3>2, <4>1, <4>2
    <3> QED
      BY <3>1, <3>2
  <2> HIDE DEF g
  <2> QED
    BY <2>3, <2>4, <2>5 DEF Sums
<1> QED
  BY <1>3, <1>7

\* Worth adds up the legs.
LEMMA WorthAdds ==
  ASSUME NEW legs \in Seq(Delta), NEW price \in [Tokens -> Nat \ {0}]
  PROVE  /\ Worth(legs, price, 0) = 0
         /\ \A n \in 0..Len(legs) : Worth(legs, price, n) \in Nat
         /\ \A n \in 1..Len(legs) :
              Worth(legs, price, n)
                = Worth(legs, price, n - 1) + legs[n].amount * price[legs[n].token]
<1> DEFINE size == Len(legs)
           w == [k \in 1..size |-> legs[k].amount * price[legs[k].token]]
           Step(g) == [k \in 0..size |->
                         IF k = 0 THEN 0
                         ELSE g[k - 1] + legs[k].amount * price[legs[k].token]]
           worth == CHOOSE g : g = Step(g)
<1>1. size \in Nat
  BY LenProperties
<1>2. \A k \in 1..size : w[k] \in Nat
  <2> SUFFICES ASSUME NEW k \in 1..size PROVE w[k] \in Nat
    OBVIOUS
  <2>1. legs[k] \in Delta
    BY ElementOfSeq
  <2>2. legs[k].amount \in Nat /\ price[legs[k].token] \in Nat
    BY <2>1 DEF Delta
  <2> QED
    BY <2>2, ProductNatural
<1>3. PICK g : Sums(g, w, size)
  <2> HIDE DEF w, size
  <2> QED
    BY <1>1, <1>2, SumsExist
<1>4. g = Step(g)
  <2>1. /\ g = [k \in 0..size |-> g[k]] /\ g[0] = 0
        /\ \A k \in 1..size : g[k] = g[k - 1] + w[k]
    BY <1>3 DEF Sums
  <2>2. \A k \in 0..size : k # 0 => k \in 1..size
    BY <1>1
  <2>3. \A k \in 0..size : g[k] = Step(g)[k]
    BY <2>1, <2>2
  <2> QED
    BY <2>1, <2>3
<1>5. worth = Step(worth)
  <2> HIDE DEF Step
  <2> QED
    BY <1>4
<1>6. \A n : Worth(legs, price, n) = worth[n]
  BY DEF Worth
<1> HIDE DEF worth
<1>7. /\ worth[0] = 0
      /\ \A n \in 1..size :
           worth[n] = worth[n - 1] + legs[n].amount * price[legs[n].token]
  <2>1. 0 \in 0..size /\ \A n \in 1..size : n \in 0..size /\ n # 0
    BY <1>1
  <2> QED
    BY <1>5, <2>1
<1>8. \A n \in 0..size : worth[n] \in Nat
  <2> DEFINE Off == {n \in 0..size : worth[n] \notin Nat}
  <2>1. SUFFICES ASSUME Off # {} PROVE FALSE
    OBVIOUS
  <2>2. PICK n \in Off : \A k \in Off : n <= k
    <3>1. Off \in SUBSET Nat
      BY <1>1
    <3> HIDE DEF Off
    <3> QED
      BY <2>1, <3>1, LeastNatural
  <2>3. n \in 1..size /\ n - 1 \in 0..size /\ n - 1 \notin Off
    BY <1>1, <1>7, <2>2
  <2>4. worth[n - 1] \in Nat /\ worth[n] = worth[n - 1] + w[n] /\ w[n] \in Nat
    BY <1>2, <1>7, <2>3
  <2> HIDE DEF w
  <2> QED
    BY <2>2, <2>4
<1> QED
  BY <1>6, <1>7, <1>8

\* Totals that an honest valuation hs, hb explains, where the trade was worth
\* ts and tb.
FairTotals(sold, bought, conf, ts, tb) ==
  /\ \E hs \in Nat, hb \in Nat :
       /\ Apart(sold, hs) + Apart(bought, hb) <= 2 * conf
       /\ 1000 * Apart(hs, ts) <= 3 * ts
       /\ 1000 * Apart(hb, tb) <= 3 * tb
  /\ 1000 * Apart(sold, ts) <= 24 * ts
  /\ 1000 * Apart(bought, tb) <= 24 * tb

\* Totals nobody who answered tampered with.
HeardTotals(sold, bought, conf, ts, tb) ==
  /\ 199 * Apart(sold, ts) <= ts
  /\ 199 * Apart(bought, tb) <= tb
  /\ 166 * conf <= ts + tb

\* An amount at a fair price, with its uncertainty.
LEMMA FairAmount ==
  ASSUME NEW a \in Nat, NEW p \in Nat, NEW c \in Nat, NEW h \in Nat, NEW t \in Nat,
         FairPrice(p, c, h, t)
  PROVE  /\ FairPrice(a * p, a * c, a * h, a * t)
         /\ a * p \in Nat /\ a * c \in Nat /\ a * h \in Nat /\ a * t \in Nat
<1> DEFINE one == 1
<1>1. one * Apart(p, h) <= 2 * c
  BY ApartNatural DEF FairPrice
<1> HIDE DEF one
<1>2. one * Apart(a * p, a * h) <= 2 * (a * c)
  BY <1>1, AmountApart DEF one
<1>3. /\ 1000 * Apart(a * h, a * t) <= 3 * (a * t)
      /\ 1000 * Apart(a * p, a * t) <= 24 * (a * t)
  <2> DEFINE k == 1000
             m == 3
             n == 24
  <2>1. k * Apart(h, t) <= m * t /\ k * Apart(p, t) <= n * t
    BY DEF FairPrice
  <2>2. k \in Nat /\ m \in Nat /\ n \in Nat
    OBVIOUS
  <2> HIDE DEF k, m, n
  <2>3. k * Apart(a * h, a * t) <= m * (a * t)
    BY <2>1, <2>2, AmountApart
  <2>4. k * Apart(a * p, a * t) <= n * (a * t)
    BY <2>1, <2>2, AmountApart
  <2> QED
    BY <2>3, <2>4 DEF k, m, n
<1>4. a * p \in Nat /\ a * c \in Nat /\ a * h \in Nat /\ a * t \in Nat
  BY ProductNatural
<1>5. Apart(a * p, a * h) \in Nat
  BY <1>4, ApartNatural
<1> QED
  BY <1>2, <1>3, <1>4, <1>5 DEF FairPrice, one

LEMMA HeardAmount ==
  ASSUME NEW a \in Nat, NEW p \in Nat, NEW c \in Nat, NEW t \in Nat,
         HeardPrice(p, c, t)
  PROVE  /\ HeardPrice(a * p, a * c, a * t)
         /\ a * p \in Nat /\ a * c \in Nat /\ a * t \in Nat
<1> DEFINE one == 1
<1>1. 199 * Apart(p, t) <= one * t
  BY DEF HeardPrice
<1> HIDE DEF one
<1>2. 199 * Apart(a * p, a * t) <= one * (a * t)
  BY <1>1, AmountApart DEF one
<1>3. a * p \in Nat /\ a * c \in Nat /\ a * t \in Nat
  BY ProductNatural
<1>4. 166 * (a * c) <= a * t
  <2>1. a * (166 * c) <= a * t
    BY ProductMonotone DEF HeardPrice
  <2>2. a * (166 * c) = 166 * (a * c)
    OBVIOUS
  <2> QED
    BY <2>1, <2>2
<1> QED
  BY <1>2, <1>3, <1>4 DEF HeardPrice, one

LEMMA FairTotalsAdd ==
  ASSUME NEW s \in Nat, NEW b \in Nat, NEW c \in Nat, NEW ts \in Nat, NEW tb \in Nat,
         FairTotals(s, b, c, ts, tb),
         NEW p \in Nat, NEW q \in Nat, NEW h \in Nat, NEW t \in Nat,
         FairPrice(p, q, h, t)
  PROVE  /\ FairTotals(s + p, b, c + q, ts + t, tb)
         /\ FairTotals(s, b + p, c + q, ts, tb + t)
<1>1. PICK hs \in Nat, hb \in Nat :
        /\ Apart(s, hs) + Apart(b, hb) <= 2 * c
        /\ 1000 * Apart(hs, ts) <= 3 * ts
        /\ 1000 * Apart(hb, tb) <= 3 * tb
  BY DEF FairTotals
<1>2. /\ 1000 * Apart(s, ts) <= 24 * ts /\ 1000 * Apart(b, tb) <= 24 * tb
      /\ Apart(p, h) <= 2 * q /\ 1000 * Apart(h, t) <= 3 * t
      /\ 1000 * Apart(p, t) <= 24 * t
  BY DEF FairTotals, FairPrice
<1>3. \A x \in Nat, y \in Nat, u \in Nat, v \in Nat :
        Apart(x + u, y + v) <= Apart(x, y) + Apart(u, v)
  BY DEF Apart
<1>4. \A x \in Nat, y \in Nat : Apart(x, y) \in Nat
  BY ApartNatural
<1>5. /\ Apart(s + p, hs + h) <= Apart(s, hs) + Apart(p, h)
      /\ Apart(hs + h, ts + t) <= Apart(hs, ts) + Apart(h, t)
      /\ Apart(s + p, ts + t) <= Apart(s, ts) + Apart(p, t)
      /\ Apart(b + p, hb + h) <= Apart(b, hb) + Apart(p, h)
      /\ Apart(hb + h, tb + t) <= Apart(hb, tb) + Apart(h, t)
      /\ Apart(b + p, tb + t) <= Apart(b, tb) + Apart(p, t)
  BY <1>3
<1>6. /\ Apart(s, hs) \in Nat /\ Apart(b, hb) \in Nat /\ Apart(p, h) \in Nat
      /\ Apart(hs, ts) \in Nat /\ Apart(hb, tb) \in Nat /\ Apart(h, t) \in Nat
      /\ Apart(s, ts) \in Nat /\ Apart(b, tb) \in Nat /\ Apart(p, t) \in Nat
  BY <1>4
<1>7. /\ Apart(s + p, hs + h) \in Nat /\ Apart(hs + h, ts + t) \in Nat
      /\ Apart(s + p, ts + t) \in Nat /\ Apart(b + p, hb + h) \in Nat
      /\ Apart(hb + h, tb + t) \in Nat /\ Apart(b + p, tb + t) \in Nat
  <2>1. /\ s + p \in Nat /\ b + p \in Nat /\ hs + h \in Nat
        /\ hb + h \in Nat /\ ts + t \in Nat /\ tb + t \in Nat
    OBVIOUS
  <2> QED
    BY <1>4, <2>1
<1>8. /\ hs + h \in Nat /\ hb + h \in Nat
      /\ Apart(s + p, hs + h) + Apart(b, hb) <= 2 * (c + q)
      /\ Apart(s, hs) + Apart(b + p, hb + h) <= 2 * (c + q)
      /\ 1000 * Apart(hs + h, ts + t) <= 3 * (ts + t)
      /\ 1000 * Apart(hb + h, tb + t) <= 3 * (tb + t)
      /\ 1000 * Apart(s + p, ts + t) <= 24 * (ts + t)
      /\ 1000 * Apart(b + p, tb + t) <= 24 * (tb + t)
  BY <1>1, <1>2, <1>5, <1>6, <1>7
<1>9. FairTotals(s + p, b, c + q, ts + t, tb)
  BY <1>1, <1>2, <1>8 DEF FairTotals
<1>10. FairTotals(s, b + p, c + q, ts, tb + t)
  BY <1>1, <1>2, <1>8 DEF FairTotals
<1> QED
  BY <1>9, <1>10

LEMMA HeardTotalsAdd ==
  ASSUME NEW s \in Nat, NEW b \in Nat, NEW c \in Nat, NEW ts \in Nat, NEW tb \in Nat,
         HeardTotals(s, b, c, ts, tb),
         NEW p \in Nat, NEW q \in Nat, NEW t \in Nat, HeardPrice(p, q, t)
  PROVE  /\ HeardTotals(s + p, b, c + q, ts + t, tb)
         /\ HeardTotals(s, b + p, c + q, ts, tb + t)
BY DEF HeardTotals, HeardPrice, Apart

LEMMA NoTotals == FairTotals(0, 0, 0, 0, 0) /\ HeardTotals(0, 0, 0, 0, 0)
BY DEF FairTotals, HeardTotals, Apart

-----------------------------------------------------------------------------
(* The evidence of a pass. *)

PassFields ==
  {"next", "sold", "bought", "conf", "subject", "priced", "sources", "spread",
   "skew", "unsigned", "par", "late", "series", "sampled"}

\* What a pass holds, field by field.
PassKept(p) ==
  /\ p = [f \in PassFields |-> p[f]]
  /\ DOMAIN p = PassFields
  /\ p.next \in Nat \ {0} /\ p.sold \in Nat /\ p.bought \in Nat /\ p.conf \in Nat
  /\ p.subject \in Subjects
  /\ p.priced \in BOOLEAN /\ p.sources \in Nat /\ p.spread \in Nat /\ p.skew \in Nat
  /\ p.unsigned \in BOOLEAN /\ p.par \in BOOLEAN /\ p.late \in BOOLEAN
  /\ p.series \in Seq(Samples) /\ p.sampled \in Nat
  /\ p.sources >= 2 => p.unsigned

LEMMA KeptIsPass ==
  ASSUME NEW p, PassKept(p)
  PROVE  p \in Passes
<1>1. p = [next |-> p.next, sold |-> p.sold, bought |-> p.bought,
           conf |-> p.conf, subject |-> p.subject, priced |-> p.priced,
           sources |-> p.sources, spread |-> p.spread, skew |-> p.skew,
           unsigned |-> p.unsigned, par |-> p.par, late |-> p.late,
           series |-> p.series, sampled |-> p.sampled]
  BY DEF PassKept, PassFields
<1> QED
  BY <1>1 DEF PassKept, Passes

LEMMA FreshKept ==
  ASSUME NEW late \in BOOLEAN
  PROVE  PassKept(Fresh(late))
<1>1. <<>> \in Seq(Samples)
  OBVIOUS
<1>2. NoSubject \in Subjects
  BY DEF NoSubject, Subjects
<1> HIDE DEF Subjects, Samples
<1> QED
  BY <1>1, <1>2 DEF Fresh, PassKept, PassFields

\* What joins a pass: a window that names a source of its own among any two.
WindowKept(w) ==
  /\ w \in Windows
  /\ w.count > 0 => w.price > 0 /\ w.low > 0
  /\ w.count >= 2 => w.unsigned

LEMMA NoWindowKept == WindowKept(NoWindow)
BY DEF WindowKept, NoWindow, Windows

LEMMA AskedKept ==
  ASSUME NEW i \in Incidents, NEW t \in Tokens, NEW m \in 0..Offsets,
         NEW answers \in Asked(i, t, m)
  PROVE  WindowKept(Window(answers))
<1>1. /\ answers \in Answers
      /\ \A s \in Sources \ {Pyth} : answers[s].kind = "point" => ~answers[s].signed
  BY ReviewAssumption
<1> QED
  BY <1>1, WindowTyped, SecondAnswerUnsigned DEF WindowKept

LEMMA DispersionNatural ==
  ASSUME NEW w, WindowKept(w)
  PROVE  Dispersion(w) \in Nat
<1>1. /\ w.count \in Nat /\ w.spread \in Nat /\ w.low \in Nat
      /\ w.count > 0 => w.low > 0
  BY DEF WindowKept, Windows
<1>2. CASE w.count < 2
  BY <1>2 DEF Dispersion
<1>3. CASE ~(w.count < 2)
  <2>1. 10000 * w.spread \in Nat /\ w.low \in Nat \ {0}
    BY <1>1, <1>3
  <2>2. (10000 * w.spread) \div w.low \in Nat
    BY <2>1, QuotientNatural
  <2> QED
    BY <1>3, <2>2 DEF Dispersion
<1> QED
  BY <1>2, <1>3

LEMMA WithWindowKept ==
  ASSUME NEW p, PassKept(p), NEW w, WindowKept(w)
  PROVE  PassKept(WithWindow(p, w))
<1>1. CASE w.count = 0
  BY <1>1 DEF WithWindow
<1>2. CASE w.count # 0
  <2> DEFINE q == WithWindow(p, w)
  <2>1. /\ q = [f \in PassFields |-> q[f]] /\ DOMAIN q = PassFields
        /\ \A f \in PassFields \ {"priced", "sources", "spread", "skew", "unsigned"} :
             q[f] = p[f]
    BY <1>2 DEF WithWindow, PassKept, PassFields
  <2>2. /\ q.priced = TRUE
        /\ q.sources = IF p.priced THEN Smaller(p.sources, w.count) ELSE w.count
        /\ q.spread = Larger(p.spread, Dispersion(w))
        /\ q.skew = Larger(p.skew, w.skew)
        /\ q.unsigned = (p.unsigned \/ w.unsigned)
    BY <1>2 DEF WithWindow, PassKept, PassFields
  <2> HIDE DEF q
  <2>3. /\ w.count \in Nat /\ w.skew \in Nat /\ w.unsigned \in BOOLEAN
        /\ w.count >= 2 => w.unsigned
    BY DEF WindowKept, Windows
  <2>4. Dispersion(w) \in Nat
    BY DispersionNatural
  <2>5. /\ q.sources \in Nat /\ q.spread \in Nat /\ q.skew \in Nat
        /\ q.sources >= 2 => p.sources >= 2 \/ w.count >= 2
    BY <2>2, <2>3, <2>4 DEF Smaller, Larger, PassKept
  <2>6. q.priced \in BOOLEAN /\ q.unsigned \in BOOLEAN
    BY <2>2, <2>3 DEF PassKept
  <2>7. q.sources >= 2 => q.unsigned
    BY <2>2, <2>3, <2>5 DEF PassKept
  <2>8. /\ q.next = p.next /\ q.sold = p.sold /\ q.bought = p.bought
        /\ q.conf = p.conf /\ q.subject = p.subject /\ q.par = p.par
        /\ q.late = p.late /\ q.series = p.series /\ q.sampled = p.sampled
    BY <2>1 DEF PassFields
  <2>9. PassKept(q)
    BY <2>1, <2>5, <2>6, <2>7, <2>8 DEF PassKept
  <2> QED
    BY <2>9 DEF q
<1> QED
  BY <1>1, <1>2

LEMMA LegsOfTrade ==
  ASSUME NEW t \in Trade
  PROVE  /\ Legs(t) \in Seq(Delta)
         /\ Len(Legs(t)) = Len(t.sold) + Len(t.bought)
<1>1. t.sold \in Seq(Delta) /\ t.bought \in Seq(Delta)
  BY DEF Trade
<1> QED
  BY <1>1, ConcatProperties DEF Legs

\* The leg a pass is at, at a price the window or par gives it.
LEMMA LegValued ==
  ASSUME NEW t \in Trade, NEW n \in 1..Len(Legs(t)), NEW w, WindowKept(w)
  PROVE  /\ Legs(t)[n].token \in Tokens /\ Legs(t)[n].amount \in Nat
         /\ Legs(t)[n].amount * LegPrice(Legs(t)[n].token, w) \in Nat
         /\ Legs(t)[n].amount * LegConf(Legs(t)[n].token, w) \in Nat
         /\ AtPar(Legs(t)[n].token, w) \in BOOLEAN
<1> DEFINE leg == Legs(t)[n]
<1>1. leg \in Delta
  BY LegsOfTrade, ElementOfSeq
<1>2. leg.token \in Tokens /\ leg.amount \in Nat
  BY <1>1 DEF Delta
<1>3. w.price \in Nat /\ w.conf \in Nat
  BY DEF WindowKept, Windows
<1>4. LegPrice(leg.token, w) \in Nat
  BY <1>3, MarketAssumption DEF LegPrice
<1>5. LegConf(leg.token, w) \in Nat
  BY <1>3, MarketAssumption DEF LegConf
<1>6. AtPar(leg.token, w) \in BOOLEAN
  BY DEF AtPar, Stable
<1> HIDE DEF leg
<1> QED
  BY <1>2, <1>4, <1>5, <1>6, ProductNatural DEF leg

LEMMA SubjectKept ==
  ASSUME NEW t \in Trade, NEW p, PassKept(p), p.next \in 1..Len(Legs(t)),
         NEW w, WindowKept(w)
  PROVE  Subject(p, t, w) \in Subjects
<1> DEFINE leg   == Legs(t)[p.next]
           value == leg.amount * LegPrice(leg.token, w)
<1>1. leg.amount \in Nat /\ value \in Nat /\ p.next \in Nat
  BY LegValued
<1>2. /\ w.price \in Nat /\ w.conf \in Nat /\ w.signed \in Nat
  BY DEF WindowKept, Windows
<1>3. Dispersion(w) \in Nat
  BY DispersionNatural
<1>4. IsSold(t, p.next) \in BOOLEAN
  BY DEF IsSold
<1>5. p.subject \in Subjects
  BY DEF PassKept
<1>6. [amount |-> leg.amount, price |-> w.price, conf |-> w.conf,
       value |-> value, spread |-> Dispersion(w), sold |-> IsSold(t, p.next),
       signed |-> w.signed, leg |-> p.next] \in Subjects
  <2> HIDE DEF leg, value
  <2> QED
    BY <1>1, <1>2, <1>3, <1>4 DEF Subjects
<1> HIDE DEF Subjects
<1> QED
  BY <1>5, <1>6 DEF Subject

LEMMA WithLegKept ==
  ASSUME NEW t \in Trade, NEW p, PassKept(p), p.next \in 1..Len(Legs(t)),
         NEW w, WindowKept(w)
  PROVE  PassKept(WithLeg(p, t, w))
<1> DEFINE r     == WithWindow(p, w)
           q     == WithLeg(p, t, w)
           leg   == Legs(t)[p.next]
           value == leg.amount * LegPrice(leg.token, w)
           conf  == leg.amount * LegConf(leg.token, w)
           par   == AtPar(leg.token, w)
           sold  == IsSold(t, p.next)
           best  == Subject(p, t, w)
<1>1. PassKept(r)
  BY WithWindowKept
<1>2. value \in Nat /\ conf \in Nat /\ par \in BOOLEAN /\ best \in Subjects
  BY LegValued, SubjectKept
<1>3. q = [r EXCEPT
            !.next    = @ + 1,
            !.sold    = IF sold THEN @ + value ELSE @,
            !.bought  = IF sold THEN @ ELSE @ + value,
            !.conf    = @ + conf,
            !.par     = @ \/ par,
            !.subject = best]
  BY DEF WithLeg
<1> HIDE DEF r, q, leg, value, conf, par, sold, best
<1>4. /\ q = [f \in PassFields |-> q[f]] /\ DOMAIN q = PassFields
      /\ \A f \in PassFields \ {"next", "sold", "bought", "conf", "par", "subject"} :
           q[f] = r[f]
  BY <1>1, <1>3 DEF PassKept, PassFields
<1>5. /\ q.next = r.next + 1 /\ q.conf = r.conf + conf /\ q.subject = best
      /\ q.sold = (IF sold THEN r.sold + value ELSE r.sold)
      /\ q.bought = (IF sold THEN r.bought ELSE r.bought + value)
  BY <1>1, <1>3 DEF PassKept, PassFields
<1>6. q.par = (r.par \/ par)
  BY <1>1, <1>3 DEF PassKept, PassFields
<1>7. /\ q.priced = r.priced /\ q.sources = r.sources /\ q.spread = r.spread
      /\ q.skew = r.skew /\ q.unsigned = r.unsigned /\ q.late = r.late
      /\ q.series = r.series /\ q.sampled = r.sampled
  BY <1>4 DEF PassFields
<1>8. /\ q.next \in Nat \ {0} /\ q.conf \in Nat /\ q.subject \in Subjects
      /\ q.sold \in Nat /\ q.bought \in Nat
  <2>1. /\ r.next \in Nat /\ r.sold \in Nat /\ r.bought \in Nat
        /\ r.conf \in Nat
    BY <1>1 DEF PassKept
  <2>2. q.next \in Nat \ {0} /\ q.conf \in Nat /\ q.subject \in Subjects
    <3>1. q.next \in Nat \ {0}
      BY <1>5, <2>1
    <3>2. q.conf \in Nat
      BY <1>2, <1>5, <2>1
    <3>3. q.subject \in Subjects
      BY <1>2, <1>5
    <3> QED
      BY <3>1, <3>2, <3>3
  <2>3. value \in Nat /\ r.sold + value \in Nat /\ r.bought + value \in Nat
    BY <1>2, <2>1
  <2>4. q.sold \in Nat
    BY <1>5, <2>1, <2>3
  <2>5. q.bought \in Nat
    BY <1>5, <2>1, <2>3
  <2> QED
    BY <2>2, <2>4, <2>5
<1>9. q.par \in BOOLEAN
  BY <1>6
<1>10. PassKept(q)
  BY <1>1, <1>4, <1>7, <1>8, <1>9 DEF PassKept
<1> QED
  BY <1>10 DEF q

LEMMA WithSampleKept ==
  ASSUME NEW p, PassKept(p), NEW w, WindowKept(w)
  PROVE  PassKept(WithSample(p, w))
<1> DEFINE q     == WithSample(p, w)
           taken == [price |-> w.price, spread |-> Dispersion(w),
                     conf |-> (10000 * w.conf) \div w.price]
           more  == IF w.count = 0 THEN p.series ELSE Append(p.series, taken)
<1>1. more \in Seq(Samples)
  <2>1. CASE w.count = 0
    BY <2>1 DEF PassKept
  <2>2. CASE w.count # 0
    <3>1. w.price \in Nat \ {0} /\ w.conf \in Nat
      BY <2>2 DEF WindowKept, Windows
    <3>2. (10000 * w.conf) \div w.price \in Nat
      BY <3>1, QuotientNatural
    <3>3. taken \in Samples
      BY <3>1, <3>2, DispersionNatural DEF Samples
    <3> HIDE DEF taken
    <3> QED
      BY <2>2, <3>3, AppendProperties DEF PassKept
  <2> QED
    BY <2>1, <2>2
<1>2. q = [p EXCEPT !.sampled = @ + 1, !.series = more]
  BY DEF WithSample
<1> HIDE DEF q, more
<1>3. /\ q = [f \in PassFields |-> q[f]] /\ DOMAIN q = PassFields
      /\ \A f \in PassFields \ {"sampled", "series"} : q[f] = p[f]
      /\ q.sampled = p.sampled + 1 /\ q.series = more
  BY <1>2 DEF PassKept, PassFields
<1>4. /\ q.next = p.next /\ q.sold = p.sold /\ q.bought = p.bought
      /\ q.conf = p.conf /\ q.subject = p.subject /\ q.priced = p.priced
      /\ q.sources = p.sources /\ q.spread = p.spread /\ q.skew = p.skew
      /\ q.unsigned = p.unsigned /\ q.par = p.par /\ q.late = p.late
  BY <1>3 DEF PassFields
<1>5. p.sampled \in Nat
  BY DEF PassKept
<1>6. q.sampled \in Nat
  BY <1>3, <1>5
<1>7. PassKept(q)
  BY <1>1, <1>3, <1>4, <1>6 DEF PassKept
<1> QED
  BY <1>7 DEF q

-----------------------------------------------------------------------------
(* The judgement. *)

LEMMA SeriesFinite ==
  ASSUME NEW p, PassKept(p)
  PROVE  /\ IsFiniteSet(DOMAIN p.series) /\ DOMAIN p.series = 1..Len(p.series)
         /\ Len(p.series) \in Nat
         /\ \A k \in DOMAIN p.series :
              p.series[k].price \in Nat /\ p.series[k].price > 0
<1>1. p.series \in Seq(Samples)
  BY DEF PassKept
<1>2. DOMAIN p.series = 1..Len(p.series) /\ Len(p.series) \in Nat
  BY <1>1, LenProperties
<1>3. IsFiniteSet(1..Len(p.series))
  BY <1>2, FS_Interval
<1>4. \A k \in 1..Len(p.series) : p.series[k] \in Samples
  BY <1>1, ElementOfSeq
<1> QED
  BY <1>2, <1>3, <1>4 DEF Samples

LEMMA TurbulenceNatural ==
  ASSUME NEW p, PassKept(p)
  PROVE  Turbulence(p) \in Nat
<1> DEFINE all   == DOMAIN p.series
           price == SeriesPrice(p)
           low   == Lowest(price, all)
           apart == Highest(price, all) - low
<1>1. CASE ~Sampled(p) \/ ~HasSubject(p)
  BY <1>1 DEF Turbulence
<1>2. CASE Sampled(p) /\ HasSubject(p)
  <2>1. IsFiniteSet(all) /\ all # {}
    <3>1. 1 \in 1..Len(p.series)
      BY <1>2, SeriesFinite DEF Sampled
    <3> QED
      BY <3>1, SeriesFinite
  <2>2. \A k \in all : price[k] \in Nat /\ price[k] > 0
    BY SeriesFinite DEF SeriesPrice
  <2> HIDE DEF all, price
  <2>3. /\ low \in Nat /\ Highest(price, all) \in Nat
        /\ low <= Highest(price, all) /\ low \in {price[k] : k \in all}
    BY <2>1, <2>2, ExtremesNatural
  <2>4. low \in Nat \ {0} /\ apart \in Nat
    BY <2>2, <2>3
  <2>5. p.sold \in Nat
    BY DEF PassKept
  <2> HIDE DEF low, apart
  <2>6. CeilDiv(apart * p.sold, low) \in Nat
    BY <2>4, <2>5, ProductNatural, CeilDivNatural
  <2> QED
    BY <1>2, <2>6 DEF Turbulence, low, apart, price, all
<1> QED
  BY <1>1, <1>2

LEMMA ThresholdPositive ==
  ASSUME NEW p, PassKept(p), p.sold > 0
  PROVE  Threshold(p) \in Nat \ {0}
<1>1. p.sold \in Nat /\ p.conf \in Nat
  BY DEF PassKept
<1>2. CeilDiv(p.sold, 200) \in Nat \ {0}
  BY <1>1 DEF CeilDiv
<1>3. CeilDiv(3 * p.sold, 100) \in Nat
  BY <1>1, CeilDivNatural
<1>4. Turbulence(p) \in Nat
  BY TurbulenceNatural
<1> QED
  BY <1>1, <1>2, <1>3, <1>4 DEF Threshold, Larger

LEMMA ScoreBounds ==
  ASSUME NEW present
  PROVE  /\ Score(present) \in 0..140
         /\ present \subseteq {"flash_loan", "sandwich"} => Score(present) <= 65
<1>1. /\ Points(present, "flash_loan") \in {0, 30}
      /\ Points(present, "reference_held") \in {0, 40}
      /\ Points(present, "dispersion_spike") \in {0, 20}
      /\ Points(present, "conf_blowout") \in {0, 15}
      /\ Points(present, "sandwich") \in {0, 35}
  BY DEF Points, Weight
<1>2. present \subseteq {"flash_loan", "sandwich"} =>
        /\ Points(present, "reference_held") = 0
        /\ Points(present, "dispersion_spike") = 0
        /\ Points(present, "conf_blowout") = 0
  BY DEF Points
<1> QED
  BY <1>1, <1>2 DEF Score

\* A claim whose price one source gave, or whose reference was not followed
\* around the trade, never reaches the lane that pays.
LEMMA ConfidenceNeedsCorroboration ==
  ASSUME NEW p, PassKept(p), p.sold > 0, NEW t, NEW raw \in BOOLEAN,
         NEW block \in BOOLEAN
  PROVE  LET c == Confidence(p, Present(p, t, block), Unevaluated(p, raw, block))
         IN  /\ c \in 0..CONFIDENCE_CEILING
             /\ c >= REVIEW_CONFIDENCE => p.sources >= 2 /\ Len(p.series) >= 2
<1> DEFINE need    == Threshold(p)
           missing == Unevaluated(p, raw, block)
           score   == Score(Present(p, t, block))
           margin  == Smaller((333 * (Shortfall(p) - need)) \div need, 999)
           sources == Corroboration(p)
           spread  == Smaller(1000, 2 * p.spread)
           skew    == Smaller(600, 20 * p.skew)
           private == IF p.unsigned THEN 300 ELSE 0
           par     == IF p.par THEN 300 ELSE 0
           late    == IF p.late THEN 500 ELSE 0
           shapes  == Smaller(2500, 35 * score)
           gaps    == Smaller(1000, 200 * missing)
           total   == 5000 + margin + sources - spread - skew - private - par
                        - late + shapes - gaps
<1>1. /\ p.sold \in Nat /\ p.bought \in Nat /\ p.sources \in Nat
      /\ p.spread \in Nat /\ p.skew \in Nat
      /\ p.sources >= 2 => p.unsigned
  BY DEF PassKept
<1>2. margin \in Int /\ margin <= 999
  <2>1. need \in Nat \ {0} /\ Shortfall(p) \in Int
    BY <1>1, ThresholdPositive DEF Shortfall
  <2> HIDE DEF need
  <2>2. (333 * (Shortfall(p) - need)) \div need \in Int
    BY <2>1
  <2> QED
    BY <2>2 DEF Smaller
<1>3. /\ sources \in {500, 0, -1500}
      /\ sources = 500 => p.sources >= 2
      /\ ~(p.sources >= 2) => sources = -1500
  BY <1>1 DEF Corroboration
<1>4. spread \in Nat /\ skew \in Nat
  BY <1>1 DEF Smaller
<1>5. private \in {0, 300} /\ (p.sources >= 2 => private = 300)
  BY <1>1
<1>6. par \in Nat /\ late \in Nat
  OBVIOUS
<1>7. /\ missing \in 2..7
      /\ ~Sampled(p) => missing >= 5
  BY DEF Unevaluated
<1>8. /\ gaps \in 400..1000
      /\ ~Sampled(p) => gaps = 1000
  <2> HIDE DEF missing
  <2> QED
    BY <1>7 DEF Smaller
<1>9. /\ score \in 0..140
      /\ ~Sampled(p) => score <= 65
  BY ScoreBounds DEF Present
<1>10. /\ shapes \in 0..2500
       /\ ~Sampled(p) => shapes <= 2275
  <2> HIDE DEF score
  <2> QED
    BY <1>9 DEF Smaller
<1> HIDE DEF margin, sources, spread, skew, private, par, late, shapes, gaps
<1>11. total \in Int
  BY <1>2, <1>3, <1>4, <1>5, <1>6, <1>8, <1>10
<1>12. ASSUME total >= 7500 PROVE p.sources >= 2
  <2>1. private \in Nat /\ shapes <= 2500 /\ shapes \in Nat
        /\ gaps \in Nat /\ gaps >= 400 /\ sources \in Int
    BY <1>3, <1>5, <1>8, <1>10
  <2>2. ASSUME ~(p.sources >= 2) PROVE total <= 6599
    <3>1. sources = -1500
      BY <1>3, <2>2
    <3> QED
      BY <1>2, <1>4, <1>6, <2>1, <3>1
  <2>3. ~(total <= 6599)
    BY <1>11, <1>12
  <2> QED
    BY <2>2, <2>3
<1>13. ASSUME total >= 7500 PROVE Sampled(p)
  <2>1. private = 300 /\ sources \in Int /\ sources <= 500
    BY <1>3, <1>5, <1>12, <1>13
  <2>2. ASSUME ~Sampled(p) PROVE total <= 7474
    <3>1. gaps = 1000 /\ shapes \in Nat /\ shapes <= 2275
      BY <1>8, <1>10, <2>2
    <3> QED
      BY <1>2, <1>4, <1>6, <2>1, <3>1
  <2>3. ~(total <= 7474)
    BY <1>11, <1>13
  <2> QED
    BY <2>2, <2>3
<1>14. Confidence(p, Present(p, t, block), missing) = Clamp(0, total, 9200)
  BY DEF Confidence, margin, sources, spread, skew, private, par, late, shapes,
         gaps, CONFIDENCE_CEILING
<1> HIDE DEF total
<1>15. /\ Clamp(0, total, 9200) \in 0..9200
       /\ Clamp(0, total, 9200) >= 7500 => total >= 7500
  BY <1>11 DEF Clamp, Larger, Smaller
<1> QED
  BY <1>12, <1>13, <1>14, <1>15
  DEF CONFIDENCE_CEILING, REVIEW_CONFIDENCE, Sampled

LEMMA VerdictMeans ==
  ASSUME NEW p, PassKept(p), NEW t, NEW raw \in BOOLEAN, NEW block \in BOOLEAN
  PROVE  LET v == AdjudicatePrice(p, t, raw, block)
         IN  v.outcome = "confirmed" =>
               /\ p.sold > 0 /\ HasSubject(p)
               /\ v.loss \in MIN_PAYABLE_LOSS..Coverage
               /\ v.confidence
                    = Confidence(p, Present(p, t, block), Unevaluated(p, raw, block))
<1> DEFINE loss    == CapToCoverage(Excess(p))
           present == IF HasSubject(p) THEN Present(p, t, block) ELSE {}
           c       == Confidence(p, present, Unevaluated(p, raw, block))
           v       == AdjudicatePrice(p, t, raw, block)
<1>1. p.sold \in Nat /\ p.bought \in Nat
  BY DEF PassKept
<1>2. loss \in Int /\ loss <= Coverage
  <2>1. Excess(p) \in Int
    BY <1>1 DEF Excess, Shortfall
  <2> QED
    BY <2>1, VerdictAssumption DEF CapToCoverage, Smaller
<1>3. Shortfall(p) \in Int /\ (p.sold > 0 => Threshold(p) \in Int)
  BY <1>1, ThresholdPositive DEF Shortfall
<1> HIDE DEF loss, present, c, v
<1>4. CASE p.sold = 0
  <2>1. v.outcome = "rejected"
    BY <1>1, <1>4 DEF AdjudicatePrice, Rejected, v
  <2> QED
    BY <2>1 DEF v
<1>5. CASE p.sold > 0 /\ Shortfall(p) < Threshold(p)
  <2>1. v.outcome = "rejected"
    BY <1>1, <1>3, <1>5 DEF AdjudicatePrice, Rejected, v
  <2> QED
    BY <2>1 DEF v
<1>6. CASE p.sold > 0 /\ Shortfall(p) >= Threshold(p)
  <2>1. v.outcome = "confirmed" =>
          /\ ~(loss < MIN_PAYABLE_LOSS) /\ present # {}
          /\ v.loss = loss /\ v.confidence = c
    BY <1>1, <1>3, <1>6
    DEF AdjudicatePrice, Rejected, Indeterminate, loss, present, c, v
  <2>2. present # {} => HasSubject(p) /\ present = Present(p, t, block)
    BY DEF present
  <2>3. ~(loss < MIN_PAYABLE_LOSS) => loss \in MIN_PAYABLE_LOSS..Coverage
    BY <1>2, VerdictAssumption
  <2>4. v.outcome = "confirmed" =>
          /\ p.sold > 0 /\ HasSubject(p)
          /\ v.loss \in MIN_PAYABLE_LOSS..Coverage
          /\ v.confidence
               = Confidence(p, Present(p, t, block), Unevaluated(p, raw, block))
    BY <1>6, <2>1, <2>2, <2>3 DEF c
  <2> QED
    BY <2>4 DEF v
<1> QED
  BY <1>1, <1>3, <1>4, <1>5, <1>6

-----------------------------------------------------------------------------
(* What the totals of a pass mean for the market. *)

\* A shortfall past three confidences and past the floor.
Compelling(s, b, c) ==
  s > 0 /\ 3 * c <= s - b /\ 3 * s <= 100 * (s - b)

\* A shortfall of d where the market says ts and tb.
Deserved(d, ts, tb) ==
  /\ 1000 * (ts - tb) > 3 * ts
  /\ 1000 * (d - (ts - tb)) <= 24 * (ts + tb)

\* On fair totals it is a shortfall on the market too, and not far from it.
LEMMA FairShortfall ==
  ASSUME NEW s \in Nat, NEW b \in Nat, NEW c \in Nat, NEW ts \in Nat, NEW tb \in Nat,
         FairTotals(s, b, c, ts, tb),
         Compelling(s, b, c)
  PROVE  Deserved(s - b, ts, tb)
<1>1. PICK hs \in Nat, hb \in Nat :
        /\ Apart(s, hs) + Apart(b, hb) <= 2 * c
        /\ 1000 * Apart(hs, ts) <= 3 * ts
        /\ 1000 * Apart(hb, tb) <= 3 * tb
  BY DEF FairTotals
<1>2. 1000 * Apart(s, ts) <= 24 * ts /\ 1000 * Apart(b, tb) <= 24 * tb
  BY DEF FairTotals
<1>3. /\ s - b - (hs - hb) <= 2 * c
      /\ s - hs <= 2 * c
      /\ 1000 * (hs - ts) <= 3 * ts /\ 1000 * (tb - hb) <= 3 * tb
  BY <1>1 DEF Apart
<1>4. 1000 * (ts - tb) > 3 * ts
  <2>1. /\ 3 * (hs - hb) >= s - b
        /\ 100 * (s - b) >= 3 * s
        /\ 100 * (hs - hb) >= s /\ s > 0
    BY <1>3 DEF Compelling
  <2>2. 100 * (hs - hb) >= hs /\ hs > 0
    BY <1>1, <2>1 DEF Apart, Compelling
  <2> QED
    BY <1>3, <2>2
<1>5. 1000 * ((s - b) - (ts - tb)) <= 24 * (ts + tb)
  <2>1. 1000 * (s - ts) <= 24 * ts /\ 1000 * (tb - b) <= 24 * tb
    BY <1>2 DEF Apart
  <2> QED
    BY <2>1
<1> QED
  BY <1>4, <1>5 DEF Deserved

\* A trade worth ts and tb that lost at least twice what is payable.
Telling(ts, tb, least) ==
  100 * (ts - tb) >= 6 * ts /\ ts - tb >= 2 * least

\* Totals whose shortfall stands out and leaves at least that much.
StandsOut(s, b, c, least) ==
  /\ s > 0 /\ 3 * c <= s - b
  /\ CeilDiv(s, 200) <= s - b /\ CeilDiv(3 * s, 100) <= s - b
  /\ s - b - (30 * s) \div 10000 >= least

\* A shortfall on the market is one on totals nobody tampered with.
LEMMA HeardShortfall ==
  ASSUME NEW s \in Nat, NEW b \in Nat, NEW c \in Nat, NEW ts \in Nat, NEW tb \in Nat,
         HeardTotals(s, b, c, ts, tb), NEW least \in Nat \ {0},
         Telling(ts, tb, least)
  PROVE  StandsOut(s, b, c, least)
<1>1. /\ 199 * (ts - s) <= ts /\ 199 * (s - ts) <= ts
      /\ 199 * (b - tb) <= tb /\ 166 * c <= ts + tb
  BY DEF HeardTotals, Apart
<1>2. 100 * (ts - tb) >= 6 * ts /\ ts - tb >= 2 * least
  BY DEF Telling
<1>3. s > 0 /\ 3 * c <= s - b /\ 3 * s <= 100 * (s - b) /\ s - b \in Nat
  BY <1>2, <1>1
<1>4. s <= 200 * (s - b)
  BY <1>3
<1>5. CeilDiv(s, 200) <= s - b
  BY <1>3, <1>4, CeilDivCovers
<1>6. CeilDiv(3 * s, 100) <= s - b
  <2>1. 3 * s \in Nat
    OBVIOUS
  <2> QED
    BY <1>3, <2>1, CeilDivCovers
<1>7. s - b - (30 * s) \div 10000 >= least
  <2>1. (30 * s) \div 10000 \in Nat /\ 10000 * ((30 * s) \div 10000) <= 30 * s
    OBVIOUS
  <2> DEFINE fee == (30 * s) \div 10000
  <2>2. fee \in Nat /\ 10000 * fee <= 30 * s
    BY <2>1
  <2> HIDE DEF fee
  <2>3. s - b - fee >= least
    BY <1>2, <1>1, <1>3, <2>2
  <2> QED
    BY <2>3 DEF fee
<1> QED
  BY <1>3, <1>5, <1>6, <1>7 DEF StandsOut

\* Samples near one price make no turbulence that the floor does not cover.
LEMMA StillTurbulence ==
  ASSUME NEW p, PassKept(p), NEW t \in Nat \ {0},
         \A k \in 1..Len(p.series) : 1000 * Apart(p.series[k].price, t) <= 3 * t
  PROVE  Turbulence(p) <= CeilDiv(3 * p.sold, 100)
<1> DEFINE all   == DOMAIN p.series
           price == SeriesPrice(p)
           low   == Lowest(price, all)
           high  == Highest(price, all)
           floor == CeilDiv(3 * p.sold, 100)
<1>1. p.sold \in Nat
  BY DEF PassKept
<1>2. floor \in Nat /\ 3 * p.sold <= 100 * floor
  <2>1. 3 * p.sold \in Nat /\ 100 \in Nat \ {0}
    BY <1>1
  <2> QED
    BY <2>1, CeilDivNatural, CeilDivCovers
<1>3. CASE ~Sampled(p) \/ ~HasSubject(p)
  BY <1>2, <1>3 DEF Turbulence
<1>4. CASE Sampled(p) /\ HasSubject(p)
  <2>1. IsFiniteSet(all) /\ all # {}
    <3>1. 1 \in 1..Len(p.series)
      BY <1>4, SeriesFinite DEF Sampled
    <3> QED
      BY <3>1, SeriesFinite
  <2>2. \A k \in all : /\ price[k] \in Nat /\ price[k] > 0
                       /\ 1000 * Apart(price[k], t) <= 3 * t
    <3>1. \A k \in all : /\ price[k] = p.series[k].price /\ k \in 1..Len(p.series)
                         /\ p.series[k].price \in Nat /\ p.series[k].price > 0
      BY SeriesFinite DEF SeriesPrice
    <3> HIDE DEF all, price
    <3> QED
      BY <3>1
  <2> HIDE DEF all, price
  <2>3. /\ low \in Nat /\ high \in Nat
        /\ low \in {price[k] : k \in all} /\ high \in {price[k] : k \in all}
        /\ low <= high
    BY <2>1, <2>2, ExtremesNatural, HighestMeans
  <2> HIDE DEF low, high
  <2>4. /\ low > 0 /\ 1000 * Apart(low, t) <= 3 * t
        /\ 1000 * Apart(high, t) <= 3 * t
    BY <2>2, <2>3
  <2>5. 100 * (high - low) <= 3 * low
    BY <2>3, <2>4 DEF Apart
  <2> DEFINE apart == high - low
  <2>6. apart \in Nat /\ 100 * apart <= 3 * low
    BY <2>3, <2>5
  <2> HIDE DEF apart, floor
  <2>7. apart * p.sold <= low * floor
    <3> DEFINE sold == p.sold
    <3>1. sold \in Nat /\ 3 * sold <= 100 * floor
      BY <1>1, <1>2
    <3> HIDE DEF sold
    <3>2. sold * (100 * apart) <= sold * (3 * low)
      BY <2>3, <2>6, <3>1, ProductMonotone
    <3>3. low * (3 * sold) <= low * (100 * floor)
      BY <1>2, <2>3, <3>1, ProductMonotone
    <3>4. /\ sold * (100 * apart) = 100 * (apart * sold)
          /\ sold * (3 * low) = low * (3 * sold)
          /\ low * (100 * floor) = 100 * (low * floor)
      BY <1>2, <2>3, <2>6, <3>1
    <3>5. /\ apart * sold \in Nat /\ low * floor \in Nat /\ low * (3 * sold) \in Nat
      BY <1>2, <2>3, <2>6, <3>1, ProductNatural
    <3>6. apart * sold <= low * floor
      BY <3>2, <3>3, <3>4, <3>5
    <3> QED
      BY <3>6 DEF sold
  <2>8. CeilDiv(apart * p.sold, low) <= floor
    <3>1. apart * p.sold \in Nat /\ low \in Nat \ {0}
      BY <1>1, <2>3, <2>4, <2>6, ProductNatural
    <3> QED
      BY <1>2, <2>7, <3>1, CeilDivCovers
  <2>9. Turbulence(p) = CeilDiv(apart * p.sold, low)
    BY <1>4 DEF Turbulence, apart, low, high, price, all
  <2> QED
    BY <2>8, <2>9 DEF floor
<1> QED
  BY <1>3, <1>4

\* What a confirmed verdict found.
LEMMA ConfirmedMeans ==
  ASSUME NEW p, PassKept(p), NEW t, NEW raw \in BOOLEAN, NEW block \in BOOLEAN,
         AdjudicatePrice(p, t, raw, block).outcome = "confirmed"
  PROVE  /\ p.sold > 0 /\ p.conf \in Nat /\ p.bought \in Nat /\ p.sold \in Nat
         /\ 3 * p.conf <= p.sold - p.bought
         /\ 3 * p.sold <= 100 * (p.sold - p.bought)
         /\ AdjudicatePrice(p, t, raw, block).loss \in Int
         /\ AdjudicatePrice(p, t, raw, block).loss <= p.sold - p.bought
<1> DEFINE v     == AdjudicatePrice(p, t, raw, block)
           d     == p.sold - p.bought
           floor == CeilDiv(3 * p.sold, 100)
<1>1. p.sold \in Nat /\ p.bought \in Nat /\ p.conf \in Nat
  BY DEF PassKept
<1>2. p.sold > 0
  BY VerdictMeans
<1>3. Threshold(p) \in Nat /\ 3 * p.conf <= Threshold(p) /\ floor <= Threshold(p)
  <2>1. /\ CeilDiv(p.sold, 200) \in Nat /\ floor \in Nat /\ Turbulence(p) \in Nat
        /\ 3 * p.conf \in Nat
    <3>1. 3 * p.sold \in Nat /\ 3 * p.conf \in Nat
      BY <1>1
    <3> QED
      BY <1>1, <3>1, CeilDivNatural, TurbulenceNatural
  <2> HIDE DEF floor
  <2>2. \A x \in Nat, y \in Nat : /\ Larger(x, y) \in Nat
                                  /\ x <= Larger(x, y) /\ y <= Larger(x, y)
    BY DEF Larger
  <2> DEFINE u == Larger(CeilDiv(p.sold, 200), 3 * p.conf)
             z == Larger(Turbulence(p), floor)
  <2>3. Threshold(p) = Larger(u, z)
    BY DEF Threshold, floor
  <2>4. u \in Nat /\ 3 * p.conf <= u /\ z \in Nat /\ floor <= z
    BY <2>1, <2>2
  <2> HIDE DEF u, z
  <2>5. Larger(u, z) \in Nat /\ u <= Larger(u, z) /\ z <= Larger(u, z)
    BY <2>2, <2>4
  <2> QED
    BY <2>1, <2>3, <2>4, <2>5
<1>4. 3 * p.sold <= 100 * floor /\ floor \in Nat
  <2>1. 3 * p.sold \in Nat /\ 100 \in Nat \ {0}
    BY <1>1
  <2> QED
    BY <2>1, CeilDivNatural, CeilDivCovers
<1> HIDE DEF v, d, floor
<1>5. d \in Int /\ Shortfall(p) = d
  BY <1>1 DEF Shortfall, d
<1>6. ~(d < Threshold(p))
  <2>1. ASSUME d < Threshold(p) PROVE v.outcome = "rejected"
    BY <1>1, <1>2, <1>3, <1>5, <2>1 DEF AdjudicatePrice, Rejected, v
  <2> QED
    BY <2>1 DEF v
<1>7. v.loss = CapToCoverage(Excess(p))
  BY <1>1, <1>2, <1>3, <1>5, <1>6 DEF AdjudicatePrice, Rejected, Indeterminate, v
<1>8. v.loss \in Int /\ v.loss <= d
  <2>1. (30 * p.sold) \div 10000 \in Nat
    BY <1>1
  <2>2. Excess(p) \in Int /\ Excess(p) <= d
    BY <1>5, <2>1 DEF Excess
  <2> QED
    BY <1>5, <1>7, <2>2, VerdictAssumption DEF CapToCoverage, Smaller
<1> QED
  BY <1>1, <1>2, <1>3, <1>4, <1>5, <1>6, <1>8 DEF v, d

\* What a rejection rests on.
LEMMA RejectedMeans ==
  ASSUME NEW p, PassKept(p), NEW t, NEW raw \in BOOLEAN, NEW block \in BOOLEAN,
         AdjudicatePrice(p, t, raw, block).outcome = "rejected",
         p.sold > 0, Threshold(p) <= p.sold - p.bought,
         MIN_PAYABLE_LOSS <= p.sold - p.bought - (30 * p.sold) \div 10000
  PROVE  t.depth >= DOMINANT_DEPTH_SHARE
<1> DEFINE v == AdjudicatePrice(p, t, raw, block)
           d == p.sold - p.bought
           x == Excess(p)
<1>1. p.sold \in Nat /\ p.bought \in Nat /\ Threshold(p) \in Int
  <2>1. Threshold(p) \in Nat
    BY ThresholdPositive
  <2> QED
    BY <2>1 DEF PassKept
<1>2. x \in Int /\ MIN_PAYABLE_LOSS <= x /\ x > 0
  <2>1. (30 * p.sold) \div 10000 \in Nat
    BY <1>1
  <2> QED
    BY <1>1, <2>1, VerdictAssumption DEF Excess, Shortfall
<1> HIDE DEF v, x
<1>3. ~(CapToCoverage(x) < MIN_PAYABLE_LOSS)
  BY <1>2, VerdictAssumption DEF CapToCoverage, Smaller
<1>4. Shortfall(p) \in Int /\ ~(Shortfall(p) < Threshold(p)) /\ p.sold # 0
  BY <1>1 DEF Shortfall
<1>5. ~(x <= 0)
  BY <1>2
<1> QED
  BY <1>1, <1>3, <1>4, <1>5 DEF AdjudicatePrice, Rejected, Indeterminate, v, x

-----------------------------------------------------------------------------
(* The invariant. *)

ClaimFields ==
  {"status", "reason", "attempts", "loss", "confidence", "proof", "sources",
   "sampled"}

ClaimKept ==
  /\ DOMAIN claim = ClaimFields
  /\ claim.status \in Open \cup Decided
  /\ claim.attempts \in 0..MAX_VERIFY_ATTEMPTS
  /\ claim.loss \in 0..Coverage
  /\ claim.confidence \in 0..CONFIDENCE_CEILING
  /\ claim.status \in Open => claim.attempts < MAX_VERIFY_ATTEMPTS

\* Only an open claim has a pass under way, on evidence about its own trade.
PassUnderWay ==
  pass # Idle =>
    /\ claim.status \in Open
    /\ PassKept(pass)
    /\ pass.subject.leg <= Len(Legs(trade))

PriceInv ==
  /\ incident \in Incidents
  /\ ClaimKept
  /\ PassUnderWay
  /\ PaidIsCorroborated

LEMMA IncidentTrade ==
  ASSUME incident \in Incidents
  PROVE  trade \in Trade
<1>1. incident \in Incident
  BY ReviewAssumption
<1> QED
  BY <1>1 DEF Incident, trade

LEMMA PassIsNotIdle ==
  ASSUME NEW p, PassKept(p)
  PROVE  p # Idle
<1>1. DOMAIN Idle = {"next"}
  BY DEF Idle
<1>2. "sold" \in DOMAIN p
  BY DEF PassKept, PassFields
<1> QED
  BY <1>1, <1>2

LEMMA InitPriceInv == PriceInit => PriceInv
<1> SUFFICES ASSUME PriceInit
             PROVE  PriceInv
  OBVIOUS
<1>1. incident \in Incidents /\ claim = Filed /\ pass = Idle
  BY DEF PriceInit
<1>2. /\ DOMAIN claim = ClaimFields /\ claim.status = "pending"
      /\ claim.attempts = 0 /\ claim.loss = 0 /\ claim.confidence = 0
  BY <1>1 DEF Filed, ClaimFields
<1>3. /\ 0 \in 0..Coverage /\ 0 \in 0..CONFIDENCE_CEILING
      /\ 0 \in 0..MAX_VERIFY_ATTEMPTS /\ 0 < MAX_VERIFY_ATTEMPTS
  BY VerdictAssumption, ReviewAssumption DEF CONFIDENCE_CEILING
<1>4. ClaimKept
  BY <1>2, <1>3 DEF ClaimKept, Open
<1>5. PaidIsCorroborated
  BY <1>2 DEF PaidIsCorroborated, Settled
<1> QED
  BY <1>1, <1>4, <1>5 DEF PriceInv, PassUnderWay

LEMMA ParkKeeps ==
  ASSUME PriceInv, claim.status \in Open, NEW reason, Park(reason),
         UNCHANGED incident
  PROVE  PriceInv'
<1>1. /\ DOMAIN claim' = ClaimFields
      /\ claim'.status = IF claim.attempts + 1 >= MAX_VERIFY_ATTEMPTS
                         THEN "review" ELSE "indeterminate"
      /\ claim'.attempts = claim.attempts + 1
      /\ claim'.loss = claim.loss /\ claim'.confidence = claim.confidence
      /\ pass' = Idle
  BY DEF Park, PriceInv, ClaimKept, ClaimFields
<1>2. claim.attempts \in Nat /\ claim.attempts < MAX_VERIFY_ATTEMPTS
  BY DEF PriceInv, ClaimKept
<1>3. /\ claim'.attempts \in 0..MAX_VERIFY_ATTEMPTS
      /\ claim'.status \in {"review", "indeterminate"}
      /\ claim'.status = "indeterminate" => claim'.attempts < MAX_VERIFY_ATTEMPTS
  BY <1>1, <1>2, ReviewAssumption
<1>4. ClaimKept'
  BY <1>1, <1>3 DEF PriceInv, ClaimKept, Open, Decided
<1>5. PaidIsCorroborated'
  BY <1>3 DEF PaidIsCorroborated, Settled
<1> QED
  BY <1>1, <1>4, <1>5 DEF PriceInv, PassUnderWay

LEMMA RejectKeeps ==
  ASSUME PriceInv, NEW reason, Reject(reason), UNCHANGED incident
  PROVE  PriceInv'
<1>1. /\ DOMAIN claim' = ClaimFields /\ claim'.status = "rejected"
      /\ claim'.attempts = claim.attempts
      /\ claim'.loss = claim.loss /\ claim'.confidence = claim.confidence
      /\ pass' = Idle
  BY DEF Reject, PriceInv, ClaimKept, ClaimFields
<1>2. ClaimKept'
  BY <1>1 DEF PriceInv, ClaimKept, Open, Decided
<1>3. PaidIsCorroborated'
  BY <1>1 DEF PaidIsCorroborated, Settled
<1> QED
  BY <1>1, <1>2, <1>3 DEF PriceInv, PassUnderWay

\* A pass that gathers one more answer.
LEMMA GatherKeeps ==
  ASSUME PriceInv, claim.status \in Open, UNCHANGED <<incident, claim>>,
         PassKept(pass'), (pass.subject.leg)' <= Len(Legs(trade))
  PROVE  PriceInv'
<1>1. ClaimKept' /\ PaidIsCorroborated'
  BY DEF PriceInv, ClaimKept, PaidIsCorroborated
<1>2. PassUnderWay'
  BY DEF PassUnderWay, trade
<1> QED
  BY <1>1, <1>2 DEF PriceInv

LEMMA BeginKeeps ==
  ASSUME PriceInv, Begin
  PROVE  PriceInv'
<1>1. claim.status \in Open /\ UNCHANGED incident
  BY DEF Begin
<1>2. ASSUME NEW late \in BOOLEAN, pass' = Fresh(late), UNCHANGED claim
      PROVE  PriceInv'
  <2>1. PassKept(pass')
    BY <1>2, FreshKept
  <2>2. (pass.subject.leg)' = 0
    BY <1>2 DEF Fresh, NoSubject
  <2>3. Len(Legs(trade)) \in Nat
    BY IncidentTrade, LegsOfTrade, LenProperties DEF PriceInv
  <2> QED
    BY <1>1, <1>2, <2>1, <2>2, <2>3, GatherKeeps
<1> QED
  BY <1>1, <1>2, ParkKeeps, RejectKeeps DEF Begin

\* A leg that was valued joins the pass.
LEMMA LegJoins ==
  ASSUME PriceInv, Pricing, NEW w, WindowKept(w),
         pass' = WithLeg(pass, trade, w), UNCHANGED <<incident, claim>>
  PROVE  PriceInv'
<1>1. claim.status \in Open /\ PassKept(pass) /\ pass.next <= Len(Legs(trade))
      /\ pass.subject.leg <= Len(Legs(trade))
  BY DEF PriceInv, PassUnderWay, Pricing, Running
<1>2. trade \in Trade
  BY IncidentTrade DEF PriceInv
<1>3. pass.next \in 1..Len(Legs(trade))
  <2>1. pass.next \in Nat \ {0} /\ Len(Legs(trade)) \in Nat
    BY <1>1, <1>2, LegsOfTrade, LenProperties DEF PassKept
  <2> QED
    BY <1>1, <2>1
<1>4. PassKept(WithLeg(pass, trade, w))
  BY <1>1, <1>2, <1>3, WithLegKept
<1>5. WithLeg(pass, trade, w).subject = Subject(pass, trade, w)
  <2>1. PassKept(WithWindow(pass, w))
    BY <1>1, WithWindowKept
  <2> QED
    BY <2>1 DEF WithLeg, PassKept, PassFields
<1>6. Subject(pass, trade, w).leg <= Len(Legs(trade))
  BY <1>1 DEF Subject
<1> QED
  BY <1>1, <1>4, <1>5, <1>6, GatherKeeps

LEMMA PriceLegKeeps ==
  ASSUME PriceInv, PriceLeg
  PROVE  PriceInv'
<1> DEFINE token == Legs(trade)[pass.next].token
<1>1. claim.status \in Open /\ Pricing /\ UNCHANGED incident
      /\ PassKept(pass) /\ incident \in Incidents
  BY DEF PriceLeg, PriceInv, PassUnderWay, Pricing, Running
<1>2. token \in Tokens
  <2>1. trade \in Trade
    BY <1>1, IncidentTrade
  <2>2. pass.next \in Nat \ {0} /\ Len(Legs(trade)) \in Nat
        /\ pass.next <= Len(Legs(trade))
    BY <1>1, <2>1, LegsOfTrade, LenProperties DEF PassKept, Pricing
  <2>3. pass.next \in 1..Len(Legs(trade))
    BY <2>2
  <2> QED
    BY <2>1, <2>3, LegValued, NoWindowKept
<1>3. 0 \in 0..Offsets
  BY VerdictAssumption
<1>4. \A reason : Park(reason) => PriceInv'
  BY <1>1, ParkKeeps
<1>5. ASSUME NEW answers \in Asked(incident, token, 0),
             pass' = WithLeg(pass, trade, Window(answers)), UNCHANGED claim
      PROVE  PriceInv'
  <2>1. WindowKept(Window(answers))
    BY <1>1, <1>2, <1>3, AskedKept
  <2> QED
    BY <1>1, <1>5, <2>1, LegJoins
<1>6. ASSUME pass' = WithLeg(pass, trade, NoWindow), UNCHANGED claim
      PROVE  PriceInv'
  BY <1>1, <1>6, NoWindowKept, LegJoins
<1>7. \/ \E reason : Park(reason)
      \/ \E answers \in Asked(incident, token, 0) :
           pass' = WithLeg(pass, trade, Window(answers)) /\ UNCHANGED claim
      \/ pass' = WithLeg(pass, trade, NoWindow) /\ UNCHANGED claim
  <2> HIDE DEF token
  <2>1. CASE Fed(token)
    <3>1. PICK answers \in Asked(incident, token, 0) :
            \/ Park("price_source_unavailable")
            \/ Park("not_priced")
            \/ pass' = WithLeg(pass, trade, Window(answers)) /\ UNCHANGED claim
      BY <2>1, Zenon DEF PriceLeg, ValuationFailed, token
    <3> QED
      BY <3>1
  <2>2. CASE ~Fed(token)
    <3>1. \/ Park("not_priced")
          \/ pass' = WithLeg(pass, trade, NoWindow) /\ UNCHANGED claim
      BY <2>2, Zenon DEF PriceLeg, ValuationFailed, token
    <3> QED
      BY <3>1
  <2> QED
    BY <2>1, <2>2
<1> QED
  BY <1>4, <1>5, <1>6, <1>7

LEMMA SampleKeeps ==
  ASSUME PriceInv, Sample
  PROVE  PriceInv'
<1> DEFINE token == Legs(trade)[pass.subject.leg].token
           m     == pass.sampled + 1
<1>1. /\ claim.status \in Open /\ UNCHANGED <<incident, claim>>
      /\ PassKept(pass) /\ incident \in Incidents
      /\ pass.subject.leg # 0 /\ pass.subject.leg <= Len(Legs(trade))
      /\ pass.sampled < Offsets
  BY DEF Sample, Sampling, HasSubject, PriceInv, PassUnderWay, Running
<1>2. token \in Tokens
  <2>1. trade \in Trade
    BY <1>1, IncidentTrade
  <2>2. pass.subject.leg \in Nat /\ Len(Legs(trade)) \in Nat
    BY <1>1, <2>1, LegsOfTrade, LenProperties DEF PassKept, Subjects
  <2>3. pass.subject.leg \in 1..Len(Legs(trade))
    BY <1>1, <2>2
  <2> QED
    BY <2>1, <2>3, LegValued, NoWindowKept
<1>3. m \in 0..Offsets
  <2>1. pass.sampled \in Nat
    BY <1>1 DEF PassKept
  <2> QED
    BY <1>1, <2>1, VerdictAssumption
<1>4. PICK answers \in Asked(incident, token, m) :
        pass' = WithSample(pass, Window(answers))
  BY DEF Sample
<1>5. WindowKept(Window(answers))
  BY <1>1, <1>2, <1>3, <1>4, AskedKept
<1>6. PassKept(WithSample(pass, Window(answers)))
  BY <1>1, <1>5, WithSampleKept
<1>7. WithSample(pass, Window(answers)).subject = pass.subject
  BY <1>1 DEF WithSample, PassKept, PassFields
<1> QED
  BY <1>1, <1>4, <1>6, <1>7, GatherKeeps

LEMMA ConfirmKeeps ==
  ASSUME PriceInv, Running, UNCHANGED incident,
         NEW raw \in BOOLEAN, NEW block \in BOOLEAN,
         AdjudicatePrice(pass, trade, raw, block).outcome = "confirmed",
         Confirm(AdjudicatePrice(pass, trade, raw, block))
  PROVE  PriceInv'
<1> DEFINE v == AdjudicatePrice(pass, trade, raw, block)
<1>1. /\ claim.status \in Open /\ PassKept(pass)
      /\ DOMAIN claim = ClaimFields /\ ClaimKept
  BY DEF PriceInv, ClaimKept, PassUnderWay, Running
<1>2. /\ v.loss \in MIN_PAYABLE_LOSS..Coverage
      /\ v.confidence \in 0..CONFIDENCE_CEILING
      /\ v.confidence >= REVIEW_CONFIDENCE =>
           pass.sources >= 2 /\ Len(pass.series) >= 2
  BY <1>1, VerdictMeans, ConfidenceNeedsCorroboration
<1>3. PICK hash \in BOOLEAN :
        /\ claim' =
             IF v.confidence >= REVIEW_CONFIDENCE /\ Plannable(hash)
             THEN [claim EXCEPT
                    !.status = "approved", !.reason = v.reason,
                    !.attempts = @ + 1, !.loss = v.loss,
                    !.confidence = v.confidence, !.proof = Proof,
                    !.sources = pass.sources, !.sampled = Len(pass.series)]
             ELSE [claim EXCEPT !.status = "review", !.reason = "lane"]
        /\ pass' = Idle
  BY DEF Confirm
<1> HIDE DEF v
<1>4. CASE v.confidence >= REVIEW_CONFIDENCE /\ Plannable(hash)
  <2>1. /\ DOMAIN claim' = ClaimFields /\ claim'.status = "approved"
        /\ claim'.attempts = claim.attempts + 1 /\ claim'.loss = v.loss
        /\ claim'.confidence = v.confidence /\ claim'.proof = Proof
        /\ claim'.sources = pass.sources /\ claim'.sampled = Len(pass.series)
    BY <1>1, <1>3, <1>4 DEF ClaimFields
  <2>2. claim'.proof.signed > 0
    BY <1>4, <2>1 DEF Plannable, Provable, Proof
  <2>3. claim'.attempts \in 0..MAX_VERIFY_ATTEMPTS
    <3>1. claim.attempts \in Nat /\ claim.attempts < MAX_VERIFY_ATTEMPTS
      BY <1>1 DEF ClaimKept
    <3> QED
      BY <2>1, <3>1, ReviewAssumption
  <2>4. claim'.loss \in 0..Coverage
    BY <1>2, <2>1, VerdictAssumption
  <2>5. claim'.confidence \in REVIEW_CONFIDENCE..CONFIDENCE_CEILING
    <3> DEFINE c == v.confidence
    <3>1. c \in 0..CONFIDENCE_CEILING /\ c >= REVIEW_CONFIDENCE
      BY <1>2, <1>4
    <3> HIDE DEF c
    <3>2. REVIEW_CONFIDENCE \in Nat /\ CONFIDENCE_CEILING \in Nat
      BY DEF REVIEW_CONFIDENCE, CONFIDENCE_CEILING
    <3>3. c \in REVIEW_CONFIDENCE..CONFIDENCE_CEILING
      BY <3>1, <3>2
    <3> QED
      BY <2>1, <3>3 DEF c
  <2>6. ClaimKept'
    BY <1>2, <2>1, <2>3, <2>4 DEF ClaimKept, Open, Decided, Settled
  <2>7. PaidIsCorroborated'
    BY <1>2, <1>4, <2>1, <2>2, <2>5 DEF PaidIsCorroborated
  <2> QED
    BY <1>3, <2>6, <2>7 DEF PriceInv, PassUnderWay
<1>5. CASE ~(v.confidence >= REVIEW_CONFIDENCE /\ Plannable(hash))
  <2>1. claim' = [claim EXCEPT !.status = "review", !.reason = "lane"]
    BY <1>3, <1>5
  <2>2. /\ DOMAIN claim' = ClaimFields /\ claim'.status = "review"
        /\ claim'.attempts = claim.attempts
        /\ claim'.loss = claim.loss /\ claim'.confidence = claim.confidence
    BY <1>1, <2>1 DEF ClaimFields
  <2>3. ClaimKept' /\ PaidIsCorroborated'
    BY <1>1, <2>2 DEF ClaimKept, PaidIsCorroborated, Open, Decided, Settled
  <2> QED
    BY <1>3, <2>3 DEF PriceInv, PassUnderWay
<1> QED
  BY <1>4, <1>5

LEMMA DecideKeeps ==
  ASSUME PriceInv, Decide
  PROVE  PriceInv'
<1>1. Running /\ claim.status \in Open /\ UNCHANGED incident
  BY DEF Decide, Gathered, PriceInv, PassUnderWay, Running
<1>2. PICK raw \in BOOLEAN, block \in BOOLEAN :
        LET verdict == AdjudicatePrice(pass, trade, raw, block)
        IN \/ Park(verdict.reason)
           \/ Reject(verdict.reason)
           \/ verdict.outcome = "confirmed" /\ Confirm(verdict)
  BY Zenon DEF Decide
<1> QED
  BY <1>1, <1>2, ParkKeeps, RejectKeeps, ConfirmKeeps

LEMMA SettleKeeps ==
  ASSUME PriceInv, Settle
  PROVE  PriceInv'
<1>1. /\ claim.status = "approved" /\ UNCHANGED <<incident, pass>>
      /\ DOMAIN claim = ClaimFields
  BY DEF Settle, PriceInv, ClaimKept
<1>2. /\ DOMAIN claim' = ClaimFields /\ claim'.status \in {"paid", "failed"}
      /\ claim'.attempts = claim.attempts /\ claim'.loss = claim.loss
      /\ claim'.confidence = claim.confidence /\ claim'.proof = claim.proof
      /\ claim'.sources = claim.sources /\ claim'.sampled = claim.sampled
  BY <1>1 DEF Settle, ClaimFields
<1>3. ClaimKept'
  BY <1>2 DEF PriceInv, ClaimKept, Open, Decided, Settled
<1>4. PaidIsCorroborated'
  BY <1>1, <1>2 DEF PriceInv, PaidIsCorroborated, Settled
<1>5. PassUnderWay'
  BY <1>1 DEF PriceInv, PassUnderWay, Open
<1> QED
  BY <1>1, <1>3, <1>4, <1>5 DEF PriceInv

\* However many passes run and whatever the sources answer, a pass is on
\* evidence about the claim's own trade and what is set aside is corroborated.
THEOREM PriceInvariant == PriceSpec => []PriceInv
<1>1. PriceInv /\ [PriceNext]_priceVars => PriceInv'
  <2> SUFFICES ASSUME PriceInv, [PriceNext]_priceVars
               PROVE  PriceInv'
    OBVIOUS
  <2>1. CASE Begin
    BY <2>1, BeginKeeps
  <2>2. CASE PriceLeg
    BY <2>2, PriceLegKeeps
  <2>3. CASE Sample
    BY <2>3, SampleKeeps
  <2>4. CASE Decide
    BY <2>4, DecideKeeps
  <2>5. CASE Settle
    BY <2>5, SettleKeeps
  <2>6. CASE UNCHANGED priceVars
    BY <2>6 DEF priceVars, PriceInv, ClaimKept, PassUnderWay,
                PaidIsCorroborated, trade
  <2> QED
    BY <2>1, <2>2, <2>3, <2>4, <2>5, <2>6 DEF PriceNext
<1> QED
  BY <1>1, InitPriceInv, PTL DEF PriceSpec

\* The row and the evidence of a pass stay of their kind.
THEOREM PriceTypeCorrect == PriceSpec => []PriceTypeOK
<1>1. PriceInv => PriceTypeOK
  BY KeptIsPass DEF PriceInv, ClaimKept, PassUnderWay, PriceTypeOK
<1> QED
  BY <1>1, PriceInvariant, PTL

\* No claim is paid on a price one source gave, on a reference nobody followed
\* around the trade, or without a signed price to settle against.
THEOREM PaidCorroborated == PriceSpec => []PaidIsCorroborated
<1>1. PriceInv => PaidIsCorroborated
  BY DEF PriceInv
<1> QED
  BY <1>1, PriceInvariant, PTL
-----------------------------------------------------------------------------
(* What a pass makes of the market. *)

\* How many legs of either side the first n legs of the trade are.
SoldTo(t, n) == Smaller(n, Len(t.sold))
BoughtTo(t, n) ==
  IF n <= Len(t.sold) THEN 0 ELSE Smaller(n - Len(t.sold), Len(t.bought))

\* What the legs valued so far were worth.
SoldWorth(p)   == Worth(trade.sold, incident.truth[0], SoldTo(trade, p.next - 1))
BoughtWorth(p) == Worth(trade.bought, incident.truth[0], BoughtTo(trade, p.next - 1))

FairPass(p) ==
  (p.priced => p.sources >= 2) =>
    FairTotals(p.sold, p.bought, p.conf, SoldWorth(p), BoughtWorth(p))

HeardPass(p) ==
  HeardTotals(p.sold, p.bought, p.conf, SoldWorth(p), BoughtWorth(p))

\* Samples are taken once every leg is valued, and of the subject's token.
SampledTruth(p) ==
  \A k \in 1..Len(p.series) :
    /\ p.next > Len(Legs(trade))
    /\ LET truth == incident.truth[0][Legs(trade)[p.subject.leg].token]
       IN 1000 * Apart(p.series[k].price, truth) <= 3 * truth

AllStill == \A k \in DOMAIN Legs(trade) : StoodStill(Legs(trade)[k].token)

\* While few lie the totals are fair, where none does they are what was asked
\* for, and so are the samples of a market that did not move.
MarketInv ==
  /\ pass # Idle /\ FewPoisoned /\ Pegged => FairPass(pass)
  /\ pass # Idle /\ incident.poisoned = {} /\ Pegged => HeardPass(pass)
  /\ pass # Idle /\ incident.poisoned = {} /\ AllStill => SampledTruth(pass)
  /\ FairFillNeverPaid
  /\ SilenceNeverDenies

LEMMA WithWindowFields ==
  ASSUME NEW p, PassKept(p), NEW w, WindowKept(w)
  PROVE  LET q == WithWindow(p, w)
         IN /\ q.next = p.next /\ q.sold = p.sold /\ q.bought = p.bought
            /\ q.conf = p.conf /\ q.series = p.series
            /\ w.count = 0 => q.priced = p.priced /\ q.sources = p.sources
            /\ w.count # 0 =>
                 /\ q.priced = TRUE
                 /\ q.sources = IF p.priced THEN Smaller(p.sources, w.count)
                                ELSE w.count
<1>1. CASE w.count = 0
  BY <1>1 DEF WithWindow
<1>2. CASE w.count # 0
  BY <1>2 DEF WithWindow, PassKept, PassFields
<1> QED
  BY <1>1, <1>2

\* What valuing the leg under way leaves in a pass.
LegAdded(q, p, t, w) ==
  LET leg   == Legs(t)[p.next]
      value == leg.amount * LegPrice(leg.token, w)
  IN /\ q.next = p.next + 1
     /\ q.conf = p.conf + leg.amount * LegConf(leg.token, w)
     /\ IsSold(t, p.next) => q.sold = p.sold + value /\ q.bought = p.bought
     /\ ~IsSold(t, p.next) => q.sold = p.sold /\ q.bought = p.bought + value
     /\ q.series = p.series
     /\ w.count = 0 => q.priced = p.priced /\ q.sources = p.sources
     /\ w.count # 0 =>
          /\ q.priced = TRUE
          /\ q.sources = IF p.priced THEN Smaller(p.sources, w.count) ELSE w.count

LEMMA WithLegFields ==
  ASSUME NEW t \in Trade, NEW p, PassKept(p), p.next \in 1..Len(Legs(t)),
         NEW w, WindowKept(w)
  PROVE  LegAdded(WithLeg(p, t, w), p, t, w)
<1> DEFINE r     == WithWindow(p, w)
           q     == WithLeg(p, t, w)
           leg   == Legs(t)[p.next]
           value == leg.amount * LegPrice(leg.token, w)
           conf  == leg.amount * LegConf(leg.token, w)
           par   == AtPar(leg.token, w)
           sold  == IsSold(t, p.next)
           best  == Subject(p, t, w)
<1>1. PassKept(r)
  BY WithWindowKept
<1>2. q = [r EXCEPT
            !.next    = @ + 1,
            !.sold    = IF sold THEN @ + value ELSE @,
            !.bought  = IF sold THEN @ ELSE @ + value,
            !.conf    = @ + conf,
            !.par     = @ \/ par,
            !.subject = best]
  BY DEF WithLeg
<1> HIDE DEF r, q, leg, value, conf, par, sold, best
<1>3. /\ q.next = r.next + 1 /\ q.conf = r.conf + conf
      /\ q.sold = (IF sold THEN r.sold + value ELSE r.sold)
      /\ q.bought = (IF sold THEN r.bought ELSE r.bought + value)
      /\ q.series = r.series /\ q.priced = r.priced /\ q.sources = r.sources
  BY <1>1, <1>2 DEF PassKept, PassFields
<1>4. /\ r.next = p.next /\ r.sold = p.sold /\ r.bought = p.bought
      /\ r.conf = p.conf /\ r.series = p.series
      /\ w.count = 0 => r.priced = p.priced /\ r.sources = p.sources
      /\ w.count # 0 =>
           /\ r.priced = TRUE
           /\ r.sources = IF p.priced THEN Smaller(p.sources, w.count) ELSE w.count
  BY WithWindowFields DEF r
<1> QED
  BY <1>3, <1>4 DEF q, leg, value, conf, sold, LegAdded

LEMMA WithSampleFields ==
  ASSUME NEW p, PassKept(p), NEW w, WindowKept(w)
  PROVE  LET q == WithSample(p, w)
         IN /\ q.next = p.next /\ q.sold = p.sold /\ q.bought = p.bought
            /\ q.conf = p.conf /\ q.subject = p.subject
            /\ q.priced = p.priced /\ q.sources = p.sources
            /\ w.count = 0 => q.series = p.series
            /\ w.count # 0 =>
                 \E last : /\ last.price = w.price
                           /\ q.series = Append(p.series, last)
<1> DEFINE q    == WithSample(p, w)
           last == [price |-> w.price, spread |-> Dispersion(w),
                    conf |-> (10000 * w.conf) \div w.price]
           more == IF w.count = 0 THEN p.series ELSE Append(p.series, last)
<1>1. q = [p EXCEPT !.sampled = @ + 1, !.series = more]
  BY DEF WithSample
<1>2. last.price = w.price
  OBVIOUS
<1> HIDE DEF q, more, last
<1>3. /\ q.next = p.next /\ q.sold = p.sold /\ q.bought = p.bought
      /\ q.conf = p.conf /\ q.subject = p.subject
      /\ q.priced = p.priced /\ q.sources = p.sources
      /\ q.series = more
  BY <1>1 DEF PassKept, PassFields
<1>4. w.count = 0 => more = p.series
  BY DEF more
<1>5. w.count # 0 => more = Append(p.series, last)
  BY DEF more
<1> QED
  BY <1>2, <1>3, <1>4, <1>5 DEF q

\* A leg valued, from a window its sources gave or at par.
LegBacked(token, w) ==
  /\ WindowKept(w) /\ Valued(token, w)
  /\ \/ w = NoWindow
     \/ \E answers \in Asked(incident, token, 0) : w = Window(answers)

LEMMA LegTraded ==
  ASSUME incident \in Incidents, NEW n \in 1..Len(Legs(trade))
  PROVE  /\ trade \in Trade /\ incident \in Incident
         /\ Legs(trade)[n] \in Delta /\ Legs(trade)[n].token \in Tokens
         /\ Legs(trade)[n].amount \in Nat /\ n \in DOMAIN Legs(trade)
<1>1. trade \in Trade /\ incident \in Incident
  BY IncidentTrade, ReviewAssumption
<1>2. Legs(trade) \in Seq(Delta)
  BY <1>1, LegsOfTrade
<1>3. Legs(trade)[n] \in Delta /\ n \in DOMAIN Legs(trade)
  BY <1>2, ElementOfSeq, LenProperties
<1> QED
  BY <1>1, <1>3 DEF Delta

LEMMA LegFair ==
  ASSUME incident \in Incidents, FewPoisoned, Pegged,
         NEW n \in 1..Len(Legs(trade)), NEW w,
         LegBacked(Legs(trade)[n].token, w), w.count # 0 => w.count >= 2
  PROVE  LET token == Legs(trade)[n].token
         IN \E h \in Nat : FairPrice(LegPrice(token, w), LegConf(token, w), h,
                                     incident.truth[0][token])
<1> DEFINE token == Legs(trade)[n].token
           truth == incident.truth[0][token]
<1>1. token \in Tokens /\ n \in DOMAIN Legs(trade) /\ truth \in Nat \ {0}
  <2>1. token \in Tokens /\ n \in DOMAIN Legs(trade) /\ 0 \in 0..Offsets
    BY LegTraded, VerdictAssumption
  <2> QED
    BY <2>1, TruthPositive
<1> HIDE DEF token, truth
<1>2. CASE AtPar(token, w)
  <2>1. Stable(token)
    BY <1>2 DEF AtPar
  <2>2. 200 * Apart(truth, UNIT) <= UNIT
    BY <1>1, <2>1 DEF Pegged, token, truth
  <2>3. FairPrice(UNIT, UNIT \div 200, truth, truth)
    BY <1>1, <2>2, ParFair
  <2>4. LegPrice(token, w) = UNIT /\ LegConf(token, w) = UNIT \div 200
    BY <1>2 DEF LegPrice, LegConf
  <2> QED
    BY <1>1, <2>3, <2>4 DEF token, truth
<1>3. CASE ~AtPar(token, w)
  <2>1. /\ WindowKept(w) /\ Corroborated(token, w) /\ ~Disagree(w)
        /\ w = NoWindow \/ \E answers \in Asked(incident, token, 0) : w = Window(answers)
    BY <1>3 DEF LegBacked, Valued, token
  <2>2. w.count \in Nat /\ w.count >= 1 /\ (~Stable(token) => w.count >= 3)
    BY <2>1 DEF WindowKept, Windows, Corroborated, Required,
                MIN_SOURCES_STABLE, MIN_SOURCES_PRICED
  <2>3. w.count >= 2
    BY <2>2
  <2>4. PICK answers \in Asked(incident, token, 0) : w = Window(answers)
    <3>1. w # NoWindow
      BY <2>2 DEF NoWindow
    <3> QED
      BY <2>1, <3>1
  <2>5. Cardinality(incident.poisoned) < w.count
    <3>1. Cardinality(incident.poisoned) \in Nat
      <4>1. incident.poisoned \subseteq Sources
        BY ReviewAssumption DEF Incident
      <4> QED
        BY <4>1, MarketAssumption, FS_Subset, FS_CardinalityType
    <3>2. CASE Cardinality(incident.poisoned) <= 1
      BY <2>2, <2>3, <3>1, <3>2
    <3>3. CASE ~(Cardinality(incident.poisoned) <= 1)
      <4>1. Cardinality(incident.poisoned) <= 2 /\ ~Stable(token)
        BY <1>1, <3>3 DEF FewPoisoned, token
      <4> QED
        BY <2>2, <3>1, <4>1
    <3> QED
      BY <3>2, <3>3
  <2>6. w.count > 1
    BY <2>2, <2>3
  <2>7. \E h \in Nat : FairPrice(w.price, w.conf, h, truth)
    BY <1>1, <2>1, <2>4, <2>5, <2>6, WindowFair DEF truth
  <2>8. LegPrice(token, w) = w.price /\ LegConf(token, w) = w.conf
    BY <1>3 DEF LegPrice, LegConf
  <2> QED
    BY <2>7, <2>8 DEF token, truth
<1> QED
  BY <1>2, <1>3

LEMMA LegHeard ==
  ASSUME incident \in Incidents, incident.poisoned = {}, Pegged,
         NEW n \in 1..Len(Legs(trade)), NEW w,
         LegBacked(Legs(trade)[n].token, w)
  PROVE  LET token == Legs(trade)[n].token
         IN HeardPrice(LegPrice(token, w), LegConf(token, w), incident.truth[0][token])
<1> DEFINE token == Legs(trade)[n].token
           truth == incident.truth[0][token]
<1>1. /\ token \in Tokens /\ n \in DOMAIN Legs(trade) /\ truth \in Nat \ {0}
      /\ 0 \in 0..Offsets
  <2>1. token \in Tokens /\ n \in DOMAIN Legs(trade) /\ 0 \in 0..Offsets
    BY LegTraded, VerdictAssumption
  <2> QED
    BY <2>1, TruthPositive
<1> HIDE DEF token, truth
<1>2. CASE AtPar(token, w)
  <2>1. Stable(token)
    BY <1>2 DEF AtPar
  <2>2. 200 * Apart(truth, UNIT) <= UNIT
    BY <1>1, <2>1 DEF Pegged, token, truth
  <2>3. HeardPrice(UNIT, UNIT \div 200, truth)
    BY <1>1, <2>2, ParFair
  <2>4. LegPrice(token, w) = UNIT /\ LegConf(token, w) = UNIT \div 200
    BY <1>2 DEF LegPrice, LegConf
  <2> QED
    BY <2>3, <2>4 DEF token, truth
<1>3. CASE ~AtPar(token, w)
  <2>1. /\ WindowKept(w) /\ Corroborated(token, w)
        /\ w = NoWindow \/ \E answers \in Asked(incident, token, 0) : w = Window(answers)
    BY <1>3 DEF LegBacked, Valued, token
  <2>2. w.count \in Nat /\ w.count >= 1
    BY <2>1 DEF WindowKept, Windows, Corroborated, Required,
                MIN_SOURCES_STABLE, MIN_SOURCES_PRICED
  <2>3. PICK answers \in Asked(incident, token, 0) : w = Window(answers)
    <3>1. w # NoWindow
      BY <2>2 DEF NoWindow
    <3> QED
      BY <2>1, <3>1
  <2>4. w.count > 0
    BY <2>2
  <2>5. HeardPrice(w.price, w.conf, truth)
    BY <1>1, <2>3, <2>4, WindowHeard DEF truth
  <2>6. LegPrice(token, w) = w.price /\ LegConf(token, w) = w.conf
    BY <1>3 DEF LegPrice, LegConf
  <2> QED
    BY <2>5, <2>6 DEF token, truth
<1> QED
  BY <1>2, <1>3

\* The n-th leg adds to the worth of its side.
LEMMA WorthOfLegs ==
  ASSUME incident \in Incidents, NEW n \in 1..Len(Legs(trade))
  PROVE  LET sold(k)   == Worth(trade.sold, incident.truth[0], SoldTo(trade, k))
             bought(k) == Worth(trade.bought, incident.truth[0], BoughtTo(trade, k))
             leg       == Legs(trade)[n]
             worth     == leg.amount * incident.truth[0][leg.token]
         IN /\ sold(n - 1) \in Nat /\ bought(n - 1) \in Nat
            /\ IsSold(trade, n) =>
                 sold(n) = sold(n - 1) + worth /\ bought(n) = bought(n - 1)
            /\ ~IsSold(trade, n) =>
                 sold(n) = sold(n - 1) /\ bought(n) = bought(n - 1) + worth
<1> DEFINE price == incident.truth[0]
           ns    == Len(trade.sold)
           nb    == Len(trade.bought)
<1>1. trade \in Trade /\ incident \in Incident
  BY IncidentTrade, ReviewAssumption
<1>2. /\ trade.sold \in Seq(Delta) /\ trade.bought \in Seq(Delta)
      /\ ns \in Nat /\ nb \in Nat
      /\ n \in Nat /\ 1 <= n /\ n <= ns + nb
  <2>1. trade.sold \in Seq(Delta) /\ trade.bought \in Seq(Delta)
    BY <1>1 DEF Trade
  <2>2. ns \in Nat /\ nb \in Nat
    BY <2>1, LenProperties
  <2>3. Len(Legs(trade)) = ns + nb
    BY <1>1, LegsOfTrade
  <2> HIDE DEF ns, nb
  <2> QED
    BY <2>1, <2>2, <2>3
<1>3. price \in [Tokens -> Nat \ {0}]
  <2>1. incident.truth \in [0..Offsets -> [Tokens -> Nat \ {0}]]
    BY <1>1 DEF Incident
  <2> QED
    BY <2>1, VerdictAssumption
<1>4. /\ n <= ns => n \in 1..ns /\ Legs(trade)[n] = trade.sold[n]
      /\ ~(n <= ns) => n - ns \in 1..nb /\ Legs(trade)[n] = trade.bought[n - ns]
  <2>1. n <= ns => n \in 1..ns
    BY <1>2
  <2>2. ~(n <= ns) => n - ns \in 1..nb
    <3> HIDE DEF ns, nb
    <3> QED
      BY <1>2
  <2>3. Legs(trade)[n] = IF n <= ns THEN trade.sold[n] ELSE trade.bought[n - ns]
    BY <1>2, ConcatProperties DEF Legs
  <2> QED
    BY <2>1, <2>2, <2>3
<1> HIDE DEF price
<1>5. /\ \A k \in 0..ns : Worth(trade.sold, price, k) \in Nat
      /\ \A k \in 0..nb : Worth(trade.bought, price, k) \in Nat
      /\ \A k \in 1..ns :
           Worth(trade.sold, price, k)
             = Worth(trade.sold, price, k - 1)
                 + trade.sold[k].amount * price[trade.sold[k].token]
      /\ \A k \in 1..nb :
           Worth(trade.bought, price, k)
             = Worth(trade.bought, price, k - 1)
                 + trade.bought[k].amount * price[trade.bought[k].token]
  BY <1>2, <1>3, WorthAdds
<1>6. CASE n <= ns
  <2>1. /\ SoldTo(trade, n) = n /\ SoldTo(trade, n - 1) = n - 1
        /\ BoughtTo(trade, n) = 0 /\ BoughtTo(trade, n - 1) = 0
        /\ n - 1 \in 0..ns /\ 0 \in 0..nb /\ n \in 1..ns
    <3>1. /\ Smaller(n, ns) = n /\ Smaller(n - 1, ns) = n - 1 /\ n - 1 <= ns
          /\ n - 1 \in 0..ns /\ 0 \in 0..nb /\ n \in 1..ns
      <4> HIDE DEF ns, nb
      <4> QED
        BY <1>2, <1>6 DEF Smaller
    <3> QED
      BY <1>6, <3>1 DEF SoldTo, BoughtTo
  <2>2. IsSold(trade, n)
    BY <1>6 DEF IsSold
  <2> QED
    BY <1>4, <1>5, <1>6, <2>1, <2>2 DEF price
<1>7. CASE ~(n <= ns)
  <2>1. /\ SoldTo(trade, n) = ns /\ SoldTo(trade, n - 1) = ns /\ ns \in 0..ns
        /\ BoughtTo(trade, n) = n - ns /\ BoughtTo(trade, n - 1) = (n - ns) - 1
        /\ (n - ns) - 1 \in 0..nb /\ n - ns \in 1..nb
    <3>1. /\ Smaller(n, ns) = ns /\ Smaller(n - 1, ns) = ns /\ ns \in 0..ns
          /\ (n - ns) - 1 \in 0..nb /\ n - ns \in 1..nb
          /\ Smaller(n - ns, nb) = n - ns
          /\ ~(n - 1 <= ns) => Smaller((n - 1) - ns, nb) = (n - ns) - 1
          /\ n - 1 <= ns => (n - ns) - 1 = 0
      <4> HIDE DEF ns, nb
      <4> QED
        BY <1>2, <1>7 DEF Smaller
    <3> QED
      BY <1>7, <3>1 DEF SoldTo, BoughtTo
  <2>2. ~IsSold(trade, n)
    BY <1>7 DEF IsSold
  <2> QED
    BY <1>4, <1>5, <1>7, <2>1, <2>2 DEF price
<1> QED
  BY <1>6, <1>7

-----------------------------------------------------------------------------
(* The invariant about the market, step by step. *)

LEMMA PricingLeg ==
  ASSUME PriceInv, Pricing
  PROVE  /\ incident \in Incidents /\ trade \in Trade /\ PassKept(pass)
         /\ pass.next \in 1..Len(Legs(trade)) /\ claim.status \in Open
         /\ pass.sold \in Nat /\ pass.bought \in Nat /\ pass.conf \in Nat
         /\ pass.sources \in Nat
<1>1. claim.status \in Open /\ PassKept(pass) /\ pass.next <= Len(Legs(trade))
      /\ incident \in Incidents
  BY DEF PriceInv, PassUnderWay, Pricing, Running
<1>2. trade \in Trade
  BY <1>1, IncidentTrade
<1>3. pass.next \in Nat \ {0} /\ Len(Legs(trade)) \in Nat
  BY <1>1, <1>2, LegsOfTrade, LenProperties DEF PassKept
<1>4. pass.next \in 1..Len(Legs(trade))
  BY <1>1, <1>3
<1> QED
  BY <1>1, <1>2, <1>4 DEF PassKept

LEMMA LegJoinsFair ==
  ASSUME PriceInv, Pricing, FewPoisoned, Pegged, FairPass(pass),
         NEW w, LegBacked(Legs(trade)[pass.next].token, w)
  PROVE  FairPass(WithLeg(pass, trade, w))
<1> DEFINE n     == pass.next
           leg   == Legs(trade)[n]
           q     == WithLeg(pass, trade, w)
           p     == LegPrice(leg.token, w)
           c     == LegConf(leg.token, w)
           t     == incident.truth[0][leg.token]
           ts    == SoldWorth(pass)
           tb    == BoughtWorth(pass)
<1>1. /\ incident \in Incidents /\ trade \in Trade /\ PassKept(pass)
      /\ n \in 1..Len(Legs(trade)) /\ WindowKept(w)
      /\ pass.sold \in Nat /\ pass.bought \in Nat /\ pass.conf \in Nat
      /\ pass.sources \in Nat
  BY PricingLeg DEF LegBacked
<1>2. SUFFICES ASSUME q.priced => q.sources >= 2
               PROVE  FairTotals(q.sold, q.bought, q.conf, SoldWorth(q), BoughtWorth(q))
  BY DEF FairPass
<1>14. LegAdded(q, pass, trade, w)
  BY <1>1, WithLegFields
<1>3. /\ q.next = n + 1 /\ q.conf = pass.conf + leg.amount * c
      /\ IsSold(trade, n) => q.sold = pass.sold + leg.amount * p /\ q.bought = pass.bought
      /\ ~IsSold(trade, n) => q.sold = pass.sold /\ q.bought = pass.bought + leg.amount * p
      /\ w.count = 0 => q.priced = pass.priced /\ q.sources = pass.sources
      /\ w.count # 0 =>
           /\ q.priced = TRUE
           /\ q.sources = IF pass.priced THEN Smaller(pass.sources, w.count) ELSE w.count
  BY <1>14 DEF LegAdded
<1>4. w.count \in Nat /\ w.price \in Nat /\ w.conf \in Nat
  BY <1>1 DEF WindowKept, Windows
<1>5. /\ w.count # 0 => w.count >= 2
      /\ pass.priced => pass.sources >= 2
  BY <1>1, <1>2, <1>3, <1>4 DEF Smaller
<1>6. FairTotals(pass.sold, pass.bought, pass.conf, ts, tb)
  BY <1>5 DEF FairPass
<1>7. PICK h \in Nat : FairPrice(p, c, h, t)
  BY <1>1, <1>5, LegFair
<1>8. /\ leg.amount \in Nat /\ t \in Nat /\ p \in Nat /\ c \in Nat
      /\ ts \in Nat /\ tb \in Nat
  <2>1. leg.amount \in Nat /\ leg.token \in Tokens
    BY <1>1, LegTraded
  <2>2. t \in Nat
    BY <1>1, <2>1, TruthPositive, VerdictAssumption
  <2>3. p \in Nat /\ c \in Nat
    BY <1>4, MarketAssumption DEF LegPrice, LegConf
  <2>4. ts \in Nat /\ tb \in Nat
    BY <1>1, WorthOfLegs DEF SoldWorth, BoughtWorth
  <2> QED
    BY <2>1, <2>2, <2>3, <2>4
<1>9. /\ IsSold(trade, n) =>
           SoldWorth(q) = ts + leg.amount * t /\ BoughtWorth(q) = tb
      /\ ~IsSold(trade, n) =>
           SoldWorth(q) = ts /\ BoughtWorth(q) = tb + leg.amount * t
  <2>1. q.next - 1 = n
    BY <1>1, <1>3
  <2> QED
    BY <1>1, <2>1, WorthOfLegs DEF SoldWorth, BoughtWorth
<1> HIDE DEF n, leg, q, p, c, t, ts, tb
<1>10. /\ FairPrice(leg.amount * p, leg.amount * c, leg.amount * h, leg.amount * t)
       /\ leg.amount * p \in Nat /\ leg.amount * c \in Nat
       /\ leg.amount * h \in Nat /\ leg.amount * t \in Nat
  BY <1>7, <1>8, FairAmount
<1>11. /\ FairTotals(pass.sold + leg.amount * p, pass.bought,
                     pass.conf + leg.amount * c, ts + leg.amount * t, tb)
       /\ FairTotals(pass.sold, pass.bought + leg.amount * p,
                     pass.conf + leg.amount * c, ts, tb + leg.amount * t)
  BY <1>1, <1>6, <1>8, <1>10, FairTotalsAdd
<1>12. CASE IsSold(trade, n)
  BY <1>3, <1>9, <1>11, <1>12
<1>13. CASE ~IsSold(trade, n)
  BY <1>3, <1>9, <1>11, <1>13
<1> QED
  BY <1>12, <1>13

LEMMA LegJoinsHeard ==
  ASSUME PriceInv, Pricing, incident.poisoned = {}, Pegged, HeardPass(pass),
         NEW w, LegBacked(Legs(trade)[pass.next].token, w)
  PROVE  HeardPass(WithLeg(pass, trade, w))
<1> DEFINE n     == pass.next
           leg   == Legs(trade)[n]
           q     == WithLeg(pass, trade, w)
           p     == LegPrice(leg.token, w)
           c     == LegConf(leg.token, w)
           t     == incident.truth[0][leg.token]
           ts    == SoldWorth(pass)
           tb    == BoughtWorth(pass)
<1>1. /\ incident \in Incidents /\ trade \in Trade /\ PassKept(pass)
      /\ n \in 1..Len(Legs(trade)) /\ WindowKept(w)
      /\ pass.sold \in Nat /\ pass.bought \in Nat /\ pass.conf \in Nat
  BY PricingLeg DEF LegBacked
<1>2. SUFFICES HeardTotals(q.sold, q.bought, q.conf, SoldWorth(q), BoughtWorth(q))
  BY DEF HeardPass
<1>14. LegAdded(q, pass, trade, w)
  BY <1>1, WithLegFields
<1>3. /\ q.next = n + 1 /\ q.conf = pass.conf + leg.amount * c
      /\ IsSold(trade, n) => q.sold = pass.sold + leg.amount * p /\ q.bought = pass.bought
      /\ ~IsSold(trade, n) => q.sold = pass.sold /\ q.bought = pass.bought + leg.amount * p
  BY <1>14 DEF LegAdded
<1>4. w.price \in Nat /\ w.conf \in Nat
  BY <1>1 DEF WindowKept, Windows
<1>6. HeardTotals(pass.sold, pass.bought, pass.conf, ts, tb)
  BY DEF HeardPass
<1>7. HeardPrice(p, c, t)
  BY <1>1, LegHeard
<1>8. /\ leg.amount \in Nat /\ t \in Nat /\ p \in Nat /\ c \in Nat
      /\ ts \in Nat /\ tb \in Nat
  <2>1. leg.amount \in Nat /\ leg.token \in Tokens
    BY <1>1, LegTraded
  <2>2. t \in Nat
    BY <1>1, <2>1, TruthPositive, VerdictAssumption
  <2>3. p \in Nat /\ c \in Nat
    BY <1>4, MarketAssumption DEF LegPrice, LegConf
  <2>4. ts \in Nat /\ tb \in Nat
    BY <1>1, WorthOfLegs DEF SoldWorth, BoughtWorth
  <2> QED
    BY <2>1, <2>2, <2>3, <2>4
<1>9. /\ IsSold(trade, n) =>
           SoldWorth(q) = ts + leg.amount * t /\ BoughtWorth(q) = tb
      /\ ~IsSold(trade, n) =>
           SoldWorth(q) = ts /\ BoughtWorth(q) = tb + leg.amount * t
  <2>1. q.next - 1 = n
    BY <1>1, <1>3
  <2> QED
    BY <1>1, <2>1, WorthOfLegs DEF SoldWorth, BoughtWorth
<1> HIDE DEF n, leg, q, p, c, t, ts, tb
<1>10. /\ HeardPrice(leg.amount * p, leg.amount * c, leg.amount * t)
       /\ leg.amount * p \in Nat /\ leg.amount * c \in Nat /\ leg.amount * t \in Nat
  BY <1>7, <1>8, HeardAmount
<1>11. /\ HeardTotals(pass.sold + leg.amount * p, pass.bought,
                      pass.conf + leg.amount * c, ts + leg.amount * t, tb)
       /\ HeardTotals(pass.sold, pass.bought + leg.amount * p,
                      pass.conf + leg.amount * c, ts, tb + leg.amount * t)
  BY <1>1, <1>6, <1>8, <1>10, HeardTotalsAdd
<1>12. CASE IsSold(trade, n)
  BY <1>3, <1>9, <1>11, <1>12
<1>13. CASE ~IsSold(trade, n)
  BY <1>3, <1>9, <1>11, <1>13
<1> QED
  BY <1>12, <1>13

\* A pass that has valued nothing.
LEMMA FreshMarket ==
  ASSUME PriceInv, NEW late \in BOOLEAN
  PROVE  FairPass(Fresh(late)) /\ HeardPass(Fresh(late)) /\ SampledTruth(Fresh(late))
<1> DEFINE q == Fresh(late)
<1>1. /\ q.next = 1 /\ q.sold = 0 /\ q.bought = 0 /\ q.conf = 0 /\ q.series = <<>>
  BY DEF Fresh
<1> HIDE DEF q
<1>2. trade \in Trade /\ incident \in Incident
  BY IncidentTrade, ReviewAssumption DEF PriceInv
<1>3. /\ trade.sold \in Seq(Delta) /\ trade.bought \in Seq(Delta)
      /\ incident.truth[0] \in [Tokens -> Nat \ {0}]
  <2>1. incident.truth \in [0..Offsets -> [Tokens -> Nat \ {0}]]
    BY <1>2 DEF Incident
  <2> QED
    BY <1>2, <2>1, VerdictAssumption DEF Trade
<1>4. SoldTo(trade, q.next - 1) = 0 /\ BoughtTo(trade, q.next - 1) = 0
  <2>1. Len(trade.sold) \in Nat
    BY <1>3, LenProperties
  <2> QED
    BY <1>1, <2>1 DEF SoldTo, BoughtTo, Smaller
<1>5. SoldWorth(q) = 0 /\ BoughtWorth(q) = 0
  BY <1>3, <1>4, WorthAdds DEF SoldWorth, BoughtWorth
<1>6. Len(q.series) = 0
  BY <1>1
<1> QED
  BY <1>1, <1>5, <1>6, NoTotals DEF FairPass, HeardPass, SampledTruth, q

-----------------------------------------------------------------------------
(* A step of the claim leaves the market alone. *)

LEMMA MarketStays ==
  ASSUME UNCHANGED incident
  PROVE  /\ trade' = trade
         /\ TrueSold' = TrueSold /\ TrueBought' = TrueBought
         /\ TrueShortfall' = TrueShortfall
         /\ FewPoisoned' <=> FewPoisoned
         /\ Pegged' <=> Pegged
         /\ AllStill' <=> AllStill
         /\ Misfill' <=> Misfill
<1>1. trade' = trade
  BY DEF trade
<1>2. /\ TrueSold' = TrueSold /\ TrueBought' = TrueBought
      /\ TrueShortfall' = TrueShortfall
  BY DEF trade, TrueSold, TrueBought, TrueShortfall
<1>3. FewPoisoned' <=> FewPoisoned
  BY DEF trade, FewPoisoned
<1>4. Pegged' <=> Pegged
  BY DEF trade, Pegged
<1>5. AllStill' <=> AllStill
  BY DEF trade, AllStill, StoodStill
<1>6. Misfill' <=> Misfill
  BY DEF trade, Misfill, StoodStill, TrueSold, TrueBought, TrueShortfall
<1> QED
  BY <1>1, <1>2, <1>3, <1>4, <1>5, <1>6

\* What the next state has to show.
LEMMA MarketNext ==
  ASSUME UNCHANGED incident,
         pass' # Idle /\ FewPoisoned /\ Pegged => FairPass(pass'),
         pass' # Idle /\ incident.poisoned = {} /\ Pegged => HeardPass(pass'),
         pass' # Idle /\ incident.poisoned = {} /\ AllStill => SampledTruth(pass'),
         claim'.status \in Settled /\ FewPoisoned /\ Pegged =>
           /\ 1000 * TrueShortfall > 3 * TrueSold
           /\ 1000 * (claim'.loss - TrueShortfall) <= 24 * (TrueSold + TrueBought),
         claim'.status = "rejected" /\ incident.poisoned = {} /\ Pegged => ~Misfill
  PROVE  MarketInv'
<1>1. FairPass(pass)' <=> FairPass(pass')
  BY DEF FairPass, SoldWorth, BoughtWorth, trade
<1>2. HeardPass(pass)' <=> HeardPass(pass')
  BY DEF HeardPass, SoldWorth, BoughtWorth, trade
<1>3. SampledTruth(pass)' <=> SampledTruth(pass')
  BY DEF SampledTruth, trade
<1>4. (pass # Idle)' <=> pass' # Idle
  BY DEF Idle
<1>5. FairFillNeverPaid'
  BY MarketStays DEF FairFillNeverPaid, Settled
<1>6. SilenceNeverDenies'
  BY MarketStays DEF SilenceNeverDenies
<1> QED
  BY <1>1, <1>2, <1>3, <1>4, <1>5, <1>6, MarketStays DEF MarketInv

LEMMA InitMarketInv == PriceInit => MarketInv
<1> SUFFICES ASSUME PriceInit
             PROVE  MarketInv
  OBVIOUS
<1>1. pass = Idle /\ claim.status = "pending"
  BY DEF PriceInit, Filed
<1> QED
  BY <1>1 DEF MarketInv, FairFillNeverPaid, SilenceNeverDenies, Settled

LEMMA ParkMarket ==
  ASSUME PriceInv, NEW reason, Park(reason), UNCHANGED incident
  PROVE  MarketInv'
<1>1. pass' = Idle /\ claim'.status \in {"review", "indeterminate"}
  BY DEF Park, PriceInv, ClaimKept, ClaimFields
<1> QED
  BY <1>1, MarketNext DEF Settled

LEMMA RejectMarket ==
  ASSUME PriceInv, NEW reason, Reject(reason), UNCHANGED incident,
         incident.poisoned = {} /\ Pegged => ~Misfill
  PROVE  MarketInv'
<1>1. pass' = Idle /\ claim'.status = "rejected"
  BY DEF Reject, PriceInv, ClaimKept, ClaimFields
<1> QED
  BY <1>1, MarketNext DEF Settled

LEMMA GatherMarket ==
  ASSUME PriceInv, claim.status \in Open, UNCHANGED <<incident, claim>>,
         FewPoisoned /\ Pegged => FairPass(pass'),
         incident.poisoned = {} /\ Pegged => HeardPass(pass'),
         incident.poisoned = {} /\ AllStill => SampledTruth(pass')
  PROVE  MarketInv'
<1>1. claim'.status \notin Settled /\ claim'.status # "rejected"
  BY DEF Open, Settled
<1> QED
  BY <1>1, MarketNext

LEMMA BeginMarket ==
  ASSUME PriceInv, Begin
  PROVE  MarketInv'
<1>1. claim.status \in Open /\ UNCHANGED incident
  BY DEF Begin
<1>2. \/ \E reason : Park(reason)
      \/ (~trade.dex \/ ~Comparable(trade)) /\ \E reason : Reject(reason)
      \/ \E late \in BOOLEAN : pass' = Fresh(late) /\ UNCHANGED claim
  BY Zenon DEF Begin
<1>3. CASE \E reason : Park(reason)
  BY <1>1, <1>3, ParkMarket
<1>4. CASE (~trade.dex \/ ~Comparable(trade)) /\ \E reason : Reject(reason)
  <2>1. ~Misfill
    BY <1>4 DEF Misfill
  <2> QED
    BY <1>1, <1>4, <2>1, RejectMarket
<1>5. ASSUME NEW late \in BOOLEAN, pass' = Fresh(late), UNCHANGED claim
      PROVE  MarketInv'
  BY <1>1, <1>5, FreshMarket, GatherMarket
<1> QED
  BY <1>2, <1>3, <1>4, <1>5

\* A leg is valued, from what its sources answered or at par, or the pass ends.
LEMMA PriceLegMeans ==
  ASSUME PriceInv, PriceLeg
  PROVE  \/ \E reason : Park(reason)
         \/ \E w : /\ LegBacked(Legs(trade)[pass.next].token, w)
                   /\ pass' = WithLeg(pass, trade, w) /\ UNCHANGED claim
<1> DEFINE token == Legs(trade)[pass.next].token
<1>1. Pricing /\ UNCHANGED incident
  BY DEF PriceLeg
<1>2. incident \in Incidents /\ token \in Tokens /\ 0 \in 0..Offsets
  BY <1>1, PricingLeg, LegTraded, VerdictAssumption
<1> HIDE DEF token
<1>3. CASE Fed(token)
  <2>1. PICK answers \in Asked(incident, token, 0) :
          \/ Park("price_source_unavailable")
          \/ Park("not_priced")
          \/ /\ Valued(token, Window(answers))
             /\ pass' = WithLeg(pass, trade, Window(answers)) /\ UNCHANGED claim
    BY <1>3, Zenon DEF PriceLeg, ValuationFailed, token
  <2>2. WindowKept(Window(answers))
    BY <1>2, AskedKept
  <2>3. Valued(token, Window(answers)) => LegBacked(token, Window(answers))
    BY <2>2 DEF LegBacked
  <2> QED
    BY <2>1, <2>3 DEF token
<1>4. CASE ~Fed(token)
  <2>1. \/ Park("not_priced")
        \/ /\ Valued(token, NoWindow)
           /\ pass' = WithLeg(pass, trade, NoWindow) /\ UNCHANGED claim
    BY <1>4, Zenon DEF PriceLeg, ValuationFailed, token
  <2>2. Valued(token, NoWindow) => LegBacked(token, NoWindow)
    BY NoWindowKept DEF LegBacked
  <2> QED
    BY <2>1, <2>2 DEF token
<1> QED
  BY <1>3, <1>4

LEMMA PriceLegMarket ==
  ASSUME PriceInv, MarketInv, PriceLeg
  PROVE  MarketInv'
<1>1. Pricing /\ pass # Idle /\ UNCHANGED incident /\ claim.status \in Open
  BY PricingLeg DEF PriceLeg, Pricing, Running
<1>2. ASSUME NEW w, LegBacked(Legs(trade)[pass.next].token, w),
             pass' = WithLeg(pass, trade, w), UNCHANGED claim
      PROVE  MarketInv'
  <2>1. FewPoisoned /\ Pegged => FairPass(pass')
    BY <1>1, <1>2, LegJoinsFair DEF MarketInv
  <2>2. incident.poisoned = {} /\ Pegged => HeardPass(pass')
    BY <1>1, <1>2, LegJoinsHeard DEF MarketInv
  <2>3. ASSUME incident.poisoned = {}, AllStill PROVE SampledTruth(pass')
    <3>1. SampledTruth(pass)
      BY <1>1, <2>3 DEF MarketInv
    <3>2. /\ trade \in Trade /\ PassKept(pass) /\ WindowKept(w)
          /\ pass.next \in 1..Len(Legs(trade))
      BY <1>1, <1>2, PricingLeg DEF LegBacked
    <3>3. LegAdded(WithLeg(pass, trade, w), pass, trade, w)
      BY <3>2, WithLegFields
    <3>4. pass'.series = pass.series
      BY <1>2, <3>3 DEF LegAdded
    <3>5. 1..Len(pass.series) = {}
      <4>1. ~(pass.next > Len(Legs(trade)))
        <5>1. Len(Legs(trade)) \in Nat
          BY <3>2, LegsOfTrade, LenProperties
        <5> QED
          BY <3>2, <5>1
      <4>2. \A k \in 1..Len(pass.series) : pass.next > Len(Legs(trade))
        BY <3>1 DEF SampledTruth
      <4> QED
        BY <4>1, <4>2
    <3> QED
      BY <3>4, <3>5 DEF SampledTruth
  <2> QED
    BY <1>1, <1>2, <2>1, <2>2, <2>3, GatherMarket
<1>3. ASSUME NEW reason, Park(reason) PROVE MarketInv'
  BY <1>1, <1>3, ParkMarket
<1> QED
  BY <1>2, <1>3, PriceLegMeans

LEMMA SampleMarket ==
  ASSUME PriceInv, MarketInv, Sample
  PROVE  MarketInv'
<1> DEFINE token == Legs(trade)[pass.subject.leg].token
           m     == pass.sampled + 1
           truth == incident.truth[0][token]
<1>1. /\ claim.status \in Open /\ UNCHANGED <<incident, claim>>
      /\ PassKept(pass) /\ incident \in Incidents /\ pass # Idle
      /\ pass.subject.leg # 0 /\ pass.subject.leg <= Len(Legs(trade))
      /\ pass.sampled < Offsets /\ ~(pass.next <= Len(Legs(trade)))
  BY DEF Sample, Sampling, HasSubject, PriceInv, PassUnderWay, Running, Pricing
<1>2. /\ pass.subject.leg \in 1..Len(Legs(trade))
      /\ pass.next > Len(Legs(trade))
  <2>1. trade \in Trade
    BY <1>1, IncidentTrade
  <2>2. pass.subject.leg \in Nat /\ Len(Legs(trade)) \in Nat /\ pass.next \in Nat
    BY <1>1, <2>1, LegsOfTrade, LenProperties DEF PassKept, Subjects
  <2> QED
    BY <1>1, <2>2
<1>3. token \in Tokens /\ pass.subject.leg \in DOMAIN Legs(trade)
  BY <1>1, <1>2, LegTraded
<1>4. m \in 0..Offsets
  <2>1. pass.sampled \in Nat
    BY <1>1 DEF PassKept
  <2> QED
    BY <1>1, <2>1, VerdictAssumption
<1>5. PICK answers \in Asked(incident, token, m) :
        pass' = WithSample(pass, Window(answers))
  BY DEF Sample
<1> DEFINE w == Window(answers)
           q == WithSample(pass, w)
<1>6. WindowKept(w)
  BY <1>1, <1>3, <1>4, <1>5, AskedKept
<1>7. /\ q.next = pass.next /\ q.sold = pass.sold /\ q.bought = pass.bought
      /\ q.conf = pass.conf /\ q.subject = pass.subject
      /\ q.priced = pass.priced /\ q.sources = pass.sources
      /\ w.count = 0 => q.series = pass.series
      /\ w.count # 0 =>
           \E last : last.price = w.price /\ q.series = Append(pass.series, last)
  BY <1>1, <1>6, WithSampleFields
<1> HIDE DEF q
<1>8. FewPoisoned /\ Pegged => FairPass(q)
  BY <1>1, <1>7 DEF MarketInv, FairPass, SoldWorth, BoughtWorth
<1>9. incident.poisoned = {} /\ Pegged => HeardPass(q)
  BY <1>1, <1>7 DEF MarketInv, HeardPass, SoldWorth, BoughtWorth
<1>10. ASSUME incident.poisoned = {}, AllStill PROVE SampledTruth(q)
  <2>1. \A k \in 1..Len(pass.series) :
          1000 * Apart(pass.series[k].price, truth) <= 3 * truth
    BY <1>1, <1>10 DEF MarketInv, SampledTruth
  <2>2. CASE w.count = 0
    BY <1>2, <1>7, <2>1, <2>2 DEF SampledTruth
  <2>3. CASE w.count # 0
    <3>1. incident.truth[m][token] = truth
      BY <1>3, <1>4, <1>10 DEF AllStill, StoodStill
    <3>2. w.count > 0
      BY <1>6, <2>3 DEF WindowKept, Windows
    <3>3. 1000 * Apart(w.price, truth) <= 3 * truth
      <4> DEFINE there == incident.truth[m][token]
      <4>1. 1000 * Apart(w.price, there) <= 3 * there
        BY <1>1, <1>3, <1>4, <1>5, <1>10, <3>2, WindowHeard
      <4> QED
        BY <3>1, <4>1
    <3>4. PICK last : last.price = w.price /\ q.series = Append(pass.series, last)
      BY <1>7, <2>3
    <3> HIDE DEF truth, w, token
    <3>5. \A k \in 1..Len(q.series) :
            1000 * Apart(q.series[k].price, truth) <= 3 * truth
      <4>1. pass.series \in Seq(Samples)
        BY <1>1 DEF PassKept
      <4>2. /\ Len(q.series) = Len(pass.series) + 1 /\ Len(pass.series) \in Nat
            /\ \A k \in 1..Len(pass.series) : q.series[k] = pass.series[k]
            /\ q.series[Len(pass.series) + 1] = last
        BY <3>4, <4>1
      <4>3. \A k \in 1..Len(q.series) :
              k \in 1..Len(pass.series) \/ k = Len(pass.series) + 1
        BY <4>2
      <4> QED
        BY <2>1, <3>3, <3>4, <4>2, <4>3
    <3> QED
      BY <1>2, <1>7, <3>5 DEF SampledTruth, truth, token
  <2> QED
    BY <2>2, <2>3
<1>11. pass' = q
  BY <1>5 DEF q
<1> QED
  BY <1>1, <1>8, <1>9, <1>10, <1>11, GatherMarket
\* A pass through every leg has the totals of the whole trade.
LEMMA AllValued ==
  ASSUME incident \in Incidents, NEW p, PassKept(p), ~(p.next <= Len(Legs(trade)))
  PROVE  /\ SoldWorth(p) = TrueSold /\ BoughtWorth(p) = TrueBought
         /\ TrueSold \in Nat /\ TrueBought \in Nat
<1> DEFINE ns == Len(trade.sold)
           nb == Len(trade.bought)
           n  == p.next - 1
<1>1. trade \in Trade /\ incident \in Incident
  BY IncidentTrade, ReviewAssumption
<1>2. trade.sold \in Seq(Delta) /\ trade.bought \in Seq(Delta)
  BY <1>1 DEF Trade
<1>3. ns \in Nat /\ nb \in Nat /\ n \in Nat /\ n >= ns + nb
  <2>1. ns \in Nat /\ nb \in Nat
    BY <1>2, LenProperties
  <2>2. Len(Legs(trade)) = ns + nb /\ p.next \in Nat \ {0}
    BY <1>1, LegsOfTrade DEF PassKept
  <2> HIDE DEF ns, nb
  <2> QED
    BY <2>1, <2>2
<1>4. SoldTo(trade, n) = ns /\ BoughtTo(trade, n) = nb
  <2>1. /\ Smaller(n, ns) = ns
        /\ n <= ns => nb = 0
        /\ ~(n <= ns) => Smaller(n - ns, nb) = nb
    <3> HIDE DEF ns, nb, n
    <3> QED
      BY <1>3 DEF Smaller
  <2> QED
    BY <2>1 DEF SoldTo, BoughtTo
<1>5. incident.truth[0] \in [Tokens -> Nat \ {0}]
  <2>1. incident.truth \in [0..Offsets -> [Tokens -> Nat \ {0}]]
    BY <1>1 DEF Incident
  <2> QED
    BY <2>1, VerdictAssumption
<1>6. TrueSold \in Nat /\ TrueBought \in Nat
  <2>1. ns \in 0..ns /\ nb \in 0..nb
    <3> HIDE DEF ns, nb
    <3> QED
      BY <1>3
  <2> QED
    BY <1>2, <1>5, <2>1, WorthAdds DEF TrueSold, TrueBought
<1> QED
  BY <1>4, <1>6 DEF SoldWorth, BoughtWorth, TrueSold, TrueBought

LEMMA ConfirmMarket ==
  ASSUME PriceInv, MarketInv, Gathered, UNCHANGED incident,
         NEW raw \in BOOLEAN, NEW block \in BOOLEAN,
         AdjudicatePrice(pass, trade, raw, block).outcome = "confirmed",
         Confirm(AdjudicatePrice(pass, trade, raw, block))
  PROVE  MarketInv'
<1> DEFINE v == AdjudicatePrice(pass, trade, raw, block)
<1>1. /\ PassKept(pass) /\ DOMAIN claim = ClaimFields
      /\ incident \in Incidents /\ pass # Idle
      /\ ~(pass.next <= Len(Legs(trade)))
  BY DEF PriceInv, ClaimKept, PassUnderWay, Gathered, Running, Pricing
<1>2. /\ pass.sold > 0 /\ pass.conf \in Nat /\ pass.bought \in Nat /\ pass.sold \in Nat
      /\ 3 * pass.conf <= pass.sold - pass.bought
      /\ 3 * pass.sold <= 100 * (pass.sold - pass.bought)
      /\ v.loss \in Int /\ v.loss <= pass.sold - pass.bought
  BY <1>1, ConfirmedMeans
<1>3. v.confidence >= REVIEW_CONFIDENCE => pass.sources >= 2
  BY <1>1, <1>2, VerdictMeans, ConfidenceNeedsCorroboration
<1>4. /\ pass' = Idle
      /\ \/ claim'.status = "review"
         \/ /\ claim'.status = "approved" /\ claim'.loss = v.loss
            /\ v.confidence >= REVIEW_CONFIDENCE
  <2>1. PICK hash \in BOOLEAN :
          /\ claim' =
               IF v.confidence >= REVIEW_CONFIDENCE /\ Plannable(hash)
               THEN [claim EXCEPT
                      !.status = "approved", !.reason = v.reason,
                      !.attempts = @ + 1, !.loss = v.loss,
                      !.confidence = v.confidence, !.proof = Proof,
                      !.sources = pass.sources, !.sampled = Len(pass.series)]
               ELSE [claim EXCEPT !.status = "review", !.reason = "lane"]
          /\ pass' = Idle
    BY DEF Confirm
  <2> HIDE DEF v
  <2>2. CASE v.confidence >= REVIEW_CONFIDENCE /\ Plannable(hash)
    BY <1>1, <2>1, <2>2 DEF ClaimFields
  <2>3. CASE ~(v.confidence >= REVIEW_CONFIDENCE /\ Plannable(hash))
    BY <1>1, <2>1, <2>3 DEF ClaimFields
  <2> QED
    BY <2>2, <2>3
<1> HIDE DEF v
<1>5. ASSUME v.confidence >= REVIEW_CONFIDENCE, FewPoisoned, Pegged
      PROVE  /\ 1000 * TrueShortfall > 3 * TrueSold
             /\ 1000 * (v.loss - TrueShortfall) <= 24 * (TrueSold + TrueBought)
  <2>1. FairPass(pass)
    BY <1>1, <1>5 DEF MarketInv
  <2>2. FairTotals(pass.sold, pass.bought, pass.conf, TrueSold, TrueBought)
    BY <1>1, <1>3, <1>5, <2>1, AllValued DEF FairPass
  <2>3. TrueSold \in Nat /\ TrueBought \in Nat
    BY <1>1, AllValued
  <2>4. Compelling(pass.sold, pass.bought, pass.conf)
    BY <1>2 DEF Compelling
  <2>5. Deserved(pass.sold - pass.bought, TrueSold, TrueBought)
    BY <1>2, <2>2, <2>3, <2>4, FairShortfall
  <2>6. TrueShortfall = TrueSold - TrueBought
    BY DEF TrueShortfall
  <2> DEFINE ts   == TrueSold
             tb   == TrueBought
             d    == pass.sold - pass.bought
             loss == v.loss
  <2>7. /\ ts \in Nat /\ tb \in Nat /\ d \in Int /\ loss \in Int /\ loss <= d
        /\ 1000 * (d - (ts - tb)) <= 24 * (ts + tb)
    BY <1>2, <2>3, <2>5 DEF Deserved
  <2> HIDE DEF ts, tb, d, loss
  <2>8. 1000 * (loss - (ts - tb)) <= 24 * (ts + tb)
    BY <2>7
  <2> QED
    BY <2>5, <2>6, <2>8 DEF ts, tb, loss, Deserved
<1>6. claim'.status # "rejected"
  BY <1>4
<1>7. claim'.status \in Settled =>
        claim'.loss = v.loss /\ v.confidence >= REVIEW_CONFIDENCE
  BY <1>4 DEF Settled
<1> QED
  BY <1>4, <1>5, <1>6, <1>7, MarketNext

\* A rejection of what every source answered is no misfill's.
LEMMA RejectionHeard ==
  ASSUME PriceInv, MarketInv, Gathered, incident.poisoned = {}, Pegged,
         NEW raw \in BOOLEAN, NEW block \in BOOLEAN,
         AdjudicatePrice(pass, trade, raw, block).outcome = "rejected"
  PROVE  ~Misfill
<1> SUFFICES ASSUME Misfill
             PROVE  FALSE
  OBVIOUS
<1> DEFINE ts   == TrueSold
           tb   == TrueBought
           gap  == pass.sold - pass.bought
<1>1. /\ PassKept(pass) /\ incident \in Incidents /\ pass # Idle
      /\ ~(pass.next <= Len(Legs(trade)))
      /\ pass.subject.leg <= Len(Legs(trade))
  BY DEF PriceInv, PassUnderWay, Gathered, Running, Pricing
<1>2. /\ AllStill /\ trade.depth < DOMINANT_DEPTH_SHARE
      /\ 100 * (ts - tb) >= 6 * ts /\ ts - tb >= 2 * MIN_PAYABLE_LOSS
  BY DEF Misfill, AllStill, TrueShortfall
<1>3. HeardTotals(pass.sold, pass.bought, pass.conf, ts, tb)
  BY <1>1, AllValued DEF MarketInv, HeardPass
<1>4. /\ pass.sold \in Nat /\ pass.bought \in Nat /\ pass.conf \in Nat
      /\ ts \in Nat /\ tb \in Nat /\ MIN_PAYABLE_LOSS \in Nat \ {0}
  BY <1>1, AllValued, VerdictAssumption DEF PassKept
<1> HIDE DEF ts, tb
<1>5. /\ pass.sold > 0 /\ 3 * pass.conf <= gap
      /\ CeilDiv(pass.sold, 200) <= gap /\ CeilDiv(3 * pass.sold, 100) <= gap
      /\ gap - (30 * pass.sold) \div 10000 >= MIN_PAYABLE_LOSS
  <2>1. Telling(ts, tb, MIN_PAYABLE_LOSS)
    BY <1>2 DEF Telling
  <2>2. StandsOut(pass.sold, pass.bought, pass.conf, MIN_PAYABLE_LOSS)
    BY <1>3, <1>4, <2>1, HeardShortfall
  <2> QED
    BY <2>2 DEF StandsOut
<1>6. Turbulence(pass) <= CeilDiv(3 * pass.sold, 100)
  <2>1. CASE pass.subject.leg = 0
    <3>1. CeilDiv(3 * pass.sold, 100) \in Nat
      <4>1. 3 * pass.sold \in Nat
        BY <1>4
      <4> QED
        BY <4>1, CeilDivNatural
    <3> QED
      BY <2>1, <3>1 DEF Turbulence, HasSubject
  <2>2. CASE pass.subject.leg # 0
    <3> DEFINE token == Legs(trade)[pass.subject.leg].token
               truth == incident.truth[0][token]
    <3>1. pass.subject.leg \in 1..Len(Legs(trade))
      <4>1. pass.subject.leg \in Nat /\ Len(Legs(trade)) \in Nat
        BY <1>1, IncidentTrade, LegsOfTrade, LenProperties DEF PassKept, Subjects
      <4> QED
        BY <1>1, <2>2, <4>1
    <3>2. token \in Tokens /\ 0 \in 0..Offsets
      BY <1>1, <3>1, LegTraded, VerdictAssumption
    <3>3. truth \in Nat \ {0}
      BY <1>1, <3>2, TruthPositive
    <3>4. \A k \in 1..Len(pass.series) :
            1000 * Apart(pass.series[k].price, truth) <= 3 * truth
      BY <1>1, <1>2 DEF MarketInv, SampledTruth
    <3> HIDE DEF truth
    <3> QED
      BY <1>1, <3>3, <3>4, StillTurbulence
  <2> QED
    BY <2>1, <2>2
<1>7. Threshold(pass) <= gap
  <2>1. /\ Turbulence(pass) \in Nat /\ CeilDiv(3 * pass.sold, 100) \in Nat
        /\ CeilDiv(pass.sold, 200) \in Nat /\ gap \in Int
    <3>1. 3 * pass.sold \in Nat
      BY <1>4
    <3>2. CeilDiv(3 * pass.sold, 100) \in Nat
      BY <3>1, CeilDivNatural
    <3>3. CeilDiv(pass.sold, 200) \in Nat
      BY <1>4, CeilDivNatural
    <3>4. Turbulence(pass) \in Nat
      BY <1>1, TurbulenceNatural
    <3>5. gap \in Int
      BY <1>4
    <3> QED
      BY <3>2, <3>3, <3>4, <3>5
  <2> DEFINE f == CeilDiv(3 * pass.sold, 100)
             g == CeilDiv(pass.sold, 200)
             h == Turbulence(pass)
             c == 3 * pass.conf
  <2>2. /\ f \in Nat /\ g \in Nat /\ h \in Nat /\ c \in Nat /\ gap \in Int
        /\ f <= gap /\ g <= gap /\ h <= f /\ c <= gap
    BY <1>4, <1>5, <1>6, <2>1
  <2>3. Threshold(pass) = Larger(Larger(g, c), Larger(h, f))
    BY DEF Threshold
  <2> HIDE DEF f, g, h, c, gap
  <2> QED
    BY <2>2, <2>3 DEF Larger
<1>8. trade.depth >= DOMINANT_DEPTH_SHARE
  <2>1. MIN_PAYABLE_LOSS <= pass.sold - pass.bought - (30 * pass.sold) \div 10000
    <3>1. (30 * pass.sold) \div 10000 \in Nat
      BY <1>4
    <3> QED
      BY <1>4, <1>5, <3>1
  <2> QED
    BY <1>1, <1>5, <1>7, <2>1, RejectedMeans
<1>9. trade.depth \in Nat
  <2>1. trade \in Trade
    BY <1>1, IncidentTrade
  <2>2. trade.depth \in 0..100
    <3> DEFINE t == trade
    <3>1. t \in Trade
      BY <2>1
    <3> HIDE DEF t
    <3>2. t.depth \in 0..100
      BY <3>1 DEF Trade
    <3> QED
      BY <3>2 DEF t
  <2> QED
    BY <2>2
<1> QED
  BY <1>2, <1>8, <1>9 DEF DOMINANT_DEPTH_SHARE

LEMMA DecideMarket ==
  ASSUME PriceInv, MarketInv, Decide
  PROVE  MarketInv'
<1>1. Gathered /\ UNCHANGED incident
  BY DEF Decide
<1>2. PICK raw \in BOOLEAN, block \in BOOLEAN :
        LET verdict == AdjudicatePrice(pass, trade, raw, block)
        IN \/ Park(verdict.reason)
           \/ verdict.outcome = "rejected" /\ Reject(verdict.reason)
           \/ verdict.outcome = "confirmed" /\ Confirm(verdict)
  BY Zenon DEF Decide
<1> DEFINE v == AdjudicatePrice(pass, trade, raw, block)
<1>3. CASE Park(v.reason)
  BY <1>1, <1>3, ParkMarket
<1>4. CASE v.outcome = "rejected" /\ Reject(v.reason)
  <2>1. incident.poisoned = {} /\ Pegged => ~Misfill
    BY <1>1, <1>4, RejectionHeard
  <2> HIDE DEF v
  <2> QED
    BY <1>1, <1>4, <2>1, RejectMarket
<1>5. CASE v.outcome = "confirmed" /\ Confirm(v)
  BY <1>1, <1>5, ConfirmMarket
<1> QED
  BY <1>2, <1>3, <1>4, <1>5

LEMMA SettleMarket ==
  ASSUME PriceInv, MarketInv, Settle
  PROVE  MarketInv'
<1>1. /\ claim.status = "approved" /\ UNCHANGED <<incident, pass>>
      /\ DOMAIN claim = ClaimFields
  BY DEF Settle, PriceInv, ClaimKept
<1>2. claim'.status \in {"paid", "failed"} /\ claim'.loss = claim.loss
  BY <1>1 DEF Settle, ClaimFields
<1>3. pass = Idle
  BY <1>1 DEF PriceInv, PassUnderWay, Open
<1> QED
  BY <1>1, <1>2, <1>3, MarketNext DEF MarketInv, FairFillNeverPaid, Settled

\* What a pass has added up stays true to the market it asked about: fair to
\* it while few lie, and to a hair where none does.
THEOREM MarketInvariant == PriceSpec => []MarketInv
<1>1. PriceInv /\ MarketInv /\ [PriceNext]_priceVars => MarketInv'
  <2> SUFFICES ASSUME PriceInv, MarketInv, [PriceNext]_priceVars
               PROVE  MarketInv'
    OBVIOUS
  <2>1. CASE Begin
    BY <2>1, BeginMarket
  <2>2. CASE PriceLeg
    BY <2>2, PriceLegMarket
  <2>3. CASE Sample
    BY <2>3, SampleMarket
  <2>4. CASE Decide
    BY <2>4, DecideMarket
  <2>5. CASE Settle
    BY <2>5, SettleMarket
  <2>6. CASE UNCHANGED priceVars
    <3>1. UNCHANGED incident /\ UNCHANGED claim /\ UNCHANGED pass
      BY <2>6 DEF priceVars
    <3> QED
      BY <3>1, MarketNext DEF MarketInv, FairFillNeverPaid, SilenceNeverDenies
  <2> QED
    BY <2>1, <2>2, <2>3, <2>4, <2>5, <2>6 DEF PriceNext
<1> QED
  BY <1>1, InitMarketInv, PriceInvariant, PTL DEF PriceSpec

\* However many sources there are and however they answer, the few among them
\* that lie buy no payment of a fair fill, and overstate no loss by more than
\* references that agree may differ.
THEOREM FairFillSafe == PriceSpec => []FairFillNeverPaid
<1>1. MarketInv => FairFillNeverPaid
  BY DEF MarketInv
<1> QED
  BY <1>1, MarketInvariant, PTL

\* Sources that are down, silent, late or few deny no claim of a fill far worse
\* than a market that stood still.
THEOREM SilenceSafe == PriceSpec => []SilenceNeverDenies
<1>1. MarketInv => SilenceNeverDenies
  BY DEF MarketInv
<1> QED
  BY <1>1, MarketInvariant, PTL
=============================================================================
