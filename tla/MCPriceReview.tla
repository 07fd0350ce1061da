--------------------------- MODULE MCPriceReview ---------------------------
(* A small instance of PriceReview: SOL, BTC and two stables, four sources,*)
(* swaps at several fills in a market that stands still or moves, and      *)
(* answers at, near and far from the truth.                                *)
EXTENDS PriceReview, TLC

CONSTANTS cex1, cex2, cex3

MCGranularity == [s \in Sources |-> IF s = Pyth THEN 1 ELSE 60]
MCKind == [SOL |-> "priced", BTC |-> "priced", USDC |-> "stable",
           PYUSD |-> "stable_unfed", XYZ |-> "unregistered"]

D(token, amount) == [token |-> token, amount |-> amount]

Swap == [sold |-> <<D("SOL", 100)>>, bought |-> <<D("USDC", 100)>>,
         dex |-> TRUE, lending |-> FALSE, flash |-> FALSE, sandwich |-> FALSE,
         orderbook |-> FALSE, depth |-> 0]

Still    == [m \in 0..Offsets |-> [t \in Tokens |-> 1000]]
Falling  == [Still EXCEPT ![1] = [t \in Tokens |-> IF Kind[t] = "priced" THEN 1080 ELSE 1000]]

Case(t, truth, poisoned) ==
  [trade |-> t, truth |-> truth, poisoned |-> poisoned,
   covered |-> "SOL", cap |-> 100]

\* Fills of the plain swap, shaped by an attack or not, one source poisoned.
Plain ==
  {Case([Swap EXCEPT !.bought = <<D("USDC", fill)>>, !.flash = shaped,
                     !.sandwich = shaped], Still, {}) :
     fill \in {100, 80}, shaped \in BOOLEAN}
  \cup
  {Case([Swap EXCEPT !.bought = <<D("USDC", fill)>>, !.flash = TRUE,
                     !.sandwich = TRUE], Still, {s}) :
     fill \in {100, 95, 80}, s \in {Pyth, cex1}}
  \cup
  {Case([Swap EXCEPT !.bought = <<D("USDC", fill)>>, !.flash = TRUE],
        Falling, {}) : fill \in {90, 80}}

\* Two priced legs, two poisoned sources.
Crossed ==
  {Case([Swap EXCEPT !.bought = <<D("BTC", fill)>>, !.flash = TRUE],
        Still, {Pyth, cex1}) : fill \in {100, 90}}

\* Other programs, shapes and sizes.
Odd ==
  {Case(t, Still, {}) : t \in
     { [Swap EXCEPT !.dex = FALSE], [Swap EXCEPT !.dex = FALSE, !.lending = TRUE],
       [Swap EXCEPT !.sold = <<>>],
       [Swap EXCEPT !.sold = <<D("SOL", 50), D("BTC", 50)>>,
                    !.bought = <<D("USDC", 50), D("PYUSD", 50)>>],
       [Swap EXCEPT !.bought = <<D("XYZ", 100)>>],
       [Swap EXCEPT !.sold = <<D("PYUSD", 100)>>, !.bought = <<D("USDC", 90)>>],
       [Swap EXCEPT !.sold = <<D("PYUSD", 100)>>, !.bought = <<D("PYUSD", 90)>>],
       [Swap EXCEPT !.bought = <<D("USDC", 50), D("PYUSD", 30)>>, !.flash = TRUE],
       [Swap EXCEPT !.sold = <<D("SOL", 50), D("PYUSD", 50)>>,
                    !.bought = <<D("USDC", 80)>>, !.flash = TRUE],
       [Swap EXCEPT !.sold = <<D("USDC", 100)>>, !.bought = <<D("SOL", 80)>>,
                    !.flash = TRUE, !.sandwich = TRUE],
       [Swap EXCEPT !.bought = <<D("USDC", 80)>>, !.orderbook = TRUE],
       [Swap EXCEPT !.bought = <<D("USDC", 80)>>, !.flash = TRUE, !.depth = 20],
       [Swap EXCEPT !.bought = <<D("USDC", 80)>>, !.flash = TRUE, !.depth = 60],
       [Swap EXCEPT !.sold = <<D("SOL", 1)>>, !.bought = <<D("USDC", 1)>>],
       [Swap EXCEPT !.sold = <<D("SOL", 2)>>, !.bought = <<D("USDC", 1)>>] }}

\* A fair sale of a stable that has lost its peg and has no feed to say so.
Depegged ==
  {Case([Swap EXCEPT !.sold = <<D("PYUSD", 100)>>, !.bought = <<D("SOL", 90)>>,
                     !.flash = TRUE, !.sandwich = TRUE],
        [m \in 0..Offsets |-> [Still[m] EXCEPT !["PYUSD"] = 900]], {})}

MCIncidents == Plain \cup Crossed \cup Odd \cup Depegged

Down   == [kind |-> "down"]
Silent == [kind |-> "silent"]
At(s, price, skew) ==
  [kind |-> "point", value |-> price, conf |-> 2, skew |-> skew,
   signed |-> s = Pyth]

\* A candle is dated half a minute off; an answer of Pyth may come too late.
Near(s, price) ==
  CASE s = Pyth -> {At(s, price, 9), At(s, price, 0)}
    [] s = cex1 -> {Silent, At(s, price, 30)}
    [] s = cex2 -> {Silent, At(s, price + 2, 30)}
    [] s = cex3 -> {Silent, At(s, price, 30)}
Far(s, price) ==
  {Silent} \cup {At(s, p, 0) : p \in {price - 100, price - 16, price + 16}}

Each(poisoned, price) ==
  LET from(s) == IF s \in poisoned THEN Far(s, price) ELSE Near(s, price)
  IN {[s \in Sources |-> Down]} \cup
     {[s \in Sources |-> CASE s = Pyth -> a [] s = cex1 -> b
                            [] s = cex2 -> c [] s = cex3 -> d] :
        a \in from(Pyth), b \in from(cex1), c \in from(cex2), d \in from(cex3)}

\* Around the trade: every source, none, an honest one alone or a poisoned one.
Around(poisoned, price) ==
  LET all == [s \in Sources |-> At(s, IF s \in poisoned THEN price - 16 ELSE price,
                                   IF s = Pyth THEN 0 ELSE 30)]
      alone(s, p) == [[s2 \in Sources |-> Silent] EXCEPT ![s] = At(s, p, 0)]
  IN {all, [s \in Sources |-> Down]}
       \cup {alone(s, price - 100) : s \in poisoned}
       \cup (IF poisoned = {} THEN {alone(cex2, price)} ELSE {})

Table == [poisoned \in {i.poisoned : i \in MCIncidents}, price \in {1000, 1080} |->
            <<Each(poisoned, price), Around(poisoned, price)>>]

MCAsked(i, t, m) ==
  IF Fed(t) THEN Table[i.poisoned, i.truth[m][t]][IF m = 0 THEN 1 ELSE 2] ELSE {}
=============================================================================
