--------------------------- MODULE MCClaimReview ---------------------------
(* A small instance of ClaimReview and Detection: families of incidents    *)
(* built from one template each, every reading of them with at most        *)
(* MaxGaps gaps, and the incidents that are watched for.                   *)
EXTENDS Detection

CONSTANTS x, y, MaxGaps

Ix(type, authority, to, cpi) ==
  [type |-> type, authority |-> authority, to |-> to, cpi |-> cpi]

Silent == [declared |-> FALSE, matured |-> FALSE, cap |-> 0, floor |-> 0,
           windowCap |-> 0, window |-> 0, counterparties |-> {}, programs |-> {}]
Capped == [Silent EXCEPT !.declared = TRUE, !.matured = TRUE, !.cap = 2]
Listed == [Capped EXCEPT !.counterparties = {x}, !.programs = {"venue"}]
Strict == [Listed EXCEPT !.floor = 6]

Unnamed == [declared |-> FALSE, matured |-> FALSE, owner |-> Agent,
            delegate |-> Nobody, close |-> Nobody, upgrade |-> Nobody,
            extra |-> {}, controller |-> Nobody]
Declared == [Unnamed EXCEPT !.declared = TRUE, !.matured = TRUE, !.delegate = y]

\* Five units leave an account of eight at the agent's own hand.
Spend == [ixs |-> {Ix("transfer", Agent, x, FALSE)}, signers |-> {Agent},
          failed |-> FALSE, held |-> 8, lost |-> 5, gained |-> 0,
          shape |-> {}, programs |-> {"venue"}, granted |-> {},
          past |-> <<>>, mandate |-> Silent, charter |-> Unnamed]

SignersOf(ixs) == {i.authority : i \in ixs}

\* Transfers by different hands, alone and beside an approval.
Moves ==
  {[Spend EXCEPT !.ixs = ixs, !.signers = SignersOf(ixs) \cup s,
                 !.shape = shape, !.granted = granted, !.mandate = Strict] :
     ixs \in { {Ix("transfer", Agent, x, FALSE)},
               {Ix("transfer", Agent, x, TRUE)},
               {Ix("transfer", x, x, FALSE)},
               {Ix("transfer", x, x, TRUE)},
               {Ix("transfer", x, x, FALSE), Ix("approve", Agent, x, FALSE)},
               {Ix("transfer", Agent, x, FALSE), Ix("transfer", x, y, FALSE)},
               {Ix("transfer", Agent, Holder, FALSE)} },
     s \in {{}, {Agent}},
     shape \in {{}, {"cohort", "first_seen"}},
     granted \in {{}, {x}}}

\* The same transfer at other sizes: dust, a full refund, the whole account.
Sizes ==
  {[Spend EXCEPT !.ixs = {Ix("transfer", hand, x, FALSE)},
                 !.signers = {hand, Agent}, !.lost = sizes[1],
                 !.gained = sizes[2], !.failed = failed, !.mandate = mandate] :
     hand \in {Agent, x},
     sizes \in {<<1, 0>>, <<5, 5>>, <<4, 1>>, <<8, 0>>},
     failed \in BOOLEAN,
     mandate \in {Silent, Capped}}

\* Own transfers against envelopes of every kind, with a history or without.
Errors ==
  {[Spend EXCEPT !.mandate = mandate, !.past = past, !.programs = programs,
                 !.lost = lost] :
     lost \in {3, 5},
     mandate \in {Silent, [Capped EXCEPT !.matured = FALSE], Capped, Listed,
                  [Listed EXCEPT !.cap = 6, !.floor = 6],
                  [Capped EXCEPT !.cap = 6],
                  [Capped EXCEPT !.cap = 6, !.windowCap = 6, !.window = 2],
                  [Capped EXCEPT !.cap = 0, !.counterparties = {y}]},
     past \in {<<>>, <<[amount |-> 3, age |-> 1], [amount |-> 2, age |-> 1]>>,
               <<[amount |-> 4, age |-> 1], [amount |-> 4, age |-> 3]>>,
               <<[amount |-> 1, age |-> 3], [amount |-> 1, age |-> 4]>>},
     programs \in {{"venue"}, {"unlisted"}}}

\* Changes of control, drained in the same transaction or not.
Seizures ==
  {[Spend EXCEPT !.ixs = ixs, !.signers = SignersOf(ixs) \cup s,
                 !.charter = charter, !.lost = lost, !.shape = shape] :
     ixs \in { {Ix("setOwner", x, x, FALSE)},
               {Ix("setOwner", Agent, x, FALSE)},
               {Ix("setOwner", Agent, y, FALSE)},
               {Ix("setOwner", Agent, Holder, FALSE)},
               {Ix("setClose", x, Nobody, FALSE)},
               {Ix("setClose", x, y, FALSE), Ix("transfer", Agent, x, FALSE)},
               {Ix("closeAccount", Holder, x, FALSE)},
               {Ix("freezeAccount", x, Nobody, FALSE)},
               {Ix("freezeAccount", x, Nobody, FALSE), Ix("approve", Agent, y, FALSE)},
               {Ix("approve", Agent, x, FALSE)},
               {Ix("upgrade", Agent, x, FALSE), Ix("upgrade", y, x, FALSE)},
               {Ix("multisig", Agent, Nobody, FALSE)} },
     s \in {{}, {Agent}},
     charter \in {Unnamed, [Declared EXCEPT !.matured = FALSE], Declared,
                  [Declared EXCEPT !.extra = {x}],
                  [Declared EXCEPT !.controller = y]},
     lost \in {0, 5},
     shape \in {{"first_seen"}}}

\* Incidents of several instructions, read with more gaps than one.
Intricate ==
  {i \in Moves \cup Seizures :
     Cardinality(i.ixs) = 2 /\ i.lost = 5 /\ i.granted = {}
       /\ i.shape # {"cohort", "first_seen"}}

\* What is watched for: a transfer by each hand, spends within and beyond the
\* envelope, changes of control, a spend worth ten times the screen, losses
\* too slight for it, and exactly half an account.
Transfers ==
  {i \in Moves : i.shape = {} /\ i.granted = {}}
Spends ==
  {[Spend EXCEPT !.mandate = mandate, !.lost = size[1], !.gained = size[2],
                 !.failed = failed] :
     size \in {<<1, 0>>, <<5, 0>>, <<5, 5>>}, failed \in BOOLEAN,
     mandate \in {Silent, Capped, [Capped EXCEPT !.cap = 6, !.floor = 6]}}
Captures ==
  {i \in Seizures : i.charter \in {Unnamed, Declared}}
Large == {[Spend EXCEPT !.held = 80, !.lost = 60]}
Slight ==
  {[Spend EXCEPT !.ixs = {Ix("transfer", hand, x, FALSE)}, !.signers = {hand},
                 !.held = 80, !.lost = size[1], !.gained = size[2],
                 !.mandate = [Capped EXCEPT !.cap = 6, !.floor = 79]] :
     hand \in {Agent, x}, size \in {<<2, 0>>, <<5, 1>>}}
Halves ==
  {[Spend EXCEPT !.ixs = {Ix("transfer", x, x, FALSE)}, !.signers = {x}, !.lost = 4]}

Watchable == Transfers \cup Spends \cup Captures \cup Large \cup Slight \cup Halves

Alone ==
  {<<[tx |-> i, named |-> named]>> : i \in Watchable, named \in BOOLEAN}

\* An allowance is tricked out of the agent, or an account is taken, and what
\* it holds leaves in a transaction the wallet's history does not show.
InTwo ==
  LET first == {Ix("approve", Agent, x, FALSE), Ix("setClose", x, x, FALSE),
                Ix("transfer", Agent, x, FALSE)}
      drain == [Spend EXCEPT !.ixs = {Ix("transfer", x, x, FALSE)},
                             !.signers = {x}]
  IN {<<[tx |-> [Spend EXCEPT !.ixs = {ix}, !.signers = {ix.authority}, !.lost = 0],
         named |-> TRUE],
        [tx |-> drain, named |-> FALSE]>> : ix \in first}

MCStories ==
  {s \in Alone : s[1].named \/ Agent \notin s[1].tx.signers} \cup InTwo

MCSightings ==
  {Complete, [missing |-> {"raw"}, garbled |-> {}, blemishes |-> {}]}

MCIncidents == Moves \cup Sizes \cup Errors \cup Seizures

Gaps(i) ==
  {<<"missing", s>> : s \in Sources} \cup {<<"blemish", b>> : b \in Blemishes}
    \cup {<<how, ix>> : how \in Garble, ix \in {j \in i.ixs : j.type # "multisig"}}

RECURSIVE GapSets(_, _)
GapSets(i, n) ==
  IF n = 0 THEN {{}}
  ELSE GapSets(i, n - 1)
         \cup {gaps \cup {g} : gaps \in GapSets(i, n - 1), g \in Gaps(i)}

MCReadings(i) ==
  {[missing   |-> {g[2] : g \in {h \in gaps : h[1] = "missing"}},
    blemishes |-> {g[2] : g \in {h \in gaps : h[1] = "blemish"}},
    garbled   |-> {<<g[2], g[1]>> : g \in {h \in gaps : h[1] \in Garble}}] :
     gaps \in GapSets(i, IF i \in Intricate THEN MaxGaps ELSE 1)}
=============================================================================
