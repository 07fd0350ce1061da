------------------------- MODULE AgentErrorVerdict -------------------------
(***************************************************************************)
(* The agent-error verifier (verifiers/agent-error.ts): what one pass says *)
(* of a claim that the agent itself moved value outside the envelope the   *)
(* holder declared for it.                                                 *)
(***************************************************************************)
EXTENDS Adjudication

CONSTANTS
  HISTORY_AGE,        \* DEFAULT_OUTFLOW_WINDOW_SEC
  FRESH_AGE,          \* OUTFLOW_BASELINE_MAX_AGE_SEC
  MIN_OBSERVATIONS    \* MIN_OUTFLOW_OBSERVATIONS

ASSUME HistoryAssumption ==
  HISTORY_AGE \in Nat /\ FRESH_AGE \in Nat /\ MIN_OBSERVATIONS \in Nat

-----------------------------------------------------------------------------
(* What the agent ordinarily moves: baseline.ts.  The incident's own       *)
(* transfer is not part of its history.                                    *)

Rows(incident) ==
  {n \in DOMAIN incident.past : incident.past[n].age <= HISTORY_AGE}

\* No row, or a query that failed: the verifier goes on without a baseline.
HasHistory(incident, reading) ==
  ~Lacks(reading, "outflows") /\ Rows(incident) # {}

StaleHistory(incident) ==
  \/ Cardinality(Rows(incident)) < MIN_OBSERVATIONS
  \/ \A n \in Rows(incident) : incident.past[n].age > FRESH_AGE

\* The smallest amount at or below which share/100 of the rows lie.
Percentile(incident, share) ==
  LET rows == Rows(incident)
      UpTo(a) == {n \in rows : incident.past[n].amount <= a}
  IN CHOOSE a \in {incident.past[n].amount : n \in rows} :
       /\ 100 * Cardinality(UpTo(a)) >= share * Cardinality(rows)
       /\ \A n \in rows :
            incident.past[n].amount < a =>
              100 * Cardinality(UpTo(incident.past[n].amount))
                < share * Cardinality(rows)

\* What left within the envelope's window, this transfer included.
WindowOutflow(incident) ==
  incident.lost
    + MapThenSumSet(LAMBDA n : incident.past[n].amount,
        {n \in Rows(incident) : incident.past[n].age <= incident.mandate.window})

-----------------------------------------------------------------------------
(* breach.ts: the dimensions of the envelope a movement leaves.            *)

Dimensions ==
  {"single_outflow", "retained_balance", "window_outflow", "counterparty",
   "program"}

\* Those the program can measure on the chain.
ChainCheckable == {"single_outflow", "retained_balance"}

\* How far beyond a quantitative bound the movement went.  The floor is
\* breached by this transaction at most by what it moved.
Excess(dimension, incident) ==
  LET mandate == incident.mandate IN
  CASE dimension = "single_outflow" ->
         IF mandate.cap > 0 /\ incident.lost > mandate.cap
         THEN incident.lost - mandate.cap ELSE 0
    [] dimension = "retained_balance" ->
         IF mandate.floor > incident.held - incident.lost
         THEN AtMost(incident.lost, mandate.floor - (incident.held - incident.lost))
         ELSE 0
    [] OTHER -> 0

BreachUnevaluated(incident, reading) ==
  LET mandate == incident.mandate
      view    == View(incident, reading)
  IN {d \in Dimensions :
       \/ d = "single_outflow" /\ mandate.cap = 0
       \/ d = "window_outflow" /\ mandate.windowCap > 0 /\ mandate.window > 0
          /\ ~HasHistory(incident, reading)
       \/ d = "counterparty"
          /\ (mandate.counterparties = {} \/ ForeignDestinations(view) = {})
       \/ d = "program" /\ (mandate.programs = {} \/ incident.programs = {})}

Breached(incident, reading) ==
  LET mandate == incident.mandate
      view    == View(incident, reading)
  IN {d \in Dimensions \ BreachUnevaluated(incident, reading) :
       \/ d \in ChainCheckable /\ Excess(d, incident) > 0
       \/ d = "window_outflow" /\ mandate.windowCap > 0 /\ mandate.window > 0
          /\ WindowOutflow(incident) > mandate.windowCap
       \/ d = "counterparty"
          /\ ~(ForeignDestinations(view) \subseteq mandate.counterparties)
       \/ d = "program" /\ ~(incident.programs \subseteq mandate.programs)}

BreachProvable(incident, reading) ==
  Breached(incident, reading) \cap ChainCheckable # {}

\* The larger of the two measurable overshoots.
ExcessRaw(incident) ==
  LET cap   == Excess("single_outflow", incident)
      floor == Excess("retained_balance", incident)
  IN IF cap > floor THEN cap ELSE floor

-----------------------------------------------------------------------------
(* adjudicate.ts *)

\* The envelope declared is tighter than what the agent ordinarily does.
ContradictsHistory(incident, reading) ==
  /\ HasHistory(incident, reading) /\ ~StaleHistory(incident)
  /\ Percentile(incident, 50) > 0
  /\ incident.mandate.cap < Percentile(incident, 50)

AgentErrorConfidence(incident, reading) ==
  LET fresh == HasHistory(incident, reading) /\ ~StaleHistory(incident) IN
  Clamp(6000
    + (IF BreachProvable(incident, reading) THEN 1500 ELSE 0)
    + AtMost(1000, 500 * (Cardinality(Breached(incident, reading)) - 1))
    - HolesPenalty(Cardinality(BreachUnevaluated(incident, reading)))
    + (IF fresh
       THEN IF /\ Percentile(incident, 95) > 0
               /\ "single_outflow" \in Breached(incident, reading)
               /\ incident.lost >= 10 * Percentile(incident, 95)
            THEN 500 ELSE 0
       ELSE -300)
    - BlemishPenalty(reading))

\* A measurable breach pays the overshoot, any other the loss.
PayableLoss(incident, reading) ==
  CapToCoverage(
    IF BreachProvable(incident, reading)
    THEN AtMost(NetLoss(incident), ExcessRaw(incident))
    ELSE NetLoss(incident))

\* From where it is asked whether the loss left the declared envelope.
JudgeBreach(incident, reading) ==
  LET payable == PayableLoss(incident, reading)
  IN IF Breached(incident, reading) = {} THEN Rejected("within_mandate")
     ELSE IF ContradictsHistory(incident, reading)
       THEN Indeterminate("mandate_contradicts_history")
     ELSE IF payable < MIN_PAYABLE_LOSS THEN Rejected("breach_below_dust")
     ELSE IF BreachProvable(incident, reading)
             /\ payable < MIN_PROVABLE_MANDATE_BREACH
       THEN Indeterminate("breach_below_provable_floor")
     ELSE Verdict("confirmed", "mandate_breach", payable,
                  AgentErrorConfidence(incident, reading))

AdjudicateAgentError(incident, reading) ==
  LET view == View(incident, reading)
  IN IF ~incident.mandate.declared THEN Indeterminate("no_mandate_declared")
     ELSE IF ~incident.mandate.matured THEN Indeterminate("mandate_not_matured")
     ELSE IF ~AgentSigned(incident) \/ ForeignAuthorities(view) # {}
       THEN Rejected("not_agent_authorized")
     ELSE IF incident.failed THEN Rejected("transaction_reverted_no_loss")
     ELSE IF AllDestinationsSelf(view) THEN Rejected("self_transfer")
     ELSE IF Lacks(reading, "prices") THEN Indeterminate("position_not_valued")
     ELSE IF NetLoss(incident) <= 0 THEN Rejected("no_net_loss")
     ELSE JudgeBreach(incident, reading)

-----------------------------------------------------------------------------
\* verifiers/agent-error.ts: what a verdict cannot do without.
VerifyAgentError(incident, reading) ==
  IF Lacks(reading, "raw") THEN Indeterminate("no_chain_record")
  ELSE IF Lacks(reading, "time") THEN Indeterminate("no_block_time")
  ELSE IF Lacks(reading, "declaration")
    THEN Indeterminate("mandate_lookup_unavailable")
  ELSE IF Lacks(reading, "feed") THEN Indeterminate("price_source_unavailable")
  ELSE AdjudicateAgentError(incident, reading)
=============================================================================
