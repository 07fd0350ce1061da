--------------------------- MODULE ExploitVerdict ---------------------------
(***************************************************************************)
(* The exploit verifier (verifiers/exploit.ts): what one pass over an      *)
(* incident, read with gaps, says of a claim that value left the agent     *)
(* without its authority.                                                  *)
(***************************************************************************)
EXTENDS Adjudication

\* signatures.ts SIGNATURE_WEIGHTS and AUTHORIZATION_CLASS.
ExploitWeights ==
  [unauthorized_authority |-> 45, authority_mutation |-> 35,
   delegate_transfer |-> 30, victim_cohort |-> 30, drain_ratio |-> 25,
   program_upgraded_recently |-> 25, counterparty_first_seen |-> 20,
   counterparty_fanout |-> 20, flash_loan_present |-> 15]

AuthorizationClass ==
  {"unauthorized_authority", "authority_mutation", "delegate_transfer"}

\* The position before the transaction is priced separately: the loss may be
\* known and its share of the position not.
DrainKnown(incident, reading) ==
  /\ ~Lacks(reading, "prices") /\ ~Lacks(reading, "prior")
  /\ incident.held > 0

HalfDrained(incident) == 2 * NetLoss(incident) >= incident.held

\* A movement under an allowance that this transaction did not grant.
PriorDelegatePulls(view) ==
  {m \in ForeignMovements(view) :
     ~m.cpi /\ m.authority \notin {a.to : a \in Approvals(view)}}

\* Control over an account exercised by a hand that is not known to be the
\* agent's.
ForeignControlChanges(view) ==
  {c \in ControlChanges(view) : c.authority # Agent}

CandidatePrograms(incident, view) ==
  (incident.programs \ KnownPrograms)
    \cup (IF \E m \in Movements(view) : m.cpi THEN incident.programs ELSE {})

\* The checks that ask the chain about others than the agent: who was paid,
\* whom they paid in turn, what was run.  There may be nobody to ask about, and
\* a history may not come.
FirstSeenUnread(view, reading) ==
  Lacks(reading, "counterparty") \/ ForeignDestinations(view) = {}

FanoutUnread(view, reading) ==
  Lacks(reading, "fanout") \/ ForeignDestinations(view) = {}

UpgradeUnread(incident, view, reading) ==
  Lacks(reading, "program") \/ CandidatePrograms(incident, view) = {}

\* The checks that could not be run.
ExploitUnevaluated(incident, reading) ==
  LET view == View(incident, reading) IN
    {s \in DOMAIN ExploitWeights :
       \/ s = "drain_ratio" /\ ~DrainKnown(incident, reading)
       \/ s = "counterparty_first_seen" /\ FirstSeenUnread(view, reading)
       \/ s = "counterparty_fanout" /\ FanoutUnread(view, reading)
       \/ s = "program_upgraded_recently" /\ UpgradeUnread(incident, view, reading)
       \/ s = "victim_cohort" /\ Lacks(reading, "cohort")}

\* The checks that ran and found what they look for.
ExploitPresent(incident, reading) ==
  LET view == View(incident, reading) IN
    {s \in DOMAIN ExploitWeights \ ExploitUnevaluated(incident, reading) :
       \/ s = "unauthorized_authority" /\ HasUnauthorizedMovement(incident, view)
       \/ s = "authority_mutation" /\ ForeignControlChanges(view) # {}
       \/ s = "delegate_transfer" /\ PriorDelegatePulls(view) # {}
       \/ s = "drain_ratio" /\ HalfDrained(incident)
       \/ s = "flash_loan_present" /\ "flash" \in incident.shape
       \/ s = "counterparty_first_seen" /\ "first_seen" \in incident.shape
       \/ s = "counterparty_fanout" /\ "fanout" \in incident.shape
       \/ s = "program_upgraded_recently" /\ "upgraded" \in incident.shape
       \/ s = "victim_cohort" /\ "cohort" \in incident.shape
          /\ ForeignDestinations(view) \cup CandidatePrograms(incident, view) # {}}

HasAuthorizationEvidence(incident, reading) ==
  ExploitPresent(incident, reading) \cap AuthorizationClass # {}

ExploitScore(incident, reading) ==
  Score(ExploitWeights, ExploitPresent(incident, reading))

-----------------------------------------------------------------------------
(* Whether the agent had granted the authorities that moved its value:     *)
(* delegate-provenance.ts.                                                 *)

GrantedHere(view) == {a.to : a \in {b \in Approvals(view) : b.authority = Agent}}

Unexplained(view) == ForeignAuthorities(view) \ GrantedHere(view)

\* Mutated form: a history that could not be read holds no grant.
ProvenanceUnknownDenied(view, reading) == FALSE

\* The approvals found in the history of the accounts that were drawn on; a
\* history that could not be read is told apart from one without a grant.
ProvenanceUnknown(view, reading) ==
  Unexplained(view) # {} /\ Lacks(reading, "approvals")

GrantsFound(incident, reading) ==
  IF Lacks(reading, "approvals") THEN {} ELSE incident.granted

AllGrantedByAgent(incident, view, reading) ==
  Unexplained(view) \subseteq GrantsFound(incident, reading)

-----------------------------------------------------------------------------
(* adjudicate.ts *)

ExploitConfidence(incident, reading) ==
  Clamp(5500
    + AtMost(2500, 25 * ExploitScore(incident, reading))
    - HolesPenalty(Cardinality(ExploitUnevaluated(incident, reading)))
    + (IF ~DrainKnown(incident, reading) THEN -300
       ELSE IF HalfDrained(incident) THEN 500 ELSE 0)
    + (IF AccountsLost(incident) THEN 500 ELSE 0)
    - BlemishPenalty(reading))

\* From where it is asked whether the movement was the agent's.
JudgeAuthorization(incident, reading) ==
  LET view     == View(incident, reading)
      evidence == HasAuthorizationEvidence(incident, reading)
      odd      == ExploitScore(incident, reading) >= REVIEW_SIGNATURE_SCORE
      traced   == evidence /\ ForeignAuthorities(view) # {}
  IN IF traced /\ ProvenanceUnknown(view, reading)
       THEN Indeterminate("delegate_provenance_unresolved")
     ELSE IF traced /\ AllGrantedByAgent(incident, view, reading)
       THEN IF odd THEN Indeterminate("delegated_but_anomalous")
            ELSE Rejected("agent_delegated_movement")
     ELSE IF ~evidence
       THEN IF odd THEN Indeterminate("authorized_but_anomalous")
            ELSE Rejected("agent_authorized_movement")
     ELSE Verdict("confirmed", "unauthorized_loss",
                  CapToCoverage(NetLoss(incident)),
                  ExploitConfidence(incident, reading))

AdjudicateExploit(incident, reading) ==
  LET view == View(incident, reading)
  IN IF incident.failed THEN Rejected("transaction_failed")
     ELSE IF Lacks(reading, "prices") THEN Indeterminate("position_not_valued")
     ELSE IF AllDestinationsSelf(view) THEN Rejected("self_transfer")
     ELSE IF NetLoss(incident) <= 0 THEN Rejected("no_net_loss")
     ELSE IF CapToCoverage(NetLoss(incident)) < MIN_PAYABLE_LOSS
       THEN Rejected("loss_below_dust")
     ELSE IF ~HasAuthorizationEvidence(incident, reading)
             /\ HasUnresolvedAuthority(view)
       THEN Indeterminate("authority_unresolved")
     ELSE JudgeAuthorization(incident, reading)

-----------------------------------------------------------------------------
\* verifiers/exploit.ts: what cannot be adjudicated for want of the record, of
\* its time or of a price source is left for another pass.
VerifyExploit(incident, reading) ==
  IF Lacks(reading, "raw") THEN Indeterminate("no_chain_record")
  ELSE IF Lacks(reading, "time") THEN Indeterminate("no_block_time")
  ELSE IF Lacks(reading, "feed") THEN Indeterminate("price_source_unavailable")
  ELSE AdjudicateExploit(incident, reading)
=============================================================================
