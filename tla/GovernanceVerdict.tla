------------------------- MODULE GovernanceVerdict -------------------------
(***************************************************************************)
(* The governance verifier (verifiers/governance-attack.ts): what one pass *)
(* says of a claim that control over the agent's accounts was seized.  The *)
(* loss is measured between a snapshot before the takeover and what the    *)
(* agent holds when the pass runs: holdings, frozen and lag are parameters *)
(* because every pass reads them anew.                                     *)
(***************************************************************************)
EXTENDS Adjudication

CONSTANT GOVERNANCE_DRAIN_WINDOW    \* GOVERNANCE_DRAIN_WINDOW_SEC

ASSUME WindowAssumption == GOVERNANCE_DRAIN_WINDOW \in Nat

GovernanceWeights ==
  [authority_left_manifest |-> 45, takeover_signer_foreign |-> 40,
   account_frozen |-> 30, upgrade_authority_seized |-> 30,
   drain_follows_takeover |-> 30, victim_cohort |-> 30,
   delegate_installed_then_pulled |-> 25, new_authority_first_seen |-> 20,
   multisig_config_opaque |-> 0]

ControlClass ==
  {"authority_left_manifest", "takeover_signer_foreign", "account_frozen",
   "upgrade_authority_seized"}

-----------------------------------------------------------------------------
(* authority.ts: the changes of control a transaction makes. *)

Kind(i) ==
  CASE i.type = "setOwner" -> "owner"
    [] i.type \in {"setClose", "closeAccount"} -> "close"
    [] i.type = "freezeAccount" -> "freeze"
    [] i.type = "approve" -> "delegate"
    [] i.type = "upgrade" -> "upgrade"

\* A freeze puts the account in the hand that froze it.
NewAuthority(i) == IF i.type = "freezeAccount" THEN i.authority ELSE i.to

\* A program's authority counts only when it was the agent's.
Takeovers(view) ==
  {i \in view : \/ i.type \in ControlTypes \cup {"freezeAccount", "approve"}
                \/ i.type = "upgrade" /\ i.authority = Agent}

Unattributed(view) ==
  {t \in Takeovers(view) : NewAuthority(t) \in {Nobody, Unread}}

Controllers(incident, view) ==
  ({NewAuthority(t) : t \in Takeovers(view)} \ {Nobody, Unread})
    \cup OwnershipChanges(incident)

OpaqueControl(view) == {i \in view : i.type = "multisig"}

\* The instructions the analysis leaves open, each a hole in the reading: one
\* not decoded, one of a multisig, a foreign upgrade, one whose signer is not
\* reported.
AuthorityHoles(incident, reading) ==
  LET view == View(incident, reading) IN
    Cardinality(Undecoded(incident, reading))
      + Cardinality({i \in view :
          \/ i.type = "multisig"
          \/ i.type = "upgrade" /\ i.authority # Agent
          \/ i \in Takeovers(view) /\ i.authority = Unread})

-----------------------------------------------------------------------------
(* The declared set: adjudicate.ts permittedFor and outsideDeclaredSet. *)

PermittedFor(kind, charter) ==
  Family \cup charter.extra \cup
    (CASE kind \in {"owner", "freeze"} -> {charter.owner}
       [] kind = "delegate" -> {charter.delegate}
       [] kind = "close"    -> {charter.close}
       [] kind = "upgrade"  -> {charter.upgrade})

\* Every address the declaration names, whatever its role.
Named(charter) ==
  (charter.extra \cup {charter.owner, charter.delegate, charter.close,
                       charter.upgrade, charter.controller}) \ {Nobody}

OutsideDeclaredSet(incident, view) ==
  {NewAuthority(t) : t \in {u \in Takeovers(view) \ Unattributed(view) :
      NewAuthority(u) \notin PermittedFor(Kind(u), incident.charter)}}
    \cup (OwnershipChanges(incident) \ PermittedFor("owner", incident.charter))

PrincipalSigned(incident, view) ==
  /\ Takeovers(view) # {} \/ OwnershipChanges(incident) # {}
  /\ \A t \in Takeovers(view) : t.authority \in Family
  /\ OwnershipChanges(incident) # {} => incident.signers \cap Family # {}

-----------------------------------------------------------------------------
(* conjunction.ts: what the change of control cost. *)

\* Value in the snapshot and no longer with the agent.  Without a snapshot
\* there is nothing to compare with.
Gone(incident, reading, holdings) ==
  IF Lacks(reading, "snapshot") \/ holdings >= incident.held THEN 0
  ELSE incident.held - holdings

Exposure(incident, reading, holdings, frozen) ==
  Gone(incident, reading, holdings) + frozen

\* Mutated form: a loss without a reading before it is inside the window.
WithinWindowUnanchored(reading, lag) == lag <= GOVERNANCE_DRAIN_WINDOW

WithinWindow(reading, lag) ==
  ~Lacks(reading, "snapshot") /\ lag <= GOVERNANCE_DRAIN_WINDOW

-----------------------------------------------------------------------------
(* signatures.ts *)

\* New authorities that are strangers and hold an allowance.
ForeignDelegates(view) ==
  {t \in Takeovers(view) : t.type = "approve" /\ t.to \notin Family}

GovernanceUnevaluated(incident, reading, lag) ==
  LET view == View(incident, reading) IN
    {s \in DOMAIN GovernanceWeights :
       \/ s = "authority_left_manifest" /\ ~incident.charter.declared
       \/ s = "drain_follows_takeover"
          /\ (Lacks(reading, "prices") \/ ~WithinWindow(reading, lag))
       \/ s = "delegate_installed_then_pulled"
          /\ ForeignDelegates(view) # {} /\ Lacks(reading, "prices")
       \/ s = "multisig_config_opaque" /\ OpaqueControl(view) # {}
       \/ s = "new_authority_first_seen"
          /\ (Lacks(reading, "counterparty") \/ Controllers(incident, view) = {})
       \/ s = "victim_cohort" /\ Lacks(reading, "cohort")}

GovernancePresent(incident, reading, holdings, lag) ==
  LET view == View(incident, reading) IN
    {s \in DOMAIN GovernanceWeights \ GovernanceUnevaluated(incident, reading, lag) :
       \/ s = "authority_left_manifest"
          /\ ~(Controllers(incident, view)
                 \subseteq Family \cup Named(incident.charter))
       \/ s = "takeover_signer_foreign"
          /\ \/ \E t \in Takeovers(view) : t.authority \notin Family \cup {Unread}
             \/ OwnershipChanges(incident) # {} /\ ~AgentSigned(incident)
       \/ s = "account_frozen"
          /\ \E t \in Takeovers(view) :
               t.type = "freezeAccount" /\ NewAuthority(t) \notin Family
       \/ s = "upgrade_authority_seized"
          /\ \E t \in Takeovers(view) : t.type = "upgrade" /\ t.to \notin Family
       \/ s = "drain_follows_takeover" /\ Gone(incident, reading, holdings) > 0
       \/ s = "delegate_installed_then_pulled"
          /\ ForeignDelegates(view) # {} /\ Gone(incident, reading, holdings) > 0
       \/ s = "new_authority_first_seen" /\ "first_seen" \in incident.shape
       \/ /\ s = "victim_cohort" /\ "cohort" \in incident.shape
          /\ Takeovers(view) # {} \/ Controllers(incident, view) # {}}

GovernanceScore(incident, reading, holdings, lag) ==
  Score(GovernanceWeights, GovernancePresent(incident, reading, holdings, lag))

-----------------------------------------------------------------------------
(* adjudicate.ts *)

GovernanceConfidence(incident, reading, holdings, frozen, lag) ==
  LET exposure == Exposure(incident, reading, holdings, frozen)
      ratioKnown == /\ ~Lacks(reading, "prior") /\ ~Lacks(reading, "snapshot")
                    /\ incident.held > 0
  IN Clamp(5500
       + AtMost(2500, 25 * GovernanceScore(incident, reading, holdings, lag))
       - HolesPenalty(Cardinality(GovernanceUnevaluated(incident, reading, lag))
                        + AuthorityHoles(incident, reading))
       + (IF OwnershipChanges(incident) # {} THEN 500 ELSE 0)
       + (IF frozen > 0 THEN 500 ELSE 0)
       + (IF ~ratioKnown THEN -300
          ELSE IF 2 * exposure >= incident.held THEN 500 ELSE 0)
       - BlemishPenalty(reading))

\* From where it is asked what the change of control cost, and who signed it.
JudgeExposure(incident, reading, holdings, frozen, lag) ==
  LET view    == View(incident, reading)
      loss    == CapToCoverage(Exposure(incident, reading, holdings, frozen))
      present == GovernancePresent(incident, reading, holdings, lag)
      odd     == GovernanceScore(incident, reading, holdings, lag)
                   >= REVIEW_SIGNATURE_SCORE
  IN IF Lacks(reading, "prices") THEN Indeterminate("exposure_not_valued")
     ELSE IF ~WithinWindow(reading, lag)
       THEN Indeterminate("conjunction_outside_window")
     ELSE IF Exposure(incident, reading, holdings, frozen) <= 0
       THEN Rejected("no_measurable_exposure")
     ELSE IF loss < MIN_PAYABLE_LOSS THEN Rejected("loss_below_dust")
     ELSE IF PrincipalSigned(incident, view)
       THEN IF odd THEN Indeterminate("authorised_signer_anomalous")
            ELSE Rejected("principal_authorised_change")
     ELSE IF present \cap ControlClass = {}
       THEN Indeterminate("no_authorization_evidence")
     ELSE Verdict("confirmed", "control_seized", loss,
            GovernanceConfidence(incident, reading, holdings, frozen, lag))

AdjudicateGovernance(incident, reading, holdings, frozen, lag) ==
  LET view    == View(incident, reading)
      outside == OutsideDeclaredSet(incident, view)
  IN IF incident.failed THEN Rejected("transaction_failed")
     ELSE IF ~incident.charter.declared THEN Indeterminate("no_governance_baseline")
     ELSE IF ~incident.charter.matured
       THEN Indeterminate("governance_baseline_not_matured")
     ELSE IF Controllers(incident, view) = {}
       THEN IF incident.charter.controller # Nobody /\ OpaqueControl(view) # {}
            THEN Indeterminate("multisig_config_unevaluated")
            ELSE IF Unattributed(view) # {}
            THEN Indeterminate("unattributed_control_change")
            ELSE Rejected("no_control_change")
     ELSE IF outside = {}
       THEN IF Controllers(incident, view) \subseteq Family
            THEN Rejected("self_rotation")
            ELSE Rejected("authority_within_baseline")
     ELSE JudgeExposure(incident, reading, holdings, frozen, lag)

-----------------------------------------------------------------------------
\* verifiers/governance-attack.ts: what a verdict cannot do without.
VerifyGovernanceAttack(incident, reading, holdings, frozen, lag) ==
  IF Lacks(reading, "raw") THEN Indeterminate("no_chain_record")
  ELSE IF Lacks(reading, "time") THEN Indeterminate("no_block_time")
  ELSE IF Lacks(reading, "declaration")
    THEN Indeterminate("baseline_lookup_unavailable")
  ELSE IF Lacks(reading, "feed") THEN Indeterminate("price_source_unavailable")
  ELSE AdjudicateGovernance(incident, reading, holdings, frozen, lag)
=============================================================================
