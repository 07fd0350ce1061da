---------------------------- MODULE ClaimReview ----------------------------
(***************************************************************************)
(* One claim and its verification passes (claim-keeper.ts, processClaim):  *)
(* every pass reads the incident anew, with whatever the sources leave     *)
(* out, adjudicates it under the trigger the claim is filed as, and        *)
(* rejects, parks, re-files, escalates or approves the claim.  The agent's *)
(* holdings move between passes, and what a pass learns is merged into the *)
(* row the payout later plans from.                                        *)
(*                                                                         *)
(* ClaimKeeper models the jobs that run these passes and the settlement on *)
(* the chain; here a pass is one step and its verdict is computed.         *)
(***************************************************************************)
EXTENDS ExploitVerdict, AgentErrorVerdict, GovernanceVerdict

CONSTANTS
  Incidents,       \* the incidents a claim may be about
  Readings(_),     \* the readings a pass may obtain of one
  ProofEnabled,    \* triggers whose proof path is configured
  MaxLag           \* bound on the time modelled, in units of lag

ASSUME ReviewAssumption ==
  /\ \A i \in Incidents : i \in Incident /\ WellFormed(i)
  /\ ProofEnabled \subseteq Triggers
  /\ MaxLag \in Nat

VARIABLES
  incident,   \* what happened
  claim,      \* the row
  holdings,   \* what the agent holds now
  lag,        \* time since the incident
  basis       \* what the pass that closed or approved the claim had read

reviewVars == <<incident, claim, holdings, lag, basis>>

Complete == [missing |-> {}, garbled |-> {}, blemishes |-> {}]
Basis(r, held) == [reading |-> r, held |-> held]

Open    == {"pending", "indeterminate"}
Decided == {"rejected", "review", "approved", "paid"}

\* What stays in accounts that the transaction itself froze.
Frozen(held) ==
  IF ~incident.failed /\ \E i \in incident.ixs : i.type = "freezeAccount"
  THEN held ELSE 0

Adjudicate(trigger, r, held) ==
  CASE trigger = "exploit"     -> VerifyExploit(incident, r)
    [] trigger = "agent_error" -> VerifyAgentError(incident, r)
    [] trigger = "governance"  ->
         VerifyGovernanceAttack(incident, r, held, Frozen(held), lag)

-----------------------------------------------------------------------------
(* settlement-plan.ts: the evidence a proof is built from, the fresh       *)
(* details of the pass laid over what earlier ones left in the row.        *)

\* Verdicts of the agent-error path that say nothing of the breach.
BeforeBreach ==
  {"no_chain_record", "no_block_time", "mandate_lookup_unavailable",
   "price_source_unavailable", "no_mandate_declared", "mandate_not_matured",
   "position_not_valued"}

BreachSaid(trigger, verdict, r) ==
  IF trigger = "agent_error" /\ verdict.reason \notin BeforeBreach
  THEN BreachProvable(incident, r) ELSE claim.provable

\* Mutated form: the proof need not be bound to recorded evidence.
PlannableUnrecorded(trigger, provable, hash) ==
  trigger \in ProofEnabled /\ (trigger = "agent_error" => provable)

Plannable(trigger, provable, hash) ==
  /\ trigger \in ProofEnabled
  /\ hash
  /\ trigger = "agent_error" => provable

-----------------------------------------------------------------------------
(* The outcomes of a pass. *)

MeansAgentError == {"agent_authorized_movement", "authorized_but_anomalous"}

Reattributable(verdict) ==
  /\ claim.trigger = "exploit" /\ ~claim.reattributed
  /\ verdict.reason \in MeansAgentError

EnvelopeInForce == incident.mandate.declared /\ incident.mandate.matured

Park(reason, provable) ==
  claim' = [claim EXCEPT
    !.status = IF claim.attempts + 1 >= MAX_VERIFY_ATTEMPTS
               THEN "review" ELSE "indeterminate",
    !.reason = reason, !.attempts = @ + 1, !.provable = provable]

Refile(verdict) ==
  claim' = [claim EXCEPT !.trigger = "agent_error", !.status = "pending",
                         !.reason = verdict.reason, !.reattributed = TRUE]

Reject(verdict) ==
  claim' = [claim EXCEPT !.status = "rejected", !.reason = verdict.reason]

\* A confirmed verdict takes its lane; only the paying one stores what the
\* payout is to plan from.
Confirm(verdict, provable, hash) ==
  LET lane == DecideLane(verdict.confidence,
                Plannable(claim.trigger, provable, hash \/ claim.hash))
  IN IF lane = "review"
     THEN claim' = [claim EXCEPT !.status = "review", !.reason =
            IF verdict.confidence < REVIEW_CONFIDENCE
            THEN "confidence_below_review_bar" ELSE "proof_path_unavailable"]
     ELSE claim' = [claim EXCEPT
            !.status = "approved", !.reason = verdict.reason,
            !.attempts = @ + 1, !.loss = verdict.loss,
            !.confidence = verdict.confidence, !.proven = lane = "pay_proven",
            !.provable = provable, !.hash = hash \/ @]

\* The sources the verifier of each kind reads; an exploit pass reads the
\* envelope when it comes to re-filing the claim.
Consulted(trigger) ==
  {"raw", "time", "feed", "prices", "declaration"} \cup
    (CASE trigger = "exploit" ->
            {"prior", "counterparty", "fanout", "program", "cohort", "approvals"}
       [] trigger = "agent_error" -> {"outflows"}
       [] trigger = "governance" -> {"prior", "counterparty", "cohort", "snapshot"})

\* One verification pass.  hash says the evidence bundle could be recorded.
Verify(r, hash) ==
  LET verdict  == Adjudicate(claim.trigger, r, holdings)
      provable == BreachSaid(claim.trigger, verdict, r)
  IN /\ claim.status \in Open
     /\ r.missing \subseteq Consulted(claim.trigger)
     /\ IF Reattributable(verdict) /\ Lacks(r, "declaration")
        THEN Park("mandate_unreadable_during_reattribution", provable)
        ELSE IF Reattributable(verdict) /\ EnvelopeInForce
        THEN Refile(verdict)
        ELSE IF verdict.outcome = "indeterminate"
        THEN Park(verdict.reason, provable)
        ELSE IF verdict.outcome = "rejected"
        THEN Reject(verdict)
        ELSE Confirm(verdict, provable, hash)
     /\ basis' = IF claim'.status \in Open THEN basis ELSE Basis(r, holdings)
     /\ UNCHANGED <<incident, holdings, lag>>

\* executePayout plans once more, from the row alone.
Settle ==
  /\ claim.status = "approved"
  /\ claim' = [claim EXCEPT !.status =
       IF Plannable(claim.trigger, claim.provable, claim.hash)
       THEN "paid" ELSE "review"]
  /\ UNCHANGED <<incident, holdings, lag, basis>>

\* Time passes and the agent's accounts move, whoever controls them.  Only the
\* governance passes read either, so they stand still for any other claim.
Elapse ==
  /\ lag < MaxLag /\ claim.status \in Open /\ claim.trigger = "governance"
  /\ lag' = lag + 1
  /\ holdings' \in IF Frozen(holdings) > 0 THEN {holdings}
                   ELSE {0, holdings, incident.held}
  /\ UNCHANGED <<incident, claim, basis>>

Filed(trigger) ==
  [trigger |-> trigger, status |-> "pending", reason |-> "filed",
   attempts |-> 0, loss |-> 0, confidence |-> 0, proven |-> FALSE,
   provable |-> FALSE, hash |-> FALSE, reattributed |-> FALSE]

ReviewInit ==
  /\ incident \in Incidents
  /\ \E trigger \in Triggers : claim = Filed(trigger)
  /\ holdings = incident.held - (IF incident.failed THEN 0 ELSE incident.lost)
  /\ lag = 0
  /\ basis = Basis(Complete, holdings)

ReviewNext ==
  \/ \E r \in Readings(incident), hash \in BOOLEAN : Verify(r, hash)
  \/ Settle
  \/ Elapse

ReviewSpec == ReviewInit /\ [][ReviewNext]_reviewVars

-----------------------------------------------------------------------------
(* Properties. *)

\* The row holds a trigger, a status and amounts of its kind, at most the
\* coverage is ever set aside, and no verdict is surer than the ceiling.
ReviewTypeOK ==
  /\ incident \in Incident /\ WellFormed(incident)
  /\ claim.trigger \in Triggers
  /\ claim.status \in Open \cup Decided \cup {"unfiled"}
  /\ claim.attempts \in Nat
  /\ claim.loss \in 0..Coverage
  /\ claim.confidence \in 0..CONFIDENCE_CEILING
  /\ {claim.proven, claim.provable, claim.hash, claim.reattributed}
       \subseteq BOOLEAN
  /\ holdings \in Nat
  /\ lag \in 0..MaxLag

\* What the claim's own kind of verdict would be had every source answered
\* and every instruction been read, the agent holding what it held then.
FullVerdict == Adjudicate(claim.trigger, Complete, basis.held)

\* Every instruction was decoded with its authority, and the history of the
\* agent's payments was read.  What the verifiers do without is below.
Legible ==
  basis.reading.garbled = {} /\ ~Lacks(basis.reading, "outflows")

\* "An unreadable fact never denies a claim": a rejection taken from an
\* incomplete but legible reading is one that full evidence would not turn
\* into a payout.
GapsNeverDeny ==
  claim.status = "rejected" /\ Legible => FullVerdict.outcome # "confirmed"

\* Nor does a gap pay: what was confirmed on a legible reading would be
\* confirmed for the same amount on full evidence.
GapsNeverPay ==
  claim.status \in {"approved", "paid"} /\ Legible =>
    FullVerdict.outcome = "confirmed" /\ FullVerdict.loss = claim.loss

\* The surer the reading the surer the verdict: a gap can lower the confidence
\* of what is approved and never raise it, so no lane is reached by reading
\* less.
GapsNeverRaiseConfidence ==
  claim.status \in {"approved", "paid"} /\ Legible =>
    claim.confidence <= FullVerdict.confidence

\* What the whole history says, not what was read of it: value was taken by
\* a hand that is not the agent's and that the agent had not let in.
Intrusion ==
  \E i \in Movements(incident.ixs) \cup ControlChanges(incident.ixs) :
    i.authority # Agent

Seizure ==
  /\ ~(Controllers(incident, incident.ixs)
          \subseteq Family \cup incident.charter.extra)
  /\ \/ \E t \in Takeovers(incident.ixs) : t.authority \notin Family
     \/ OwnershipChanges(incident) # {} /\ incident.signers \cap Family = {}

\* What is approved happened: an exploit by a hand other than the agent's, an
\* error by the agent's own hand alone and beyond its envelope, a seizure of
\* control nobody of the family signed for.
ApprovedAsItHappened ==
  claim.status \in {"approved", "paid"} /\ Legible =>
    /\ ~incident.failed
    /\ claim.trigger = "exploit" => Intrusion /\ NetLoss(incident) >= claim.loss
    /\ claim.trigger = "agent_error" =>
         /\ AgentSigned(incident)
         /\ \A m \in Movements(incident.ixs) : m.authority = Agent
         /\ EnvelopeInForce /\ NetLoss(incident) >= claim.loss
    /\ claim.trigger = "governance" => Seizure

\* Nothing is paid on the strength of a verdict alone: every approved claim
\* is to be proved on the chain, its evidence was recorded, and where the
\* program measures an overshoot the amount is one it will accept.
PaidIsProvable ==
  claim.status \in {"approved", "paid"} =>
    /\ claim.proven /\ claim.hash /\ claim.trigger \in ProofEnabled
    /\ claim.confidence \in REVIEW_CONFIDENCE..CONFIDENCE_CEILING
    /\ claim.loss \in MIN_PAYABLE_LOSS..Coverage
    /\ claim.trigger = "agent_error" =>
         /\ claim.loss >= MIN_PROVABLE_MANDATE_BREACH
         /\ claim.loss <= ExcessRaw(incident)

\* A claim filed under the wrong one of the two kinds is not lost by it: one
\* incident is never both an exploit and an agent error, unless a stranger
\* also changed who controls an account.
KindsAreDisjoint ==
  ForeignControlChanges(incident.ixs) = {} =>
    ~ /\ VerifyExploit(incident, Complete).outcome = "confirmed"
      /\ VerifyAgentError(incident, Complete).outcome = "confirmed"

\* What the same comments say of every reading, legible or not.
NoGapDenies ==
  claim.status = "rejected" => FullVerdict.outcome # "confirmed"
=============================================================================
