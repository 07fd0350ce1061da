---------------------------- MODULE Adjudication ----------------------------
(***************************************************************************)
(* What the verifiers of one claim have in common: the incident as it      *)
(* happened on the chain, the reading of it a verification pass obtains,   *)
(* the analysis of who moved the agent's value, the shape of a verdict,    *)
(* and the lane a confirmed verdict is paid through.                       *)
(*                                                                         *)
(* An incident is one transaction on the agent's accounts.  Amounts are in *)
(* units of the covered mint, which is priced at par or through a feed; a  *)
(* reading is an incident less what the RPC, the indexer, the price feeds  *)
(* and the database did not answer.                                        *)
(***************************************************************************)
EXTENDS Integers, FiniteSets, Sequences, FiniteSetsExt

CONSTANTS
  Agent,              \* the covered wallet
  Holder,             \* the policy holder
  Strangers,          \* every other address
  Nobody,             \* the new authority of an authority that was revoked
  Unread,             \* an authority the RPC did not report
  Programs,           \* programs a transaction may invoke
  KnownPrograms,      \* those classifyPrograms recognises
  Coverage,           \* coverage of the policy
  MIN_PAYABLE_LOSS,   \* MIN_PAYABLE_LOSS_RAW
  MIN_PROVABLE_MANDATE_BREACH,
  MAX_VERIFY_ATTEMPTS

ASSUME PartiesAssumption ==
  /\ Agent # Holder /\ {Agent, Holder} \cap Strangers = {}
  /\ {Nobody, Unread} \cap ({Agent, Holder} \cup Strangers) = {}
  /\ Nobody # Unread
ASSUME AmountsAssumption ==
  /\ Coverage \in Nat \ {0}
  /\ MIN_PAYABLE_LOSS \in Nat \ {0}
  /\ MIN_PROVABLE_MANDATE_BREACH \in Nat
  /\ MAX_VERIFY_ATTEMPTS \in Nat \ {0}

Family  == {Agent, Holder}
Parties == Family \cup Strangers

-----------------------------------------------------------------------------
(* The incident. *)

TransferTypes == {"transfer"}
ControlTypes  == {"setOwner", "setClose", "closeAccount"}
InstructionTypes ==
  TransferTypes \cup ControlTypes
    \cup {"freezeAccount", "approve", "upgrade", "multisig"}

\* One decoded instruction on an account of the agent.  authority signed for
\* it; to is the owner of the destination, the new authority or the delegate;
\* cpi says a program invoked it.
Instruction ==
  [type: InstructionTypes, authority: Parties,
   to: Parties \cup {Nobody}, cpi: BOOLEAN]

\* What the neighbourhood of the transaction shows to whoever looks it up.
Shapes == {"first_seen", "fanout", "upgraded", "cohort", "flash"}

\* What the agent had moved earlier, newest last; age in seconds at the claim.
Payment == [amount: Nat, age: Nat]

\* The declared envelope of the policy.  A zero bound or an empty list is
\* silence.
Mandate ==
  [declared: BOOLEAN, matured: BOOLEAN, cap: Nat, floor: Nat,
   windowCap: Nat, window: Nat,
   counterparties: SUBSET Parties, programs: SUBSET Programs]

\* The declared set of controllers: one per role, and those of no role.
Charter ==
  [declared: BOOLEAN, matured: BOOLEAN, owner: Parties,
   delegate: Parties \cup {Nobody}, close: Parties \cup {Nobody},
   upgrade: Parties \cup {Nobody}, extra: SUBSET Parties,
   controller: Parties \cup {Nobody}]

Incident ==
  [ixs: SUBSET Instruction, signers: SUBSET Parties, failed: BOOLEAN,
   held: Nat, lost: Nat, gained: Nat,
   shape: SUBSET Shapes, programs: SUBSET Programs,
   granted: SUBSET Parties, past: Seq(Payment),
   mandate: Mandate, charter: Charter]

\* A transaction has finitely many instructions, no authority is exercised
\* without its signature, and no more leaves an account than it holds.
WellFormed(incident) ==
  /\ IsFiniteSet(incident.ixs)
  /\ \A i \in incident.ixs :
       i.authority \in incident.signers \/ (i.cpi /\ i.authority \in Strangers)
  /\ incident.lost <= incident.held

-----------------------------------------------------------------------------
(* The reading of it. *)

\* What a pass may fail to obtain altogether.
Sources ==
  {"raw", "time", "feed", "prices", "prior", "counterparty", "fanout",
   "program", "cohort", "approvals", "declaration", "outflows", "snapshot"}

\* What leaves a reading usable and the verdict less certain.
Blemishes == {"par", "clock", "wide"}

\* How a single instruction comes back incomplete: without its authority, or
\* not decoded at all.
Garble == {"authority", "undecoded"}

Lacks(reading, source) == source \in reading.missing

Undecoded(incident, reading) ==
  {i \in incident.ixs : <<i, "undecoded">> \in reading.garbled}

\* The decoded instructions of the raw view.
View(incident, reading) ==
  { [i EXCEPT !.authority =
       IF <<i, "authority">> \in reading.garbled THEN Unread ELSE @] :
      i \in incident.ixs \ Undecoded(incident, reading) }

-----------------------------------------------------------------------------
(* Who moved the agent's value: authorization.ts. *)

Movements(view)      == {i \in view : i.type \in TransferTypes}
ControlChanges(view) == {i \in view : i.type \in ControlTypes}
Approvals(view)      == {i \in view : i.type = "approve"}

AgentSigned(incident) == Agent \in incident.signers

\* Mutated form: what a program moved is not looked at.
ForeignMovementsDirect(view) ==
  {m \in Movements(view) : m.authority \notin {Agent, Unread} /\ ~m.cpi}

ForeignMovements(view) ==
  {m \in Movements(view) : m.authority \notin {Agent, Unread}}

ForeignAuthorities(view) == {m.authority : m \in ForeignMovements(view)}

Destinations(view) ==
  {i.to : i \in Movements(view) \cup ControlChanges(view)} \ {Nobody}

ForeignDestinations(view) == Destinations(view) \ Family

AllDestinationsSelf(view) ==
  Destinations(view) # {} /\ ForeignDestinations(view) = {}

HasUnauthorizedMovement(incident, view) ==
  \/ ForeignMovements(view) # {}
  \/ \E c \in ControlChanges(view) : c.authority \notin {Agent, Unread}
  \/ /\ ~AgentSigned(incident)
     /\ Movements(view) \cup ControlChanges(view) # {}

HasUnresolvedAuthority(view) ==
  \E i \in Movements(view) \cup ControlChanges(view) : i.authority = Unread

\* authority.ts: the token accounts with another owner after the transaction,
\* by new owner.  A closed one is a takeover and has no new owner.
OwnershipChanges(incident) ==
  IF incident.failed THEN {}
  ELSE {i.to : i \in {j \in incident.ixs : j.type = "setOwner"}} \ {Agent}

\* position.ts: the agent owned an account before and does not own it after,
\* because it is another's or because it is gone.
AccountsLost(incident) ==
  \/ OwnershipChanges(incident) # {}
  \/ ~incident.failed /\ \E i \in incident.ixs : i.type = "closeAccount"

\* loss.ts: what was given up less what came back, priced together.
NetLoss(incident) ==
  IF incident.failed THEN 0 ELSE incident.lost - incident.gained

-----------------------------------------------------------------------------
(* Verdicts.  Confidence is in ten-thousandths, a signature's weight in    *)
(* hundredths, as the code rounds them.                                    *)

CONFIDENCE_CEILING  == 9200
AUTO_PAY_CONFIDENCE == 9500
REVIEW_CONFIDENCE   == 7500
REVIEW_SIGNATURE_SCORE == 40

Outcomes == {"confirmed", "rejected", "indeterminate"}

Verdict(outcome, reason, loss, confidence) ==
  [outcome |-> outcome, reason |-> reason, loss |-> loss,
   confidence |-> confidence]
Rejected(reason)      == Verdict("rejected", reason, 0, 0)
Indeterminate(reason) == Verdict("indeterminate", reason, 0, 0)

\* Math.max(0, Math.min(CONFIDENCE_CEILING, confidence)).
Clamp(confidence) ==
  IF confidence \in 0..CONFIDENCE_CEILING THEN confidence
  ELSE IF confidence < 0 THEN 0 ELSE CONFIDENCE_CEILING

AtMost(bound, n) == IF n > bound THEN bound ELSE n

\* Mutated form: a check that could not be run counts for the claim.
HolesPenaltyReversed(holes) == -AtMost(1500, 300 * holes)

\* What the checks that could not be run cost the confidence, and what a
\* reading's blemishes do.  The caps are applied one by one, as the code
\* subtracts them.
HolesPenalty(holes) == AtMost(1500, 300 * holes)

BlemishPenalty(reading) ==
  (IF "wide" \in reading.blemishes THEN 1000 ELSE 0)
    + (IF "par" \in reading.blemishes THEN 300 ELSE 0)
    + (IF "clock" \in reading.blemishes THEN 500 ELSE 0)

\* Mutated form: the loss is paid whole.
CapToCoverageUncapped(loss) == IF loss <= 0 THEN 0 ELSE loss

CapToCoverage(loss) == IF loss <= 0 THEN 0 ELSE AtMost(Coverage, loss)

\* The sum of the weights of the signatures that are present.
Score(weights, present) == MapThenSumSet(LAMBDA s : weights[s], present)

-----------------------------------------------------------------------------
(* The lanes. *)

Triggers == {"exploit", "agent_error", "governance"}

\* A confirmed verdict is paid through a chain proof or handed to a reviewer;
\* above AUTO_PAY_CONFIDENCE it would be paid without one.
DecideLane(confidence, proofAvailable) ==
  IF confidence >= AUTO_PAY_CONFIDENCE THEN "pay_unproven"
  ELSE IF confidence < REVIEW_CONFIDENCE THEN "review"
  ELSE IF ~proofAvailable THEN "review"
  ELSE "pay_proven"
=============================================================================
