----------------------------- MODULE Governance ------------------------------
(***************************************************************************)
(* The settlement proven by authorities: the governance-attack claim.      *)
(*                                                                         *)
(* Nothing in a balance shows that an account was seized or frozen, so the *)
(* program reads who controls it.  PolicyAuthorityCheckpoint keeps the     *)
(* last reading and the one before the last change of control, and         *)
(* GovernanceBaseline the set of authorities the holder declared and the   *)
(* set it replaced.  A payout needs a departure: control inside the        *)
(* declared set at a reading before the filing, outside it now.            *)
(*                                                                         *)
(* The module extends Vault as Settlement does; the other claim kinds are  *)
(* filed and expire here, and are settled elsewhere.  Not modelled: the    *)
(* roles a baseline refuses (upgrade authority, controller), the manifest  *)
(* hash, and delegated amounts, which nothing compares.                    *)
(***************************************************************************)
EXTENDS Vault

CONSTANTS
  Agents,                      \* wallets whose USDC account may be covered
  Holder,                      \* the policyholder's key
  Outsiders,                   \* every other key
  GOVERNANCE_ATTACK,           \* the claim kind
  GOVERNANCE_BASELINE_DELAY, MAX_AUTHORITY_CHECKPOINT_AGE,
  GOVERNANCE_DRAIN_WINDOW, MIN_PROVABLE_GOVERNANCE_LOSS,
  Amounts,                     \* what a covered account may hold
  Openings,                    \* whom its roles may be given to at the outset
  Manifests,                   \* the authority sets a holder may declare
  MaxChanges                   \* bound: changes of control of one account

NoKey == "none"
Keys == Agents \cup {Holder} \cup Outsiders
Optional == Keys \cup {NoKey}

\* What a manifest names: one key per role, and keys for any role.
Manifest == [owner: Keys, delegate: Optional, close_authority: Optional,
             extras: SUBSET Keys]

ASSUME GovernanceAssumption ==
  /\ NoKey \notin Keys
  /\ GOVERNANCE_BASELINE_DELAY \in Nat
  /\ MAX_AUTHORITY_CHECKPOINT_AGE \in Nat /\ GOVERNANCE_DRAIN_WINDOW \in Nat
  /\ MIN_PROVABLE_GOVERNANCE_LOSS \in Nat
  /\ Amounts \subseteq Nat
  /\ Openings \subseteq Optional
  /\ Manifests \subseteq Manifest
  /\ MaxChanges \in Nat

VARIABLES
  account,                     \* account[a]: the covered token account of a
  agent,                       \* agent[p]: policy.agent_address
  authority,                   \* authority[p]: PolicyAuthorityCheckpoint
  baseline,                    \* baseline[p]: GovernanceBaseline
  arrived,                     \* arrived[a]: when each role last changed hands
  past                         \* past[p]: what happened, for the properties

governanceVars == <<account, agent, authority, baseline, arrived, past>>
govVars == <<vars, governanceVars>>

NoAgent == "none"

Control == [owner: Keys, delegate: Optional, close_authority: Optional,
            frozen: BOOLEAN]
TokenAccount == [control: Control, amount: Nat]
Arrivals == [owner: Nat, delegate: Nat, close_authority: Nat, frozen: Nat]

\* AuthorityReading; the absent predecessor is a reading at time 0.
NoControl == [owner |-> NoKey, delegate |-> NoKey, close_authority |-> NoKey,
              frozen |-> FALSE]
NoReading == [control |-> NoControl, amount |-> 0, time |-> 0]
Reading == [control: Control, amount: Nat, time: Nat] \cup {NoReading}

AuthorityCheckpoint == [current: Reading, prev: Reading]
NoCheckpoint == [current |-> NoReading, prev |-> NoReading]

\* BaselineView; nothing declared is effective at 0.
View == [manifest: Manifest, effective_at: Nat]
NoManifest == [owner |-> NoKey, delegate |-> NoKey, close_authority |-> NoKey,
               extras |-> {}]
NoView == [manifest |-> NoManifest, effective_at |-> 0]
GovernanceBaseline == [current: View \cup {NoView}, prev: View \cup {NoView}]
NoBaseline == [current |-> NoView, prev |-> NoView]

\* Auxiliary: the most the account held between the purchase and the end of
\* the second of the filing, how often control changed, and, of its first
\* change, when it was and the last reading before it.
Past == [peak: Nat, changes: Nat, changed_at: Nat, reading: Reading]
NoPast == [peak |-> 0, changes |-> 0, changed_at |-> 0, reading |-> NoReading]

\* Bound: an account starts with its agent as owner, as the purchase demands,
\* not frozen, and its other roles in Openings.
GovernanceInit ==
  /\ Init
  /\ account \in [Agents -> [control: Control, amount: Amounts]]
  /\ \A a \in Agents :
       LET c == account[a].control
       IN /\ c.owner = a /\ ~c.frozen
          /\ c.delegate \in Openings /\ c.close_authority \in Openings
  /\ agent = [p \in Policies |-> NoAgent]
  /\ authority = [p \in Policies |-> NoCheckpoint]
  /\ baseline = [p \in Policies |-> NoBaseline]
  /\ arrived = [a \in Agents |->
       [owner |-> 0, delegate |-> 0, close_authority |-> 0, frozen |-> 0]]
  /\ past = [p \in Policies |-> NoPast]

Observed(p) == account[agent[p]]

\* observe
Observe(acct) == [control |-> acct.control, amount |-> acct.amount, time |-> now]

-----------------------------------------------------------------------------
(* The authority checkpoint. *)

\* PolicyAuthorityCheckpoint::record keeps as predecessor the reading before
\* the last change of control.  Slip: the reading before, whatever it showed.
PredecessorRolling(c, seen) == c.current

Predecessor(c, seen) ==
  IF c.current.control # seen.control THEN c.current ELSE c.prev

\* checkpoint_authority: anyone may call it, for a policy that is still open.
CheckpointAuthority(p) ==
  LET seen == Observe(Observed(p))
  IN /\ Live(p)
     /\ authority' = [authority EXCEPT ![p] =
          [current |-> seen, prev |-> Predecessor(authority[p], seen)]]
     /\ UNCHANGED <<vars, account, agent, baseline, arrived, past>>

-----------------------------------------------------------------------------
(* The declared set. *)

\* BaselineView::permits_role, with the family folded in as its callers do.
Permits(m, p, key, role) == key \in {Holder, agent[p], m[role]} \cup m.extras

\* BaselineView::covers
Covers(m, p, c) ==
  /\ ~c.frozen
  /\ Permits(m, p, c.owner, "owner")
  /\ c.delegate # NoKey => Permits(m, p, c.delegate, "delegate")
  /\ c.close_authority # NoKey =>
       Permits(m, p, c.close_authority, "close_authority")

\* declare_governance_baseline: what is declared must be true of the account
\* now, matures on a delay, and retains what it replaces.
Maturity == now + GOVERNANCE_BASELINE_DELAY

DeclareGovernanceBaseline(p, m) ==
  /\ policy[p].state = Active
  /\ Covers(m, p, Observed(p).control)
  /\ baseline' = [baseline EXCEPT ![p] =
       [current |-> [manifest |-> m, effective_at |-> Maturity],
        prev |-> baseline[p].current]]
  /\ UNCHANGED <<vars, account, agent, authority, arrived, past>>

\* GovernanceBaseline::view_at
ViewAt(b, at) ==
  IF b.current.effective_at \in 1..at THEN b.current
  ELSE IF b.prev.effective_at \in 1..at THEN b.prev
  ELSE NoView

-----------------------------------------------------------------------------
(* verify_and_payout_governance. *)

\* select_before: the latest reading, no later than the filing, in which
\* control sat inside the declared set.  Slip: whenever it was taken.
InsideAtAnyTime(p, m, reading) ==
  reading # NoReading /\ Covers(m, p, reading.control)

Inside(p, m, reading) ==
  /\ reading.time \in 1..policy[p].claim_submitted_at
  /\ Covers(m, p, reading.control)

SelectBefore(p, m) ==
  LET c == authority[p]
  IN IF Inside(p, m, c.current) THEN c.current
     ELSE IF Inside(p, m, c.prev) THEN c.prev
     ELSE NoReading

\* classify_departure: how control left the set, the most complete way first.
DepartureKind(p, m, before, c) ==
  IF ~Permits(m, p, c.owner, "owner") THEN "owner"
  ELSE IF c.frozen /\ ~before.control.frozen THEN "frozen"
  ELSE IF c.close_authority # NoKey
            /\ ~Permits(m, p, c.close_authority, "close_authority")
       THEN "close_authority"
  ELSE IF c.delegate # NoKey /\ ~Permits(m, p, c.delegate, "delegate")
       THEN "delegate"
  ELSE "none"

\* What the departure took: what left, or what the agent no longer reaches.
ProvableLoss(kind, before, held) ==
  LET seized == IF kind \in {"owner", "frozen"} THEN held ELSE 0
  IN Greater(Minus(before.amount, held), seized)

\* The declaration a claim is judged by, the reading before, and the kind.
Declared(p) == ViewAt(baseline[p], policy[p].claim_submitted_at)
Before(p) == SelectBefore(p, Declared(p).manifest)
Departure(p) ==
  DepartureKind(p, Declared(p).manifest, Before(p), Observed(p).control)

\* The declaration was usable when the permitted reading was taken.  Slip: it
\* is enough that it was when the claim was filed.
DeclaredBeforehandByFiling(p) == TRUE

DeclaredBeforehand(p) == Declared(p).effective_at <= Before(p).time

\* There is a declaration to judge by and a permitted reading of the cover.
TakeoverMeasurable(p) ==
  LET claim_at == policy[p].claim_submitted_at
      before   == Before(p)
  IN /\ policy[p].trigger_type = GOVERNANCE_ATTACK
     /\ Declared(p) # NoView
     /\ before # NoReading
     /\ before.time >= policy[p].start_time
     /\ claim_at - before.time <= MAX_AUTHORITY_CHECKPOINT_AGE
     /\ claim_at - before.time <= GOVERNANCE_DRAIN_WINDOW
     /\ DeclaredBeforehand(p)

\* Control left the declared set, and no more than was lost by it is paid.
PayGovernance(p, amount) ==
  LET loss == ProvableLoss(Departure(p), Before(p), Observed(p).amount)
  IN /\ TakeoverMeasurable(p)
     /\ Departure(p) # "none"
     /\ loss >= MIN_PROVABLE_GOVERNANCE_LOSS
     /\ amount <= loss
     /\ PayClaim(p, amount)
     /\ UNCHANGED governanceVars

\* create_policy takes the first reading, without a predecessor.
\* Slip: the first reading is left to the first crank.
FirstReadingUnset(a) == NoCheckpoint

FirstReading(a) == [current |-> Observe(account[a]), prev |-> NoReading]

CreateGoverned(a, tier, coverage, duration, flat) ==
  LET p == policy_counter
  IN /\ account[a].control.owner = a
     /\ CreatePolicy(tier, coverage, duration, flat)
     /\ agent' = [agent EXCEPT ![p] = a]
     /\ authority' = [authority EXCEPT ![p] = FirstReading(a)]
     /\ past' = [past EXCEPT ![p] = [NoPast EXCEPT !.peak = account[a].amount]]
     /\ UNCHANGED <<account, baseline, arrived>>

-----------------------------------------------------------------------------
(* What others do to the covered account: SPL Token's transfers, SetAuthority,
   Approve and Revoke, and its mint's FreezeAccount and ThawAccount. *)
Witnessed(p, acct) ==
  LET h       == past[p]
      early   == policy[p].state = Active \/ now <= policy[p].claim_submitted_at
      changed == acct.control # Observed(p).control
      first   == changed /\ h.changes = 0
  IN [peak |-> IF early THEN Greater(h.peak, acct.amount) ELSE h.peak,
      changes |-> IF changed THEN h.changes + 1 ELSE h.changes,
      changed_at |-> IF first THEN now ELSE h.changed_at,
      reading |-> IF first THEN authority[p].current ELSE h.reading]

\* The new key of a role has held it since now.
Arrival(a, c) ==
  LET old == account[a].control
  IN [owner |-> IF c.owner # old.owner THEN now ELSE arrived[a].owner,
      delegate |-> IF c.delegate # old.delegate THEN now ELSE arrived[a].delegate,
      close_authority |-> IF c.close_authority # old.close_authority
                            THEN now ELSE arrived[a].close_authority,
      frozen |-> IF c.frozen # old.frozen THEN now ELSE arrived[a].frozen]

\* Bound: an account moves while a policy covers it, and its control changes
\* MaxChanges times at most.
Becomes(a, acct) ==
  /\ acct # account[a]
  /\ \E p \in Policies : Live(p) /\ agent[p] = a
  /\ acct.control # account[a].control =>
       \A p \in Policies : Live(p) /\ agent[p] = a => past[p].changes < MaxChanges
  /\ account' = [account EXCEPT ![a] = acct]
  /\ arrived' = [arrived EXCEPT ![a] = Arrival(a, acct.control)]
  /\ past' = [p \in Policies |->
       IF Live(p) /\ agent[p] = a THEN Witnessed(p, acct) ELSE past[p]]
  /\ UNCHANGED <<vars, agent, authority, baseline>>

Controlled(a, c) == [control |-> c, amount |-> account[a].amount]

\* A change of owner revokes the delegate.
HandOver(a, key) ==
  LET c == account[a].control
  IN /\ ~c.frozen
     /\ key # c.owner
     /\ Becomes(a, Controlled(a,
          [owner |-> key, delegate |-> NoKey,
           close_authority |-> c.close_authority, frozen |-> FALSE]))

Delegate(a, key) ==
  /\ ~account[a].control.frozen
  /\ Becomes(a, Controlled(a, [account[a].control EXCEPT !.delegate = key]))

SetCloseAuthority(a, key) ==
  /\ ~account[a].control.frozen
  /\ Becomes(a, Controlled(a,
       [account[a].control EXCEPT !.close_authority = key]))

Freeze(a, frozen) ==
  Becomes(a, Controlled(a, [account[a].control EXCEPT !.frozen = frozen]))

Transfer(a, amount) ==
  /\ ~account[a].control.frozen
  /\ Becomes(a, [control |-> account[a].control, amount |-> amount])

AccountStep(a) ==
  \/ \E key \in Keys : HandOver(a, key)
  \/ \E key \in Optional : Delegate(a, key) \/ SetCloseAuthority(a, key)
  \/ \E frozen \in BOOLEAN : Freeze(a, frozen)
  \/ \E amount \in Amounts : Transfer(a, amount)

\* Instructions that neither read nor write authorities.
UngovernedStep ==
  /\ \/ Tick
     \/ \E s \in Stakers : StakerStep(s)
     \/ \E p \in Policies :
          \/ CancelPolicy(p)
          \/ ExpirePolicy(p)
          \/ \E t \in Triggers : SubmitClaim(p, t) \/ OracleSubmitClaim(p, t)
     \/ \E b \in BOOLEAN, m \in Multipliers : UpdateConfig(b, m)
  /\ UNCHANGED governanceVars

GovernanceStep(p) ==
  \/ CheckpointAuthority(p)
  \/ \E m \in Manifests : DeclareGovernanceBaseline(p, m)
  \/ \E amount \in Payouts : PayGovernance(p, amount)

GovernanceNext ==
  \/ UngovernedStep
  \/ \E p \in Policies : GovernanceStep(p)
  \/ \E a \in Agents : AccountStep(a)
  \/ \E a \in Agents, tier \in Tiers, c \in Coverages, d \in Durations,
        f \in FlatPremiums : CreateGoverned(a, tier, c, d, f)

GovernanceSpec == GovernanceInit /\ [][GovernanceNext]_govVars

-----------------------------------------------------------------------------
(***************************************************************************)
(* Properties.                                                             *)
(***************************************************************************)
\* Readings lie in the cover and in order, and a predecessor shows another
\* control than the reading that displaced it.
GovernanceTypeOK ==
  /\ account \in [Agents -> TokenAccount]
  /\ agent \in [Policies -> Agents \cup {NoAgent}]
  /\ authority \in [Policies -> AuthorityCheckpoint]
  /\ baseline \in [Policies -> GovernanceBaseline]
  /\ arrived \in [Agents -> Arrivals]
  /\ past \in [Policies -> Past]
  /\ \A p \in Policies : policy[p].state # Unopened =>
       LET c == authority[p]
       IN /\ agent[p] \in Agents
          /\ c.current.time \in policy[p].start_time..now
          /\ c.prev # NoReading =>
               c.prev.time \in policy[p].start_time..c.current.time

PaidGovernance(p) ==
  /\ policy[p].state # Paid /\ policy'[p].state = Paid
  /\ policy[p].trigger_type = GOVERNANCE_ATTACK

\* The key that is paid for took its role after the declaration it departs
\* from had matured, and during the cover: no order of declaring, handing
\* over, reading and filing turns an arrangement that was there before the
\* holder's consent into a departure (verify_and_payout_governance.rs 39-51).
DepartureFollowsConsent ==
  [][ \A p \in Policies : PaidGovernance(p) =>
        arrived[agent[p]][Departure(p)] >=
          Greater(Declared(p).effective_at, policy[p].start_time) ]_govVars

\* A payout is no more than the account lost from a balance it held between
\* the purchase and the second of the filing, or than what it still holds
\* out of the agent's reach.
PayoutWithinReach ==
  [][ \A p \in Policies : PaidGovernance(p) =>
        policy'[p].payout_amount <=
          ProvableLoss(Departure(p), [amount |-> past[p].peak],
                       Observed(p).amount) ]_govVars

\* Control left the declared set once, before the claim was filed, and stayed
\* as it then was.
LoneTakeover(p) ==
  /\ policy[p].state = Pending
  /\ past[p].changes = 1
  /\ past[p].changed_at <= policy[p].claim_submitted_at
  /\ Declared(p) # NoView
  /\ Covers(Declared(p).manifest, p, past[p].reading.control)
  /\ ~Covers(Declared(p).manifest, p, Observed(p).control)

\* A lone takeover stays provable from the last reading before it, however
\* many readings of the aftermath follow, before and after the filing
\* (authority_checkpoint.rs 21-31).
LoneTakeoverProvable ==
  \A p \in Policies : LoneTakeover(p) => Before(p) = past[p].reading
=============================================================================
