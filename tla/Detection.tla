----------------------------- MODULE Detection -----------------------------
(***************************************************************************)
(* How a claim comes to be: the two detectors that watch an insured agent, *)
(* and the keeper's ingestion of what they raise.                          *)
(*                                                                         *)
(* The webhook (transaction-monitor.ts) is pushed a transaction, once or   *)
(* never, in a payload that shows amounts and no authorities.  The sweep   *)
(* (exploit-watcher.ts) lists the wallet's history every tick, screens     *)
(* what no row of monitoring_events names yet, and compares the balances   *)
(* with the last snapshot.  Both write a row and then publish an alert,    *)
(* which reaches a keeper that is listening or nobody.                     *)
(*                                                                         *)
(* ClaimReview decides the claims this module opens.  A claim the holder   *)
(* files itself is decided there as well, and is out of the watchers'      *)
(* sight: its story is empty.                                              *)
(***************************************************************************)
EXTENDS ClaimReview

CONSTANTS
  Stories,                  \* the transactions that befall an agent, in order
  Sightings,                \* the readings a pass obtains of what was detected
  Lookback,                 \* LOOKBACK_SEC, in ticks
  MaxFaults,                \* bound on the calls that fail
  SCREEN_MIN,               \* SCREEN_MIN_UI
  SCREEN_MIN_VALUE,         \* SCREEN_MIN_VALUE_UI
  OUTFLOW_RATIO_THRESHOLD,
  MAX_SUPERSEDES

\* What a transaction leaves the agent with.
Left(t) == t.held - (IF t.failed THEN 0 ELSE t.lost)

\* "Comfortably wider than the interval": the sweep looks back further than one
\* tick (900 seconds against 120 by default, though env.ts admits 1800).  And
\* nothing reaches the agent between the transactions.
ASSUME DetectionAssumption ==
  /\ Stories \subseteq Seq([tx: Incident, named: BOOLEAN]) \ {<<>>}
  /\ \A s \in Stories : \A n \in DOMAIN s :
       /\ WellFormed(s[n].tx)
       /\ n > 1 => s[n].tx.held = Left(s[n - 1].tx)
  /\ Lookback \in Nat \ {0, 1}
  /\ {MaxFaults, SCREEN_MIN, SCREEN_MIN_VALUE, OUTFLOW_RATIO_THRESHOLD,
      MAX_SUPERSEDES} \subseteq Nat

VARIABLES
  story,       \* the transactions, with whether each names the wallet
  age,         \* ticks since each of those that have happened
  delivered,   \* those the webhook has brought
  events,      \* monitoring_events: the transaction, or 0, and the kind
  alerts,      \* published and not yet ingested
  snapshot,    \* the newest balance on record, 0 for none
  tick,        \* the sweep under way
  superseded,  \* how often the row was re-pointed
  faults       \* calls that failed so far

chainVars     == <<story, age, holdings, lag>>
rowVars       == <<incident, claim, superseded, basis>>
raisedVars    == <<events, alerts>>
detectionVars == <<story, age, delivered, events, alerts, snapshot, tick,
                   superseded, faults, reviewVars>>

Tx(n) == story[n].tx

\* The policy is Active in the mirror until its claim is on the chain.
Insured == story # <<>> /\ claim.loss = 0

Fault(n) == faults + n <= MaxFaults /\ faults' = faults + n

-----------------------------------------------------------------------------
(* The screens.  Amounts are in the covered mint, which is registered.     *)

\* screenMagnitude: a quarter of a known balance, or a valued outflow nothing
\* came back for.
Sizeable(t, before) ==
  /\ ~t.failed /\ t.lost > 0
  /\ \/ before > 0 /\ 4 * t.lost >= before
     \/ t.gained = 0 /\ t.lost >= SCREEN_MIN

GovernanceShape(t) ==
  /\ ~t.failed
  /\ \/ ~(OwnershipChanges(t) \subseteq Family)
     \/ \E k \in Takeovers(t.ixs) : NewAuthority(k) \notin Family
     \/ Takeovers(t.ixs) # {} /\ t.signers \cap Family = {}
     \/ OpaqueControl(t.ixs) # {}

\* The raw view tells whose hand it was, and the balance before.
ExploitShape(t) ==
  \/ HasUnauthorizedMovement(t, t.ixs)
  \/ ControlChanges(t.ixs) # {}
  \/ ~AllDestinationsSelf(t.ixs) /\ Sizeable(t, t.held)

\* The dimensions of the envelope in force that the sweep can measure.
EnvelopeExceeded(t) ==
  /\ ~t.failed /\ t.mandate.declared /\ t.mandate.matured
  /\ \E d \in ChainCheckable : Excess(d, t) > 0

\* The payload shows no balance after the transaction and so no floor, but
\* the monitor reads what the agent moved before.
EnvelopeExceededInPayload(t, history_read) ==
  /\ ~t.failed /\ t.lost > 0 /\ t.mandate.declared
  /\ \/ t.mandate.matured /\ Excess("single_outflow", t) > 0
     \/ /\ history_read /\ Rows(t) # {} /\ ~StaleHistory(t)
        /\ t.mandate.windowCap > 0
        /\ WindowOutflow(t) > t.mandate.windowCap

FarAboveHistory(t, history_read) ==
  /\ ~t.failed /\ t.lost > 0 /\ t.mandate.declared
  /\ history_read /\ Rows(t) # {} /\ ~StaleHistory(t)
  /\ Percentile(t, 95) > 0
  /\ t.lost >= OUTFLOW_RATIO_THRESHOLD * Percentile(t, 95)

Valuable(t, least) == ~t.failed /\ t.lost >= least

\* event-vocabulary.ts: the kinds that open a claim, and under which trigger.
TriggerFor ==
  [governance_attack |-> "governance", exploit |-> "exploit",
   agent_error |-> "agent_error"]
Opens(kind) == kind \in DOMAIN TriggerFor

\* What the sweep raises of a transaction it has read, governance first.
SweepKind(t, mandate_read) ==
  CASE GovernanceShape(t) -> "governance_attack"
    [] ~GovernanceShape(t) /\ ExploitShape(t) -> "exploit"
    [] ~GovernanceShape(t) /\ ~ExploitShape(t)
         /\ mandate_read /\ EnvelopeExceeded(t) -> "agent_error"
    [] ~GovernanceShape(t) /\ ~ExploitShape(t)
         /\ ~(mandate_read /\ EnvelopeExceeded(t))
         /\ Valuable(t, SCREEN_MIN_VALUE) -> "large_transfer"
    [] OTHER -> "none"

\* What the webhook raises of a payload, the most specific first, "none" where
\* there is nothing to raise.
Anomalies(t, mandate_read, history_read, before) ==
  LET exceeded == mandate_read /\ EnvelopeExceededInPayload(t, history_read)
      critical == ~mandate_read /\ Valuable(t, 10 * SCREEN_MIN_VALUE)
      outflow  ==
        IF exceeded \/ critical THEN "agent_error"
        ELSE IF \/ mandate_read /\ FarAboveHistory(t, history_read)
                \/ Valuable(t, SCREEN_MIN_VALUE)
        THEN "large_transfer" ELSE "none"
      control  == IF ControlChanges(t.ixs) # {} \/ Sizeable(t, before)
                  THEN "exploit" ELSE "none"
      failed   == IF t.failed THEN "failed_tx" ELSE "none"
  IN <<control, outflow, failed>>

-----------------------------------------------------------------------------
(* Rows and alerts. *)

\* alreadySeen asks for a row of any kind.
AlreadySeen(n) == \E e \in events : e[1] = n

\* The keeper drops an alert that opens nothing the moment it arrives.
Published(n, kind) == IF Opens(kind) THEN << <<n, kind>> >> ELSE <<>>

\* raise: the row, then the alert, which a deaf keeper loses.
Raise(n, kind, failed) ==
  /\ events' = events \cup {<<n, kind>>}
  /\ \/ Fault(failed) /\ alerts' = alerts \o Published(n, kind)
     \/ Opens(kind) /\ Fault(failed + 1) /\ alerts' = alerts

\* processTransaction: one payload on the agent, which may be pushed again.
\* What it needs beside the payload may be unreadable, and it may stop at any
\* anomaly: rows is the last one that got its row, sent the last one published.
Deliver(n) ==
  /\ Insured /\ n \in DOMAIN age
  /\ story[n].named /\ Movements(Tx(n).ixs) # {}
  /\ delivered' = delivered \cup {n}
  /\ \E unread \in {u \in SUBSET {"mandate", "history", "balances"} :
                       faults + Cardinality(u) <= MaxFaults} :
       LET kinds   == Anomalies(Tx(n), "mandate" \notin unread,
                        {"mandate", "history"} \cap unread = {},
                        IF "balances" \in unread THEN 0 ELSE snapshot)
           found   == {k \in 1..3 : kinds[k] # "none"}
       IN \E rows \in found \cup {0} : \E sent \in {k \in found \cup {0} : k <= rows} :
            LET Sent(k) == IF k <= sent THEN Published(n, kinds[k]) ELSE <<>>
            IN /\ Fault(Cardinality(unread) + Cardinality({k \in found : k > sent})
                          + Cardinality(delivered \cap {n}))
               /\ events' = events \cup {<<n, kinds[k]>> : k \in found \cap 1..rows}
               /\ alerts' = alerts \o Sent(1) \o Sent(2) \o Sent(3)
  /\ UNCHANGED <<chainVars, rowVars, snapshot, tick>>

-----------------------------------------------------------------------------
(* The sweep: one tick at a time. *)

Idle == [pc |-> "idle", base |-> 0, drop |-> 0, todo |-> {}]

\* The newest first.
IsNext(n) == n \in tick.todo /\ \A m \in tick.todo : m <= n

\* Mutated form: a tick looks back no further than the tick before it.
FreshSinceLastTick(n) == age[n] < 1 /\ ~Tx(n).failed

\* Not before the cutoff, and landed.
Fresh(n) == age[n] < Lookback /\ ~Tx(n).failed

EndTick ==
  /\ tick' = Idle
  /\ age' = [n \in DOMAIN age |-> AtMost(Lookback, age[n] + 1)]

\* The baseline is loaded, then the wallet's history is listed.
StartTick ==
  /\ Insured /\ tick.pc = "idle"
  /\ \E n \in DOMAIN age : age[n] < Lookback
  /\ \E base \in {0, snapshot}, listed \in BOOLEAN :
       /\ Fault((IF base = snapshot THEN 0 ELSE 1) + (IF listed THEN 0 ELSE 1))
       /\ tick' = [pc |-> "sweep", base |-> base, drop |-> 0,
            todo |-> IF listed THEN {n \in DOMAIN age : story[n].named /\ Fresh(n)}
                     ELSE {}]
  /\ UNCHANGED <<chainVars, rowVars, raisedVars, delivered, snapshot>>

Advance(n) == tick' = [tick EXCEPT !.todo = @ \ {n}]

\* sweepTransactions: the next one of the listing.
Examine ==
  /\ tick.pc = "sweep"
  /\ \E n \in DOMAIN age :
       /\ IsNext(n) /\ Advance(n)
       /\ \/ AlreadySeen(n) /\ UNCHANGED <<raisedVars, faults>>
          \/ ~AlreadySeen(n) /\ Fault(1) /\ UNCHANGED raisedVars
          \/ /\ ~AlreadySeen(n)
             /\ \E mandate_read \in BOOLEAN :
                  LET kind   == SweepKind(Tx(n), mandate_read)
                      failed == IF mandate_read THEN 0 ELSE 1
                  IN IF kind = "none" THEN Fault(failed) /\ UNCHANGED raisedVars
                     ELSE Raise(n, kind, failed)
  /\ UNCHANGED <<chainVars, rowVars, delivered, snapshot>>

\* The row is written and the alert cannot be published: nothing catches that,
\* and the tick ends there.  attributeDrop ends its tick by raising anyhow.
PublishThrows ==
  /\ tick.pc = "sweep"
  /\ \E n \in DOMAIN age, mandate_read \in BOOLEAN :
       LET kind == SweepKind(Tx(n), mandate_read)
       IN /\ IsNext(n) /\ ~AlreadySeen(n) /\ kind # "none"
          /\ Fault(IF mandate_read THEN 1 ELSE 2)
          /\ events' = events \cup {<<n, kind>>}
  /\ EndTick
  /\ UNCHANGED <<story, holdings, lag, rowVars, alerts, delivered, snapshot>>

\* Mutated form: the tick that measures a drop is not the one that looks.
AttributableMaterial(base, drop) == base > 0 /\ drop > 0 /\ 2 * drop > base

Attributable(base, drop) == base > 0 /\ drop > 0 /\ 4 * drop >= base

\* The token account is in the transaction by construction, and is the
\* agent's unless it was taken or closed.
Searchable(n) ==
  Fresh(n) /\ \A i \in Tx(n).ixs : i.type \notin {"setOwner", "closeAccount"}

\* checkpointAndDiff: the snapshot is written whatever the comparison says.
Measure ==
  /\ tick.pc = "sweep" /\ tick.todo = {}
  /\ \/ /\ Fault(1) /\ EndTick /\ UNCHANGED snapshot
     \/ /\ \/ UNCHANGED faults /\ snapshot' = holdings
           \/ Fault(1) /\ UNCHANGED snapshot
        /\ LET drop == IF holdings < tick.base THEN tick.base - holdings ELSE 0
           IN IF Attributable(tick.base, drop)
              THEN /\ tick' = [tick EXCEPT !.pc = "search", !.drop = drop,
                                           !.todo = {n \in DOMAIN age : Searchable(n)}]
                   /\ UNCHANGED age
              ELSE EndTick
  /\ UNCHANGED <<story, holdings, lag, rowVars, raisedVars, delivered>>

\* attributeDrop: the first transaction of the token account that the exploit
\* screen flags; none is found where a lookup fails.
Search ==
  /\ tick.pc = "search"
  /\ \E n \in DOMAIN age :
       /\ IsNext(n)
       /\ \/ ~AlreadySeen(n) /\ ExploitShape(Tx(n)) /\ Raise(n, "exploit", 0) /\ EndTick
          \/ /\ AlreadySeen(n) \/ ~ExploitShape(Tx(n))
             /\ UNCHANGED <<raisedVars, faults, age>> /\ Advance(n)
          \/ Fault(1) /\ UNCHANGED <<raisedVars, age>> /\ Advance(n)
  /\ UNCHANGED <<story, holdings, lag, rowVars, delivered, snapshot>>

\* Nothing found: half a balance gone goes to a human.
Escalate ==
  /\ tick.pc = "search" /\ tick.todo = {}
  /\ events' = events \cup
       (IF 2 * tick.drop >= tick.base
        THEN {<<0, "balance_drop_unexplained">>} ELSE {})
  /\ EndTick
  /\ UNCHANGED <<story, holdings, lag, rowVars, alerts, delivered, snapshot, faults>>

\* The worker dies or a query throws; the next tick starts anew.
Abort ==
  /\ tick.pc # "idle" /\ Fault(1) /\ EndTick
  /\ UNCHANGED <<story, holdings, lag, rowVars, raisedVars, delivered, snapshot>>

-----------------------------------------------------------------------------
(* ingestAlert and supersedeParkedClaim. *)

Specificity == [governance |-> 5, exploit |-> 4, agent_error |-> 2]
Parked      == {"indeterminate", "review"}

UNRESOLVABLE_PARK_REASONS ==
  {"no_governance_baseline", "no_mandate_declared",
   "governance_baseline_not_matured", "mandate_not_matured",
   "proof_path_unavailable"}
TRANSIENT_PARK_REASONS == {"proof_path_unavailable"}

GivesWay(trigger, n) ==
  /\ claim.status \in Parked
  /\ \/ Specificity[trigger] > Specificity[claim.trigger]
     \/ /\ Specificity[trigger] < Specificity[claim.trigger]
        /\ claim.reason \in UNRESOLVABLE_PARK_REASONS
     \/ /\ Specificity[trigger] = Specificity[claim.trigger]
        /\ claim.reason \in TRANSIENT_PARK_REASONS /\ incident # Tx(n)

File(trigger, n) ==
  /\ claim' = Filed(trigger) /\ incident' = Tx(n) /\ superseded' = 0

Repoint(trigger, n) ==
  /\ claim' = [Filed(trigger) EXCEPT !.attempts = claim.attempts]
  /\ incident' = Tx(n) /\ superseded' = superseded + 1

CapReached ==
  /\ claim' = [claim EXCEPT !.status = "review", !.reason = "supersede_cap_reached"]
  /\ UNCHANGED <<incident, superseded>>

\* An alert that finds no slot is dropped.
Ingest ==
  /\ alerts # <<>> /\ alerts' = Tail(alerts)
  /\ LET n       == Head(alerts)[1]
         trigger == TriggerFor[Head(alerts)[2]]
         free    == claim.status \in {"unfiled", "rejected"}
     IN IF Insured /\ free THEN File(trigger, n)
        ELSE IF Insured /\ GivesWay(trigger, n)
        THEN IF superseded < MAX_SUPERSEDES THEN Repoint(trigger, n) ELSE CapReached
        ELSE UNCHANGED <<incident, claim, superseded>>
  /\ UNCHANGED <<chainVars, basis, events, delivered, snapshot, tick, faults>>

-----------------------------------------------------------------------------
\* The next transaction befalls the agent.
Happen ==
  /\ Len(age) \in 1..(Len(story) - 1)
  /\ age' = Append(age, 0)
  /\ LET t == Tx(Len(age) + 1)
     IN holdings' = IF t.failed THEN holdings ELSE Left(t)
  /\ UNCHANGED <<story, lag, rowVars, raisedVars, delivered, snapshot, tick, faults>>

Review ==
  /\ \/ \E r \in IF story = <<>> THEN Readings(incident) ELSE Sightings,
           hash \in BOOLEAN : Verify(r, hash)
     \/ Settle
     \/ Elapse
  /\ UNCHANGED <<story, age, delivered, raisedVars, snapshot, tick, superseded, faults>>

\* Before anything is raised: the first transaction has just landed, and the
\* tick before it has left a snapshot.
Watched ==
  /\ story \in Stories
  /\ incident = Tx(1) /\ age = <<0>>
  /\ claim = [Filed("exploit") EXCEPT !.status = "unfiled"]
  /\ holdings = Left(incident)
  /\ lag = 0 /\ basis = Basis(Complete, holdings)
  /\ snapshot = incident.held

FiledByHolder == ReviewInit /\ story = <<>> /\ age = <<>> /\ snapshot = 0

DetectionInit ==
  /\ Watched \/ FiledByHolder
  /\ delivered = {} /\ events = {} /\ alerts = <<>> /\ tick = Idle
  /\ superseded = 0 /\ faults = 0

DetectionNext ==
  \/ Review
  \/ Happen
  \/ \E n \in DOMAIN age : Deliver(n)
  \/ StartTick \/ Examine \/ PublishThrows \/ Measure \/ Search \/ Escalate
  \/ Abort
  \/ Ingest

DetectionSpec == DetectionInit /\ [][DetectionNext]_detectionVars

-----------------------------------------------------------------------------
(* Properties. *)

\* Full evidence would confirm a claim that value was taken, or that the agent
\* itself left the envelope where the program can check it.
Stolen(t) ==
  \/ VerifyExploit(t, Complete).outcome = "confirmed"
  \/ LET left   == t.held - t.lost
         frozen == IF \E i \in t.ixs : i.type = "freezeAccount" THEN left ELSE 0
     IN VerifyGovernanceAttack(t, Complete, left, frozen, 0).outcome = "confirmed"
Strayed(t) ==
  /\ VerifyAgentError(t, Complete).outcome = "confirmed"
  /\ BreachProvable(t, Complete)

Noticed(n) == \E e \in events : e[1] = n /\ Opens(e[2])

\* The sweep no longer looks at the transaction, and nothing is filed yet.
Passed(n) == age[n] = Lookback /\ tick.pc = "idle" /\ Insured

\* "This path is the stronger of the two": what a verifier would confirm of a
\* transaction in the wallet's history has been raised, under a kind that opens
\* a claim, before the sweep loses sight of it.  It needs no webhook, and a
\* failed call costs a tick and not the claim, as long as the look-back has
\* more ticks; only the envelope must have been readable, and where the webhook
\* wrote first its row stands instead.
BackstopRaises ==
  \A n \in DOMAIN age :
    /\ Passed(n) /\ faults < Lookback - 1
    /\ story[n].named /\ (Stolen(Tx(n)) \/ Strayed(Tx(n)))
    => /\ AlreadySeen(n)
       /\ n \notin delivered /\ (Stolen(Tx(n)) \/ faults = 0) => Noticed(n)

\* "A loss through a route the decoder does not understand" is seen by its
\* size: where no call failed, half a balance does not leave without a row,
\* whoever moved it and whether or not the wallet's history shows it.
HalfLossLeavesARecord ==
  \A n \in DOMAIN age :
    /\ Passed(n) /\ faults = 0
    /\ ~Tx(n).failed /\ Tx(n).lost > 0 /\ 2 * Tx(n).lost >= Tx(n).held
    => events # {}
=============================================================================
