----------------------------- MODULE ClaimKeeper -----------------------------
(***************************************************************************)
(* The claim keeper: the off-chain pipeline that turns a monitoring alert  *)
(* into a claim row, verifies it, files it on chain and pays it after its  *)
(* lock.  Modelled for one policy, with the job queues the keeper works    *)
(* from, its process workers, its payout worker, the alert handler, and    *)
(* the policy indexer that writes to the same table.                       *)
(*                                                                         *)
(* Every await that another actor can slip into is a step boundary: a      *)
(* worker keeps the row it loaded (seen), most of its writes do not ask    *)
(* whether the row is still as it was seen, and any call may fail.  What a *)
(* verifier concludes is any verdict; what the other policies' payouts     *)
(* leave of the circuit breaker's window, and what the program's evidence  *)
(* gates decide, is any answer.  A transaction has landed, or never will,  *)
(* when its sender sees an error.  Alerts are ingested one at a time.  Not *)
(* modelled: simulated alerts, and policies missing from the index.        *)
(***************************************************************************)
EXTENDS Integers, Bags, FiniteSetsExt

CONSTANTS
  Claims,                      \* bound: ids the claims table gives to rows
  Workers,                     \* slots of the process worker (concurrency: 2)
  Exploit, Governance, AgentError, Oracle,   \* kinds of claim
  AlertKinds,                  \* bound: the kinds alerts announce
  ATTEMPTS,                    \* JOB_OPTS.attempts
  MAX_VERIFY_ATTEMPTS, MAX_SUPERSEDES,
  DEFERRALS,                   \* length of LOCK_DEFERRAL_MS
  MaxAlerts,                   \* bound: alerts
  MaxFaults                    \* bound: crashes and failed calls

Triggers == {Exploit, Governance, AgentError, Oracle}

ASSUME KeeperAssumption ==
  /\ Cardinality(Triggers) = 4
  /\ AlertKinds \subseteq Triggers
  /\ "none" \notin Claims
  /\ ATTEMPTS \in Nat \ {0} /\ MAX_VERIFY_ATTEMPTS \in Nat \ {0}
  /\ MAX_SUPERSEDES \in Nat /\ DEFERRALS \in Nat
  /\ MaxAlerts \in Nat /\ MaxFaults \in Nat

VARIABLES
  chain,                       \* the policy's account on chain
  insured,                     \* the policy is active, says the database
  row,                         \* row[c]: the claims table
  process_queue, payout_queue, \* bags of jobs, delayed ones included
  worker,                      \* worker[w]: a slot of the process worker
  payer,                       \* the payout worker (concurrency: 1)
  ingest,                      \* the alert being ingested
  listing,                     \* the chain as the indexer last listed it
  alerts, faults,              \* how many there have been
  taken                        \* history: rows taken over while a retry waited

queues == <<process_queue, payout_queue>>
vars == <<chain, insured, row, process_queue, payout_queue, worker, payer,
          ingest, listing, alerts, faults, taken>>

\* The claim statuses.  "absent" is a row not inserted yet.
Parked   == {"indeterminate", "review"}
WorkedOn == {"verifying", "approved", "paying"}
Open     == {"pending"} \cup WorkedOn \cup Parked
Closed   == {"paid", "rejected", "failed"}
Statuses == {"absent"} \cup Open \cup Closed

\* A park reason is one of the policy's that no retry can clear, one of the
\* deployment's own (counted with those as well), or any other.
Reasons == {"none", "other", "unresolvable", "transient"}
PermanentlyParked(reason) == reason \in {"unresolvable", "transient"}

\* The fields of verification_data that decide something.  Workers write it
\* back whole, merged from the row they saw.
Data ==
  [hashed: BOOLEAN,                    \* an evidence bundle's hash is there
   reattributed: BOOLEAN, deferrals: 0..DEFERRALS, supersedes: 0..MAX_SUPERSEDES]
NoData ==
  [hashed |-> FALSE, reattributed |-> FALSE, deferrals |-> 0, supersedes |-> 0]

Row ==
  [status: Statuses, trigger: Triggers \cup {"none"}, reason: Reasons,
   verify_attempts: Nat, payable: BOOLEAN, data: Data]
NoRow ==
  [status |-> "absent", trigger |-> "none", reason |-> "none",
   verify_attempts |-> 0, payable |-> FALSE, data |-> NoData]
NewRow(trigger, status) ==
  [NoRow EXCEPT !.status = status, !.trigger = trigger]

ChainStates == {"Active", "ClaimPending", "ClaimPaid", "Closed"}
Chain == [state: ChainStates, trigger: Triggers \cup {"none"}, lock_over: BOOLEAN]

NoListing == [state |-> "none", trigger |-> "none", lock_over |-> FALSE]

Job == [claim: Claims, tries: 0..ATTEMPTS-1]
NoJob == [claim |-> "none", tries |-> 0]
Fresh(c) == [claim |-> c, tries |-> 0]
Idle == [pc |-> "idle", job |-> NoJob, seen |-> NoRow]

Init ==
  /\ chain = [state |-> "Active", trigger |-> "none", lock_over |-> FALSE]
  /\ insured = TRUE
  /\ row = [c \in Claims |-> NoRow]
  /\ process_queue = EmptyBag
  /\ payout_queue = EmptyBag
  /\ worker = [w \in Workers |-> Idle]
  /\ payer = Idle
  /\ ingest = Idle
  /\ listing = NoListing
  /\ alerts = 0
  /\ faults = 0
  /\ taken = {}

-----------------------------------------------------------------------------
(* Queues, rows and faults. *)
Adding(queue, job) == queue (+) SetToBag({job})
Removing(queue, job) == queue (-) SetToBag({job})

\* A job that threw, or whose worker died, is run again until its attempts are
\* spent.  Slip: it is given up at once.
RetryingNot(queue, job) == queue

Retrying(queue, job) ==
  IF job.tries + 1 < ATTEMPTS
    THEN Adding(queue, [job EXCEPT !.tries = @ + 1]) ELSE queue

\* The partial unique index: writing an open status to one row needs every
\* other row of the policy closed.
SlotFreeFor(c) == \A d \in Claims \ {c} : row[d].status \notin Open

Fault == faults < MaxFaults /\ faults' = faults + 1
NoFault == UNCHANGED faults

Set(c, r) == row' = [row EXCEPT ![c] = r]

-----------------------------------------------------------------------------
(* ingestAlert: an alert becomes a row, or takes a parked one over. *)
AlertOpensClaim(t, c) ==
  /\ ingest.pc = "idle" /\ alerts < MaxAlerts
  /\ insured
  /\ row[c].status = "absent" /\ SlotFreeFor(c)
  /\ Set(c, NewRow(t, "pending"))
  /\ ingest' = [Idle EXCEPT !.pc = "enqueue", !.job = Fresh(c)]
  /\ alerts' = alerts + 1
  /\ UNCHANGED <<chain, insured, queues, worker, payer, listing, faults, taken>>

Specificity(t) ==
  CASE t = Governance -> 5 [] t = Exploit -> 4 [] t = Oracle -> 3 [] t = AgentError -> 2

\* Who may take a parked row: a more specific kind, any other kind if the row
\* waits for what cannot come, and the same kind if what it waits for was our
\* own failure and the transaction is another.
MayTake(t, r, other_tx) ==
  \/ Specificity(t) > Specificity(r.trigger)
  \/ Specificity(t) < Specificity(r.trigger) /\ PermanentlyParked(r.reason)
  \/ t = r.trigger /\ r.reason = "transient" /\ other_tx

\* The insert hit the unique index: look for a parked row to take.
AlertFindsParked(t, c, other_tx) ==
  /\ ingest.pc = "idle" /\ alerts < MaxAlerts
  /\ insured
  /\ row[c].status \in Parked
  /\ MayTake(t, row[c], other_tx)
  /\ ingest' = [pc |-> "supersede", job |-> Fresh(c),
                seen |-> [row[c] EXCEPT !.trigger = t]]
  /\ alerts' = alerts + 1
  /\ UNCHANGED <<chain, insured, row, queues, worker, payer, listing, faults, taken>>

\* An alert that neither opens a claim nor may take one is dropped: no step.
Superseded(r, t, supersedes) ==
  [r EXCEPT !.trigger = t, !.status = "pending", !.reason = "none",
            !.verify_attempts = ingest.seen.verify_attempts,
            !.data = [NoData EXCEPT !.supersedes = supersedes]]

\* Slip: the stored count is compared, not the one it is about to become.
CapReachedLate(supersedes) == supersedes > MAX_SUPERSEDES + 1

CapReached(supersedes) == supersedes > MAX_SUPERSEDES

\* The update is conditional on the row being parked still; the escalation at
\* the cap is not.
Supersede ==
  LET c          == ingest.job.claim
      supersedes == ingest.seen.data.supersedes + 1
  IN /\ ingest.pc = "supersede"
     /\ \/ /\ CapReached(supersedes)
           /\ SlotFreeFor(c)
           /\ Set(c, [row[c] EXCEPT !.status = "review", !.reason = "other"])
           /\ ingest' = Idle
           /\ UNCHANGED taken
        \/ /\ ~CapReached(supersedes)
           /\ row[c].status \in Parked
           /\ Set(c, Superseded(row[c], ingest.seen.trigger, supersedes))
           /\ ingest' = [ingest EXCEPT !.pc = "enqueue"]
           /\ taken' = IF row[c].status = "indeterminate" THEN taken \cup {c} ELSE taken
        \/ /\ \/ ~CapReached(supersedes) /\ row[c].status \notin Parked
              \/ CapReached(supersedes) /\ ~SlotFreeFor(c)
           /\ ingest' = Idle
           /\ UNCHANGED <<row, taken>>
     /\ UNCHANGED <<chain, insured, queues, worker, payer, listing, alerts, faults>>

Enqueue ==
  /\ ingest.pc = "enqueue"
  /\ process_queue' = Adding(process_queue, ingest.job)
  /\ ingest' = Idle
  /\ UNCHANGED <<chain, insured, row, payout_queue, worker, payer, listing,
                 alerts, faults, taken>>

-----------------------------------------------------------------------------
(* processClaim. *)
processOthers == <<insured, payer, ingest, listing, alerts, taken>>

At(w, pc) == worker[w].pc = pc
Goto(w, pc) == worker' = [worker EXCEPT ![w].pc = pc]
\* From here on the job reads no more than this of the row it loaded.
Keep(w, pc, seen) == worker' = [worker EXCEPT ![w].pc = pc, ![w].seen = seen]
Finish(w) == worker' = [worker EXCEPT ![w] = Idle]
Throw(w) ==
  /\ Finish(w)
  /\ process_queue' = Retrying(process_queue, worker[w].job)

TakeJob(w, job) ==
  /\ At(w, "idle")
  /\ BagIn(job, process_queue)
  /\ process_queue' = Removing(process_queue, job)
  /\ worker' = [worker EXCEPT ![w] =
       [pc |-> "begin", job |-> job, seen |-> row[job.claim]]]
  /\ UNCHANGED <<chain, row, payout_queue, processOthers, faults>>

\* setClaimStatus 'verifying', whatever the row's status has become; the
\* unique index may refuse it.
Begin(w) ==
  LET c == worker[w].job.claim
  IN /\ At(w, "begin")
     /\ \/ /\ SlotFreeFor(c)
           /\ Set(c, [row[c] EXCEPT !.status = "verifying"])
           /\ Goto(w, "verify")
           /\ UNCHANGED process_queue
        \/ ~SlotFreeFor(c) /\ Throw(w) /\ UNCHANGED row
     /\ UNCHANGED <<chain, payout_queue, processOthers, faults>>

\* Whether the retry of an unresolved claim is scheduled, or a human is asked.
\* Slip: both.
SpinsAlways(attempt) == TRUE

Spins(attempt) == attempt < MAX_VERIFY_ATTEMPTS

\* handleIndeterminate
Park(w, reason) ==
  LET job     == worker[w].job
      seen    == worker[w].seen
      attempt == seen.verify_attempts + 1
      status  == IF attempt < MAX_VERIFY_ATTEMPTS THEN "indeterminate" ELSE "review"
  IN /\ SlotFreeFor(job.claim)
     /\ Set(job.claim,
            [row[job.claim] EXCEPT !.status = status, !.reason = reason,
                                   !.verify_attempts = attempt,
                                   !.data = seen.data])
     /\ IF Spins(attempt) THEN Keep(w, "requeue", NoRow) ELSE Finish(w)
     /\ UNCHANGED process_queue

Reject(w) ==
  /\ Set(worker[w].job.claim,
         [row[worker[w].job.claim] EXCEPT !.status = "rejected",
                                          !.data = worker[w].seen.data])
  /\ Finish(w)
  /\ UNCHANGED process_queue

EscalateToReview(w, reason) ==
  LET c == worker[w].job.claim
  IN /\ SlotFreeFor(c)
     /\ Set(c, [row[c] EXCEPT !.status = "review", !.reason = reason,
                              !.data = worker[w].seen.data])
     /\ Finish(w)
     /\ UNCHANGED process_queue

\* An exploit verdict that says "the agent authorised this" is asked again as
\* an agent error, once, when a matured mandate exists.
ReattributeToAgentError(w) ==
  LET c    == worker[w].job.claim
      seen == worker[w].seen
  IN /\ seen.trigger = Exploit
     /\ ~seen.data.reattributed
     /\ SlotFreeFor(c)
     /\ Set(c, [row[c] EXCEPT !.trigger = AgentError, !.status = "pending",
                              !.data = [seen.data EXCEPT !.reattributed = TRUE]])
     /\ Keep(w, "requeue", NoRow)
     /\ UNCHANGED process_queue

\* A confirmed verdict with evidence for the proof path is written out before
\* anything is sent.
Confirm(w, hashed) ==
  LET c    == worker[w].job.claim
      seen == worker[w].seen
  IN /\ hashed
     /\ Set(c, [row[c] EXCEPT
                  !.payable = TRUE, !.reason = "none",
                  !.verify_attempts = seen.verify_attempts + 1,
                  !.data = [seen.data EXCEPT !.hashed = TRUE]])
     /\ Keep(w, "submit", [NoRow EXCEPT !.trigger = seen.trigger])
     /\ UNCHANGED process_queue

\* The verdict and what follows from it.  With a fault, the mandate is
\* unreadable, or the evidence is not recorded: what the plan is left with is
\* the hash of an earlier pass.
Verify(w) ==
  LET seen == worker[w].seen
  IN /\ At(w, "verify")
     /\ \/ /\ \/ \E reason \in Reasons \ {"none"} : Park(w, reason)
              \/ Reject(w)
              \/ \E reason \in {"other", "transient"} : EscalateToReview(w, reason)
              \/ ReattributeToAgentError(w)
              \/ Confirm(w, TRUE)
              \/ ~SlotFreeFor(worker[w].job.claim) /\ Throw(w) /\ UNCHANGED row
           /\ NoFault
        \/ /\ \/ seen.trigger = Exploit /\ ~seen.data.reattributed /\ Park(w, "other")
              \/ Confirm(w, seen.data.hashed)
           /\ Fault
     /\ UNCHANGED <<chain, payout_queue, processOthers>>

\* oracle_submit_claim, as far as its outcome goes.
Filed(trigger) ==
  chain' = [chain EXCEPT !.state = "ClaimPending", !.trigger = trigger]

SubmitClaimOnChain(w) ==
  /\ At(w, "submit")
  /\ \/ /\ chain.state = "Active"
        /\ Filed(worker[w].seen.trigger)
        /\ \/ Keep(w, "approve", NoRow) /\ NoFault
           \/ Keep(w, "check", NoRow) /\ Fault
     \/ /\ \/ chain.state # "Active" /\ NoFault
           \/ Fault
        /\ Keep(w, "check", NoRow)
        /\ UNCHANGED chain
  /\ UNCHANGED <<row, queues, processOthers>>

\* The submission reported an error: ask the chain.
CheckSubmitted(w) ==
  /\ At(w, "check")
  /\ \/ /\ chain.state = "ClaimPending"
        /\ Keep(w, "approve", NoRow)
        /\ NoFault
        /\ UNCHANGED process_queue
     \/ /\ chain.state # "ClaimPending"
        /\ Throw(w)
        /\ NoFault
  /\ UNCHANGED <<chain, row, payout_queue, processOthers>>

Approve(w) ==
  LET c == worker[w].job.claim
  IN /\ At(w, "approve")
     /\ \/ /\ SlotFreeFor(c)
           /\ Set(c, [row[c] EXCEPT !.status = "approved"])
           /\ Keep(w, "hand over", NoRow)
           /\ UNCHANGED process_queue
        \/ ~SlotFreeFor(c) /\ Throw(w) /\ UNCHANGED row
     /\ UNCHANGED <<chain, payout_queue, processOthers, faults>>

\* The last step of a job that leads to another; a job that dies between the
\* two is run again beside it.
Requeue(w) ==
  LET job   == worker[w].job
      queue == Adding(process_queue, Fresh(job.claim))
  IN /\ At(w, "requeue")
     /\ Finish(w)
     /\ \/ process_queue' = queue /\ NoFault
        \/ process_queue' = Retrying(queue, job) /\ Fault
     /\ UNCHANGED <<chain, row, payout_queue, processOthers>>

HandOver(w) ==
  /\ At(w, "hand over")
  /\ payout_queue' = Adding(payout_queue, Fresh(worker[w].job.claim))
  /\ \/ Finish(w) /\ NoFault /\ UNCHANGED process_queue
     \/ Throw(w) /\ Fault
  /\ UNCHANGED <<chain, row, processOthers>>

\* A call to the database, the queue or the network fails.
ProcessFails(w) ==
  /\ ~At(w, "idle")
  /\ Throw(w)
  /\ Fault
  /\ UNCHANGED <<chain, row, payout_queue, processOthers>>

ProcessStep(w) ==
  \/ \E job \in BagToSet(process_queue) : TakeJob(w, job)
  \/ Begin(w) \/ Verify(w) \/ SubmitClaimOnChain(w) \/ CheckSubmitted(w)
  \/ Approve(w) \/ Requeue(w) \/ HandOver(w) \/ ProcessFails(w)

-----------------------------------------------------------------------------
(* executePayout. *)
payoutOthers == <<chain, insured, process_queue, worker, ingest, listing, alerts, taken>>

PayoutDone == payer' = Idle

\* Only a claim that is approved or paying is paid, and never without an
\* amount.
TakePayout(job) ==
  LET c == job.claim
      r == row[c]
  IN /\ payer.pc = "idle"
     /\ BagIn(job, payout_queue)
     /\ payout_queue' = Removing(payout_queue, job)
     /\ \/ /\ r.status \notin {"approved", "paying"}
           /\ UNCHANGED <<row, payer>>
        \/ /\ r.status \in {"approved", "paying"} /\ ~r.payable
           /\ Set(c, [r EXCEPT !.status = "rejected"])
           /\ UNCHANGED payer
        \/ /\ r.status \in {"approved", "paying"} /\ r.payable
           /\ payer' = [pc |-> "gates", job |-> job, seen |-> r]
           /\ UNCHANGED row
     /\ UNCHANGED <<payoutOthers, faults>>

\* Marked paying, if it is still approved; then the circuit breaker, of whose
\* window the other policies' payouts decide, and the settlement plan.
PayoutGates ==
  LET c        == payer.job.claim
      provable == payer.seen.data.hashed
  IN /\ payer.pc = "gates"
     /\ \/ /\ provable
           /\ payer' = [payer EXCEPT !.pc = "settle"]
           /\ row' = IF row[c].status = "approved"
                       THEN [row EXCEPT ![c].status = "paying"] ELSE row
           /\ UNCHANGED payout_queue
        \/ /\ SlotFreeFor(c)
           /\ Set(c, [row[c] EXCEPT !.status = "review", !.reason = "other",
                                    !.data = payer.seen.data])
           /\ PayoutDone
           /\ UNCHANGED payout_queue
        \/ /\ ~SlotFreeFor(c)
           /\ payout_queue' = Retrying(payout_queue, payer.job)
           /\ PayoutDone
           /\ UNCHANGED row
     /\ UNCHANGED <<payoutOthers, faults>>

\* The settlement instruction.  The chain pays a pending claim of the plan's
\* kind once its lock is over, if its own evidence allows; an error is all
\* the sender may see even so.
Settle ==
  LET pays    == /\ chain.state = "ClaimPending"
                 /\ chain.trigger = payer.seen.trigger
                 /\ chain.lock_over
      locked  == chain.state = "ClaimPending" /\ ~chain.lock_over
      To(pc)  == payer' = [payer EXCEPT !.pc = pc]
  IN /\ payer.pc = "settle"
     /\ \/ /\ pays
           /\ chain' = [chain EXCEPT !.state = "ClaimPaid"]
           /\ \/ To("record") /\ NoFault
              \/ To("read back") /\ Fault
        \/ locked /\ To("locked") /\ NoFault /\ UNCHANGED chain
        \/ ~locked /\ To("read back") /\ NoFault /\ UNCHANGED chain
        \/ To("read back") /\ Fault /\ UNCHANGED chain
     /\ UNCHANGED <<insured, row, queues, worker, ingest, listing, alerts, taken>>

RecordPaid ==
  LET c == payer.job.claim
  IN /\ payer.pc = "record"
     /\ \/ /\ Set(c, [row[c] EXCEPT !.status = "paid"])
           /\ PayoutDone
           /\ NoFault
        \/ /\ payer' = [payer EXCEPT !.pc = "read back"]
           /\ Fault
           /\ UNCHANGED row
     /\ UNCHANGED <<payoutOthers, payout_queue>>

\* isPolicySettledOnChain.  Slips: any policy that is no longer pending counts
\* as settled; the error is believed.
SettledOnChainNotPending == chain.state # "ClaimPending"
SettledOnChainUnasked == FALSE

SettledOnChain == chain.state = "ClaimPaid"

\* "Ask the chain before believing the error": a read that fails too counts as
\* no.
PayoutError ==
  LET c         == payer.job.claim
      deferrals == payer.seen.data.deferrals
  IN /\ payer.pc \in {"read back", "locked"}
     /\ \/ /\ SettledOnChain
           /\ Set(c, [row[c] EXCEPT !.status = "paid", !.data = payer.seen.data])
           /\ PayoutDone
           /\ NoFault
           /\ UNCHANGED payout_queue
        \/ /\ \/ ~SettledOnChain /\ NoFault
              \/ Fault
           /\ \/ /\ payer.pc = "locked" /\ deferrals < DEFERRALS
                 /\ Set(c, [row[c] EXCEPT
                      !.data = [payer.seen.data EXCEPT !.deferrals = deferrals + 1]])
                 /\ payer' = [payer EXCEPT !.pc = "defer"]
                 /\ UNCHANGED payout_queue
              \/ /\ payer.pc = "locked" /\ deferrals = DEFERRALS
                 /\ SlotFreeFor(c)
                 /\ Set(c, [row[c] EXCEPT !.status = "review", !.reason = "other",
                                          !.data = payer.seen.data])
                 /\ PayoutDone
                 /\ UNCHANGED payout_queue
              \/ /\ payer.pc = "locked" /\ deferrals = DEFERRALS
                 /\ ~SlotFreeFor(c)
                 /\ payout_queue' = Retrying(payout_queue, payer.job)
                 /\ PayoutDone
                 /\ UNCHANGED row
              \/ /\ payer.pc = "read back"
                 /\ Set(c, [row[c] EXCEPT !.status = "failed",
                                          !.data = payer.seen.data])
                 /\ payout_queue' = Retrying(payout_queue, payer.job)
                 /\ PayoutDone
     /\ UNCHANGED payoutOthers

Defer ==
  /\ payer.pc = "defer"
  /\ payout_queue' = Adding(payout_queue, Fresh(payer.job.claim))
  /\ PayoutDone
  /\ UNCHANGED <<payoutOthers, row, faults>>

\* Outside the settlement's own try, what throws is simply run again.
PayoutFails ==
  /\ payer.pc \in {"gates", "read back", "locked", "defer"}
  /\ payout_queue' = Retrying(payout_queue, payer.job)
  /\ PayoutDone
  /\ Fault
  /\ UNCHANGED <<payoutOthers, row>>

PayoutStep ==
  \/ \E job \in BagToSet(payout_queue) : TakePayout(job)
  \/ PayoutGates \/ Settle \/ RecordPaid \/ PayoutError \/ Defer \/ PayoutFails

-----------------------------------------------------------------------------
(* reconcilePolicies: the indexer lists the chain, then writes what it saw.
   A listing that cannot change the tables is left out. *)
IndexerLists ==
  /\ listing = NoListing
  /\ \/ chain.state = "ClaimPending"
     \/ insured /\ chain.state # "Active"
  /\ listing' = [chain EXCEPT !.lock_over = FALSE]
  /\ UNCHANGED <<chain, insured, row, queues, worker, payer, ingest, alerts, faults, taken>>

\* A pending claim the table does not work on is mirrored into it, unless a
\* parked row holds the slot.
Mirrors(c) ==
  /\ listing.state = "ClaimPending"
  /\ \A d \in Claims : row[d].status \notin {"pending"} \cup WorkedOn
  /\ SlotFreeFor(c)
  /\ row[c].status = "absent"

IndexerWrites ==
  /\ listing # NoListing
  /\ insured' = (listing.state = "Active")
  /\ \/ \E c \in Claims :
          Mirrors(c) /\ Set(c, NewRow(listing.trigger, "approved"))
     \/ (\A c \in Claims : ~Mirrors(c)) /\ UNCHANGED row
  /\ listing' = NoListing
  /\ UNCHANGED <<chain, queues, worker, payer, ingest, alerts, faults, taken>>

-----------------------------------------------------------------------------
(* The chain's other actors, and crashes. *)
HolderFiles(t) ==
  /\ chain.state = "Active"
  /\ Filed(t)

LockElapses ==
  /\ chain.state = "ClaimPending" /\ ~chain.lock_over
  /\ chain' = [chain EXCEPT !.lock_over = TRUE]

\* Cancelled, or expired, with or without a claim.
PolicyCloses ==
  /\ chain.state \in {"Active", "ClaimPending"}
  /\ chain' = [chain EXCEPT !.state = "Closed"]

ChainStep ==
  /\ (\E t \in AlertKinds : HolderFiles(t)) \/ LockElapses \/ PolicyCloses
  /\ UNCHANGED <<insured, row, queues, worker, payer, ingest, listing, alerts, faults, taken>>

\* The jobs under way that have attempts left, one try further.
Stalled ==
  BagOfAll(LAMBDA w : [worker[w].job EXCEPT !.tries = @ + 1],
           SetToBag({w \in Workers :
                       ~At(w, "idle") /\ worker[w].job.tries + 1 < ATTEMPTS}))

\* The process dies: its jobs are stalled and run again, its alert is lost.
Crash ==
  /\ Fault
  /\ process_queue' = process_queue (+) Stalled
  /\ payout_queue' = IF payer.pc = "idle" THEN payout_queue
                     ELSE Retrying(payout_queue, payer.job)
  /\ worker' = [w \in Workers |-> Idle]
  /\ payer' = Idle
  /\ ingest' = Idle
  /\ listing' = NoListing
  /\ UNCHANGED <<chain, insured, row, alerts, taken>>

IngestStep ==
  \/ \E t \in AlertKinds, c \in Claims :
       \/ AlertOpensClaim(t, c)
       \/ \E other_tx \in BOOLEAN : AlertFindsParked(t, c, other_tx)
  \/ Supersede
  \/ Enqueue

Next ==
  \/ IngestStep
  \/ \E w \in Workers : ProcessStep(w)
  \/ PayoutStep
  \/ IndexerLists \/ IndexerWrites
  \/ ChainStep
  \/ Crash

Spec == Init /\ [][Next]_vars

\* Both queues are served: a job that waits is taken, and a slot that took one
\* carries on.
FairSpec ==
  /\ Spec
  /\ \A w \in Workers : WF_vars(ProcessStep(w))
  /\ WF_vars(PayoutStep)

-----------------------------------------------------------------------------
(***************************************************************************)
(* Properties.                                                             *)
(***************************************************************************)
Slot(first) ==
  [pc: {"idle", first, "verify", "submit", "check", "approve", "supersede",
        "requeue", "hand over", "settle", "record", "read back", "locked", "defer",
        "enqueue"},
   job: Job \cup {NoJob}, seen: Row]

\* Rows, jobs and slots are well formed, no row is taken over more than
\* MAX_SUPERSEDES times, and a slot is idle exactly when it has no job.
KeeperTypeOK ==
  /\ chain \in Chain
  /\ insured \in BOOLEAN
  /\ row \in [Claims -> Row]
  /\ BagToSet(process_queue) \cup BagToSet(payout_queue) \subseteq Job
  /\ worker \in [Workers -> Slot("begin")]
  /\ payer \in Slot("gates")
  /\ ingest \in Slot("supersede")
  /\ listing \in Chain \cup {NoListing}
  /\ alerts \in 0..MaxAlerts /\ faults \in 0..MaxFaults
  /\ taken \subseteq Claims
  /\ \A w \in Workers : At(w, "idle") <=> worker[w].job = NoJob

\* A row says paid only when the chain has paid, whatever the payout worker
\* was told and whatever other pass wrote to the row (claim-keeper.ts 1063-1093).
PaidMeansPaid ==
  \A c \in Claims : row[c].status = "paid" => chain.state = "ClaimPaid"

\* A payout whose confirmation was lost is not recorded as failed (claim-keeper.ts
\* 1063-1071).  It takes a second fault, the read back, to break this.
FailedMeansUnpaid ==
  [][ \A c \in Claims :
        row[c].status # "failed" /\ row'[c].status = "failed"
          => chain.state # "ClaimPaid" ]_vars

\* The jobs, workers and alerts that are about to write to a row.
JobsOf(queue, c) ==
  MapThenSumSet(LAMBDA job : queue[job], {j \in BagToSet(queue) : j.claim = c})

HandsOn(c) ==
  JobsOf(process_queue, c) + JobsOf(payout_queue, c)
    + Cardinality({w \in Workers : worker[w].job.claim = c})
    + (IF payer.job.claim = c THEN 1 ELSE 0)
    + (IF ingest.pc = "enqueue" /\ ingest.job.claim = c THEN 1 ELSE 0)

\* While nothing fails, a claim that was not taken over from under its waiting
\* retry has one job or one worker (processClaim, handleIndeterminate,
\* executePayout): never two passes that decide it at once.
SoleWorker ==
  faults = 0 => \A c \in Claims \ taken : HandsOn(c) <= 1

\* A row nothing is left to do for.
Resolved(c) == row[c].status \in {"review"} \cup Closed

\* What is enqueued is decided, through retries, deferrals and a fault: it is
\* paid, or closed, or handed to a human (processClaim, executePayout), unless
\* the policy itself is paid or closed meanwhile.
ClaimResolved ==
  \A c \in Claims :
    row[c].status = "pending" /\ JobsOf(process_queue, c) > 0
      ~> Resolved(c) \/ chain.state \in {"Closed", "ClaimPaid"}

\* "Recording failed there means real USDC left the vault with nothing linking
\* it to the claim" (claim-keeper.ts 1067-1068): once nobody is at work, a
\* policy that was paid has a row that says so.
PayoutRecorded ==
  chain.state = "ClaimPaid" /\ (\A c \in Claims : HandsOn(c) = 0)
  => \E c \in Claims : row[c].status = "paid"
=============================================================================
