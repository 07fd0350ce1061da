---------------------------- MODULE KeeperProofs ----------------------------
(***************************************************************************)
(* Theorems about the claim keeper, for any number of claims, workers,     *)
(* alerts, faults, attempts and takeovers: the types of its rows and       *)
(* slots, that a row is paid only after the chain paid, and that while     *)
(* nothing fails a claim has one hand at a time.                           *)
(***************************************************************************)
EXTENDS ClaimKeeper, FiniteSetTheorems, TLAPS

\* Bags of jobs: what a queue holds after a job is put in or taken out.
LEMMA AddingDomain ==
  ASSUME NEW queue, NEW job
  PROVE  BagToSet(Adding(queue, job)) = BagToSet(queue) \cup {job}
BY DEF Adding, BagToSet, SetToBag, (+)

LEMMA RemovingDomain ==
  ASSUME NEW queue, NEW job
  PROVE  BagToSet(Removing(queue, job)) \subseteq BagToSet(queue)
BY DEF Removing, BagToSet, SetToBag, (-)

\* The jobs the keeper makes, and the values its slots and rows start with.
LEMMA FreshJob == \A c \in Claims : Fresh(c) \in Job
BY KeeperAssumption DEF Fresh, Job

LEMMA RetriedJob ==
  ASSUME NEW job \in Job, job.tries + 1 < ATTEMPTS
  PROVE  [job EXCEPT !.tries = @ + 1] \in Job
BY KeeperAssumption DEF Job

LEMMA RetryingJobs ==
  ASSUME NEW queue, BagToSet(queue) \subseteq Job, NEW job \in Job
  PROVE  BagToSet(Retrying(queue, job)) \subseteq Job
BY AddingDomain, RetriedJob DEF Retrying

LEMMA NoJobIsNone == NoJob \notin Job
BY KeeperAssumption DEF NoJob, Job

LEMMA IdleTyped == \A first : Idle \in Slot(first)
BY KeeperAssumption DEF Idle, Slot, NoJob, NoRow, Row, NoData, Data, Statuses, Reasons, Triggers

LEMMA NoRowTyped == NoRow \in Row
BY KeeperAssumption DEF NoRow, Row, NoData, Data, Statuses, Reasons

\* KeeperTypeOK is not inductive: a worker at work must hold a job of a claim,
\* or its next write goes to no row.  TypeInv says so of each slot.
WorkersOK ==
  /\ worker \in [Workers -> Slot("begin")]
  /\ \A w \in Workers : At(w, "idle") <=> worker[w].job = NoJob

QueuesOK == BagToSet(process_queue) \cup BagToSet(payout_queue) \subseteq Job
RowsOK   == row \in [Claims -> Row]
PayerOK ==
  /\ payer \in Slot("gates")
  /\ IF payer.pc = "idle" THEN payer.job = NoJob ELSE payer.job \in Job
IngestOK ==
  /\ ingest \in Slot("supersede")
  /\ IF ingest.pc = "idle" THEN ingest.job = NoJob ELSE ingest.job \in Job
OthersOK ==
  /\ chain \in Chain
  /\ insured \in BOOLEAN
  /\ listing \in Chain \cup {NoListing}
  /\ alerts \in 0..MaxAlerts /\ faults \in 0..MaxFaults
  /\ taken \subseteq Claims

TypeInv == WorkersOK /\ QueuesOK /\ RowsOK /\ PayerOK /\ IngestOK /\ OthersOK

\* How a slot or a row is updated.
LEMMA BusyJob ==
  ASSUME WorkersOK, NEW w \in Workers, ~At(w, "idle")
  PROVE  worker[w].job \in Job
BY DEF WorkersOK, Slot, At

LEMMA SlotSet ==
  ASSUME WorkersOK, NEW w \in Workers, NEW s \in Slot("begin"),
         s.pc = "idle" <=> s.job = NoJob, worker' = [worker EXCEPT ![w] = s]
  PROVE  WorkersOK'
BY DEF WorkersOK, At

LEMMA RowSet ==
  ASSUME RowsOK, NEW c \in Claims, NEW r \in Row, Set(c, r)
  PROVE  RowsOK'
BY DEF RowsOK, Set

LEMMA RowWith ==
  ASSUME NEW r \in Row, NEW s \in Statuses, NEW t \in Triggers \cup {"none"},
         NEW reason \in Reasons, NEW n \in Nat, NEW b \in BOOLEAN, NEW d \in Data
  PROVE  /\ [r EXCEPT !.status = s] \in Row
         /\ [r EXCEPT !.trigger = t] \in Row
         /\ [r EXCEPT !.status = s, !.data = d] \in Row
         /\ [r EXCEPT !.data = d] \in Row
         /\ [r EXCEPT !.status = s, !.reason = reason] \in Row
         /\ [r EXCEPT !.status = s, !.reason = reason, !.data = d] \in Row
         /\ [r EXCEPT !.status = s, !.reason = reason, !.verify_attempts = n, !.data = d] \in Row
         /\ [r EXCEPT !.trigger = t, !.status = s, !.data = d] \in Row
         /\ [r EXCEPT !.payable = b, !.reason = reason, !.verify_attempts = n, !.data = d] \in Row
         /\ [r EXCEPT !.trigger = t, !.status = s, !.reason = reason, !.verify_attempts = n, !.data = d] \in Row
BY DEF Row

LEMMA DataWith ==
  ASSUME NEW d \in Data, NEW n \in 0..DEFERRALS
  PROVE  /\ [d EXCEPT !.hashed = TRUE] \in Data
         /\ [d EXCEPT !.reattributed = TRUE] \in Data
         /\ [d EXCEPT !.deferrals = n] \in Data
BY DEF Data

LEMMA GotoTyped ==
  ASSUME WorkersOK, NEW w \in Workers, ~At(w, "idle"),
         NEW pc \in {"begin", "verify", "submit", "check", "approve", "requeue", "hand over"},
         NEW seen \in Row,
         Goto(w, pc) \/ Keep(w, pc, seen)
  PROVE  WorkersOK'
<1> DEFINE s == [worker[w] EXCEPT !.pc = pc]
           t == [worker[w] EXCEPT !.pc = pc, !.seen = seen]
<1>1. worker[w].job \in Job /\ worker[w].job # NoJob
  BY BusyJob, NoJobIsNone
<1>2. s \in Slot("begin") /\ t \in Slot("begin")
  BY <1>1 DEF WorkersOK, Slot
<1>3. s.pc # "idle" /\ t.pc # "idle" /\ s.job # NoJob /\ t.job # NoJob
  BY <1>1 DEF WorkersOK, Slot
<1>4. CASE Goto(w, pc)
  <2>1. worker' = [worker EXCEPT ![w] = s]
    BY <1>4 DEF Goto, WorkersOK
  <2> QED BY <2>1, <1>2, <1>3, SlotSet
<1>5. CASE Keep(w, pc, seen)
  <2>1. worker' = [worker EXCEPT ![w] = t]
    BY <1>5 DEF Keep, WorkersOK
  <2> QED BY <2>1, <1>2, <1>3, SlotSet
<1> QED BY <1>4, <1>5

LEMMA FinishTyped ==
  ASSUME WorkersOK, NEW w \in Workers, Finish(w)
  PROVE  WorkersOK'
<1>1. worker' = [worker EXCEPT ![w] = Idle]
  BY DEF Finish
<1>2. Idle \in Slot("begin") /\ Idle.pc = "idle" /\ Idle.job = NoJob
  BY IdleTyped DEF Idle
<1> QED BY <1>1, <1>2, SlotSet

LEMMA ThrowTyped ==
  ASSUME WorkersOK, QueuesOK, NEW w \in Workers, ~At(w, "idle"), Throw(w)
  PROVE  WorkersOK' /\ BagToSet(process_queue') \subseteq Job
BY FinishTyped, RetryingJobs, BusyJob DEF Throw, QueuesOK

LEMMA SeenTyped ==
  ASSUME WorkersOK, NEW w \in Workers
  PROVE  worker[w].seen \in Row /\ worker[w].seen.data \in Data
         /\ worker[w].seen.verify_attempts + 1 \in Nat
         /\ worker[w].seen.trigger \in Triggers \cup {"none"}
<1>1. worker[w].seen \in Row
  BY DEF WorkersOK, Slot
<1> QED BY <1>1 DEF Row

LEMMA StatusNames ==
  /\ {"absent", "pending", "verifying", "approved", "paying", "indeterminate",
      "review", "paid", "rejected", "failed"} \subseteq Statuses
  /\ {"none", "other", "unresolvable", "transient"} = Reasons
BY DEF Statuses, Open, WorkedOn, Parked, Closed, Reasons

\* The process worker (processClaim, submitClaimOnChain), step by step.
LEMMA TakeJobTyped ==
  ASSUME TypeInv, NEW w \in Workers, NEW job \in BagToSet(process_queue), TakeJob(w, job)
  PROVE  TypeInv'
<1>1. job \in Job /\ row[job.claim] \in Row
  BY DEF TypeInv, QueuesOK, RowsOK, Job
<1> DEFINE s == [pc |-> "begin", job |-> job, seen |-> row[job.claim]]
<1>2. s \in Slot("begin") /\ s.pc # "idle" /\ s.job # NoJob
  BY <1>1, NoJobIsNone DEF Slot
<1>3. WorkersOK'
  BY <1>2, SlotSet DEF TakeJob, TypeInv
<1>4. QueuesOK'
  BY RemovingDomain DEF TakeJob, TypeInv, QueuesOK
<1> QED BY <1>3, <1>4 DEF TakeJob, TypeInv, processOthers, RowsOK, PayerOK, IngestOK, OthersOK

LEMMA OthersStay ==
  ASSUME TypeInv, WorkersOK', QueuesOK', RowsOK',
         UNCHANGED processOthers, chain' \in Chain, faults' \in 0..MaxFaults
  PROVE  TypeInv'
BY DEF TypeInv, processOthers, PayerOK, IngestOK, OthersOK

LEMMA FaultTyped ==
  ASSUME TypeInv, NoFault \/ Fault
  PROVE  faults' \in 0..MaxFaults
BY KeeperAssumption DEF TypeInv, OthersOK, NoFault, Fault

LEMMA BeginTyped ==
  ASSUME TypeInv, NEW w \in Workers, Begin(w)
  PROVE  TypeInv'
<1> DEFINE c == worker[w].job.claim
<1>1. ~At(w, "idle") /\ worker[w].job \in Job /\ c \in Claims
  BY BusyJob DEF Begin, At, TypeInv, Job
<1>2. row[c] \in Row
  BY <1>1 DEF TypeInv, RowsOK
<1>3. WorkersOK' /\ BagToSet(process_queue') \subseteq Job /\ RowsOK'
  <2>1. CASE Throw(w) /\ UNCHANGED row
    BY <2>1, <1>1, ThrowTyped DEF TypeInv, RowsOK
  <2>2. CASE Set(c, [row[c] EXCEPT !.status = "verifying"]) /\ Goto(w, "verify") /\ UNCHANGED process_queue
    <3>1. [row[c] EXCEPT !.status = "verifying"] \in Row
      BY <1>2, StatusNames DEF Row
    <3>2. RowsOK'
      BY <2>2, <3>1, <1>1, RowSet DEF TypeInv
    <3>3. WorkersOK'
      BY <2>2, <1>1, NoRowTyped, GotoTyped DEF TypeInv
    <3> QED BY <3>2, <3>3, <2>2 DEF TypeInv, QueuesOK
  <2> QED BY <2>1, <2>2 DEF Begin
<1>4. UNCHANGED <<chain, payout_queue, processOthers, faults>>
  BY DEF Begin
<1> QED BY <1>3, <1>4, OthersStay DEF TypeInv, QueuesOK, OthersOK

LEMMA VerifyTyped ==
  ASSUME TypeInv, NEW w \in Workers, Verify(w)
  PROVE  TypeInv'
<1> DEFINE c == worker[w].job.claim
           seen == worker[w].seen
<1>1. ~At(w, "idle") /\ worker[w].job \in Job /\ c \in Claims
  BY BusyJob DEF Verify, At, TypeInv, Job
<1>2. row[c] \in Row
  BY <1>1 DEF TypeInv, RowsOK
<1>3. seen \in Row /\ seen.data \in Data /\ seen.verify_attempts + 1 \in Nat
        /\ seen.trigger \in Triggers \cup {"none"}
  BY SeenTyped DEF TypeInv
<1> DEFINE Typed == WorkersOK' /\ BagToSet(process_queue') \subseteq Job /\ RowsOK'
<1>4. ASSUME NEW reason \in Reasons, Park(w, reason)
      PROVE  Typed
  <2> DEFINE status == IF seen.verify_attempts + 1 < MAX_VERIFY_ATTEMPTS THEN "indeterminate" ELSE "review"
             r == [row[c] EXCEPT !.status = status, !.reason = reason,
                                   !.verify_attempts = seen.verify_attempts + 1,
                                   !.data = seen.data]
  <2>1. status \in Statuses
    BY StatusNames
  <2>2. r \in Row
    BY <2>1, <1>2, <1>3 DEF Row
  <2>3. Set(c, r) /\ UNCHANGED process_queue
    BY <1>4 DEF Park
  <2>4. RowsOK'
    BY <2>2, <2>3, <1>1, RowSet DEF TypeInv
  <2>5. Keep(w, "requeue", NoRow) \/ Finish(w)
    BY <1>4 DEF Park
  <2>6. WorkersOK'
    BY <2>5, <1>1, GotoTyped, FinishTyped, NoRowTyped DEF TypeInv
  <2> QED BY <2>3, <2>4, <2>6 DEF TypeInv, QueuesOK
<1>5. ASSUME Reject(w)
      PROVE  Typed
  <2> DEFINE r == [row[c] EXCEPT !.status = "rejected", !.data = seen.data]
  <2>2. r \in Row
    BY StatusNames, <1>2, <1>3 DEF Row
  <2>3. Set(c, r) /\ UNCHANGED process_queue /\ Finish(w)
    BY <1>5 DEF Reject
  <2> QED BY <2>2, <2>3, <1>1, RowSet, FinishTyped DEF TypeInv, QueuesOK
<1>6. ASSUME NEW reason \in Reasons, EscalateToReview(w, reason)
      PROVE  Typed
  <2> DEFINE r == [row[c] EXCEPT !.status = "review", !.reason = reason, !.data = seen.data]
  <2>2. r \in Row
    BY StatusNames, <1>2, <1>3 DEF Row
  <2>3. Set(c, r) /\ UNCHANGED process_queue /\ Finish(w)
    BY <1>6 DEF EscalateToReview
  <2> QED BY <2>2, <2>3, <1>1, RowSet, FinishTyped DEF TypeInv, QueuesOK
<1>7. ASSUME ReattributeToAgentError(w)
      PROVE  Typed
  <2> DEFINE d == [seen.data EXCEPT !.reattributed = TRUE]
             r == [row[c] EXCEPT !.trigger = AgentError, !.status = "pending", !.data = d]
  <2>1. d \in Data
    BY <1>3 DEF Data
  <2>2. r \in Row
    BY StatusNames, <1>2, <2>1 DEF Row, Triggers
  <2>3. Set(c, r) /\ UNCHANGED process_queue /\ Keep(w, "requeue", NoRow)
    BY <1>7 DEF ReattributeToAgentError
  <2> QED BY <2>2, <2>3, <1>1, RowSet, GotoTyped, NoRowTyped DEF TypeInv, QueuesOK
<1>8. ASSUME NEW hashed, Confirm(w, hashed)
      PROVE  Typed
  <2> DEFINE d == [seen.data EXCEPT !.hashed = TRUE]
             r == [row[c] EXCEPT
                  !.payable = TRUE, !.reason = "none",
                  !.verify_attempts = seen.verify_attempts + 1,
                  !.data = d]
             k == [NoRow EXCEPT !.trigger = seen.trigger]
  <2>1. d \in Data
    BY <1>3 DEF Data
  <2>2. r \in Row /\ k \in Row
    BY StatusNames, <1>2, <1>3, <2>1, NoRowTyped DEF Row
  <2>3. Set(c, r) /\ UNCHANGED process_queue /\ Keep(w, "submit", k)
    BY <1>8 DEF Confirm
  <2> HIDE DEF d, r, k
  <2> QED BY <2>2, <2>3, <1>1, RowSet, GotoTyped DEF TypeInv, QueuesOK
<1>9. ASSUME Throw(w), UNCHANGED row
      PROVE  Typed
  BY <1>9, <1>1, ThrowTyped DEF TypeInv, RowsOK
<1>10. Typed
  BY <1>4, <1>5, <1>6, <1>7, <1>8, <1>9, StatusNames DEF Verify
<1>11. UNCHANGED <<chain, payout_queue, processOthers>> /\ (NoFault \/ Fault)
  BY DEF Verify
<1> QED BY <1>10, <1>11, OthersStay, FaultTyped DEF TypeInv, QueuesOK, OthersOK

LEMMA SubmitTyped ==
  ASSUME TypeInv, NEW w \in Workers, SubmitClaimOnChain(w)
  PROVE  TypeInv'
<1>1. ~At(w, "idle")
  BY DEF SubmitClaimOnChain, At
<1>2. Keep(w, "approve", NoRow) \/ Keep(w, "check", NoRow)
  BY DEF SubmitClaimOnChain
<1>3. WorkersOK'
  BY <1>1, <1>2, GotoTyped, NoRowTyped DEF TypeInv
<1>4. worker[w].seen.trigger \in Triggers \cup {"none"} /\ chain \in Chain
  BY SeenTyped DEF TypeInv, OthersOK
<1>5. chain' \in Chain
  BY <1>4 DEF SubmitClaimOnChain, Filed, Chain, ChainStates
<1>6. UNCHANGED <<row, queues, processOthers>> /\ (NoFault \/ Fault)
  BY DEF SubmitClaimOnChain
<1>7. QueuesOK' /\ RowsOK'
  BY <1>6 DEF TypeInv, QueuesOK, RowsOK, queues
<1> QED BY <1>3, <1>5, <1>6, <1>7, OthersStay, FaultTyped

LEMMA CheckSubmittedTyped ==
  ASSUME TypeInv, NEW w \in Workers, CheckSubmitted(w)
  PROVE  TypeInv'
<1>1. ~At(w, "idle")
  BY DEF CheckSubmitted, At
<1>2. \/ Keep(w, "approve", NoRow) /\ UNCHANGED process_queue
      \/ Throw(w)
  BY DEF CheckSubmitted
<1>3. WorkersOK' /\ BagToSet(process_queue') \subseteq Job
  BY <1>1, <1>2, GotoTyped, NoRowTyped, ThrowTyped DEF TypeInv, QueuesOK
<1>4. UNCHANGED <<chain, row, payout_queue, processOthers>> /\ NoFault
  BY DEF CheckSubmitted
<1> QED BY <1>3, <1>4, OthersStay, FaultTyped DEF TypeInv, QueuesOK, RowsOK, OthersOK

LEMMA ApproveTyped ==
  ASSUME TypeInv, NEW w \in Workers, Approve(w)
  PROVE  TypeInv'
<1> DEFINE c == worker[w].job.claim
           r == [row[c] EXCEPT !.status = "approved"]
<1>1. ~At(w, "idle") /\ c \in Claims
  BY BusyJob DEF Approve, At, TypeInv, Job
<1>2. r \in Row
  BY <1>1, StatusNames DEF TypeInv, RowsOK, Row
<1>3. \/ Set(c, r) /\ Keep(w, "hand over", NoRow) /\ UNCHANGED process_queue
      \/ Throw(w) /\ UNCHANGED row
  BY DEF Approve
<1>4. WorkersOK' /\ BagToSet(process_queue') \subseteq Job /\ RowsOK'
  BY <1>1, <1>2, <1>3, RowSet, GotoTyped, NoRowTyped, ThrowTyped DEF TypeInv, QueuesOK, RowsOK
<1>5. UNCHANGED <<chain, payout_queue, processOthers, faults>>
  BY DEF Approve
<1> QED BY <1>4, <1>5, OthersStay DEF TypeInv, QueuesOK, OthersOK

LEMMA RequeueTyped ==
  ASSUME TypeInv, NEW w \in Workers, Requeue(w)
  PROVE  TypeInv'
<1> DEFINE job == worker[w].job
           queue == Adding(process_queue, Fresh(job.claim))
<1>1. ~At(w, "idle") /\ job \in Job /\ job.claim \in Claims
  BY BusyJob DEF Requeue, At, TypeInv, Job
<1>2. BagToSet(queue) \subseteq Job
  BY <1>1, AddingDomain, FreshJob DEF TypeInv, QueuesOK
<1>3. process_queue' = queue \/ process_queue' = Retrying(queue, job)
  BY DEF Requeue
<1>4. BagToSet(process_queue') \subseteq Job
  <2> HIDE DEF queue
  <2> QED BY <1>1, <1>2, <1>3, RetryingJobs
<1>5. Finish(w) /\ UNCHANGED <<chain, row, payout_queue, processOthers>> /\ (NoFault \/ Fault)
  BY DEF Requeue
<1> QED BY <1>4, <1>5, FinishTyped, OthersStay, FaultTyped DEF TypeInv, QueuesOK, RowsOK, OthersOK

LEMMA HandOverTyped ==
  ASSUME TypeInv, NEW w \in Workers, HandOver(w)
  PROVE  TypeInv'
<1>1. ~At(w, "idle") /\ worker[w].job.claim \in Claims
  BY BusyJob DEF HandOver, At, TypeInv, Job
<1>2. BagToSet(payout_queue') \subseteq Job
  <2>1. Fresh(worker[w].job.claim) \in Job
    BY <1>1, FreshJob
  <2>2. payout_queue' = Adding(payout_queue, Fresh(worker[w].job.claim))
    BY DEF HandOver
  <2> QED BY <2>1, <2>2, AddingDomain DEF TypeInv, QueuesOK
<1>3. (Finish(w) /\ UNCHANGED process_queue) \/ Throw(w)
  BY DEF HandOver
<1>4. WorkersOK' /\ BagToSet(process_queue') \subseteq Job
  BY <1>1, <1>3, FinishTyped, ThrowTyped DEF TypeInv, QueuesOK
<1>5. UNCHANGED <<chain, row, processOthers>> /\ (NoFault \/ Fault)
  BY DEF HandOver
<1> QED BY <1>2, <1>4, <1>5, OthersStay, FaultTyped DEF TypeInv, QueuesOK, RowsOK, OthersOK

LEMMA ProcessFailsTyped ==
  ASSUME TypeInv, NEW w \in Workers, ProcessFails(w)
  PROVE  TypeInv'
BY ThrowTyped, OthersStay, FaultTyped DEF ProcessFails, TypeInv, QueuesOK, RowsOK, OthersOK

LEMMA ProcessTyped ==
  ASSUME TypeInv, NEW w \in Workers, ProcessStep(w)
  PROVE  TypeInv'
BY TakeJobTyped, BeginTyped, VerifyTyped, SubmitTyped, CheckSubmittedTyped, ApproveTyped,
   RequeueTyped, HandOverTyped, ProcessFailsTyped DEF ProcessStep

-----------------------------------------------------------------------------
\* The payout worker (executePayout), step by step.
LEMMA PayoutOthersStay ==
  ASSUME TypeInv, PayerOK', BagToSet(payout_queue') \subseteq Job, RowsOK',
         UNCHANGED payoutOthers, faults' \in 0..MaxFaults
  PROVE  TypeInv'
BY DEF TypeInv, payoutOthers, QueuesOK, WorkersOK, At, IngestOK, OthersOK

LEMMA PayerDoneTyped == ASSUME PayoutDone PROVE PayerOK'
BY IdleTyped DEF PayoutDone, PayerOK, Idle

LEMMA PayerGoesTyped ==
  ASSUME PayerOK, payer.pc # "idle",
         NEW pc \in {"gates", "settle", "record", "read back", "locked", "defer"},
         payer' = [payer EXCEPT !.pc = pc]
  PROVE  PayerOK'
BY DEF PayerOK, Slot

LEMMA PayerBusy ==
  ASSUME TypeInv, payer.pc # "idle"
  PROVE  /\ payer.job \in Job /\ payer.job.claim \in Claims /\ row[payer.job.claim] \in Row
         /\ payer.seen \in Row /\ payer.seen.data \in Data
<1>1. payer.job \in Job /\ payer.seen \in Row
  BY DEF TypeInv, PayerOK, Slot
<1> QED BY <1>1 DEF TypeInv, RowsOK, Row, Job

LEMMA TakePayoutTyped ==
  ASSUME TypeInv, NEW job \in BagToSet(payout_queue), TakePayout(job)
  PROVE  TypeInv'
<1> DEFINE c == job.claim
           r == row[c]
           s == [pc |-> "gates", job |-> job, seen |-> r]
           x == [r EXCEPT !.status = "rejected"]
<1>1. job \in Job /\ c \in Claims
  BY DEF TypeInv, QueuesOK, Job
<1>2. r \in Row
  BY <1>1 DEF TypeInv, RowsOK
<1>3. x \in Row
  BY <1>2, StatusNames DEF Row
<1>4. s \in Slot("gates")
  BY <1>1, <1>2 DEF Slot
<1>5. \/ UNCHANGED <<row, payer>>
      \/ Set(c, x) /\ UNCHANGED payer
      \/ payer' = s /\ UNCHANGED row
  BY DEF TakePayout
<1>6. PayerOK' /\ RowsOK'
  BY <1>1, <1>3, <1>4, <1>5, RowSet DEF TypeInv, PayerOK, RowsOK
<1>7. BagToSet(payout_queue') \subseteq Job
  BY RemovingDomain DEF TakePayout, TypeInv, QueuesOK
<1>8. UNCHANGED <<payoutOthers, faults>>
  BY DEF TakePayout
<1> QED BY <1>6, <1>7, <1>8, PayoutOthersStay DEF TypeInv, OthersOK

LEMMA PayoutGatesTyped ==
  ASSUME TypeInv, PayoutGates
  PROVE  TypeInv'
<1> DEFINE c == payer.job.claim
           x == [row[c] EXCEPT !.status = "review", !.reason = "other", !.data = payer.seen.data]
           y == [row[c] EXCEPT !.status = "paying"]
<1>1. payer.pc # "idle"
  BY DEF PayoutGates
<1>2. x \in Row /\ y \in Row /\ c \in Claims /\ payer.job \in Job
  BY <1>1, PayerBusy, StatusNames DEF Row
<1>3. \/ /\ payer' = [payer EXCEPT !.pc = "settle"]
         /\ row' = [row EXCEPT ![c].status = "paying"] \/ UNCHANGED row
         /\ UNCHANGED payout_queue
      \/ Set(c, x) /\ PayoutDone /\ UNCHANGED payout_queue
      \/ payout_queue' = Retrying(payout_queue, payer.job) /\ PayoutDone /\ UNCHANGED row
  BY DEF PayoutGates
<1>4. row' = [row EXCEPT ![c].status = "paying"] => Set(c, y)
  BY DEF Set
<1>5. PayerOK' /\ RowsOK' /\ BagToSet(payout_queue') \subseteq Job
  <2> HIDE DEF x, y
  <2> QED BY <1>1, <1>2, <1>3, <1>4, PayerDoneTyped, PayerGoesTyped, RowSet, RetryingJobs
          DEF TypeInv, RowsOK, QueuesOK
<1>6. UNCHANGED <<payoutOthers, faults>>
  BY DEF PayoutGates
<1> QED BY <1>5, <1>6, PayoutOthersStay DEF TypeInv, OthersOK

LEMMA SettleTyped ==
  ASSUME TypeInv, Settle
  PROVE  TypeInv'
<1>1. payer.pc # "idle"
  BY DEF Settle
<1>2. \E pc \in {"record", "read back", "locked"} : payer' = [payer EXCEPT !.pc = pc]
  BY DEF Settle
<1>3. PayerOK'
  BY <1>1, <1>2, PayerGoesTyped DEF TypeInv
<1>4. chain' \in Chain
  BY DEF Settle, TypeInv, OthersOK, Chain, ChainStates
<1>5. UNCHANGED <<insured, row, queues, worker, ingest, listing, alerts, taken>>
        /\ (NoFault \/ Fault)
  BY DEF Settle
<1> QED BY <1>3, <1>4, <1>5, FaultTyped
        DEF TypeInv, queues, QueuesOK, WorkersOK, At, IngestOK, OthersOK, RowsOK

LEMMA RecordPaidTyped ==
  ASSUME TypeInv, RecordPaid
  PROVE  TypeInv'
<1> DEFINE c == payer.job.claim
           x == [row[c] EXCEPT !.status = "paid"]
<1>1. payer.pc # "idle"
  BY DEF RecordPaid
<1>2. x \in Row /\ c \in Claims
  BY <1>1, PayerBusy, StatusNames DEF Row
<1>3. \/ Set(c, x) /\ PayoutDone
      \/ payer' = [payer EXCEPT !.pc = "read back"] /\ UNCHANGED row
  BY DEF RecordPaid
<1>4. PayerOK' /\ RowsOK'
  BY <1>1, <1>2, <1>3, PayerDoneTyped, PayerGoesTyped, RowSet DEF TypeInv, RowsOK
<1>5. UNCHANGED <<payoutOthers, payout_queue>> /\ (NoFault \/ Fault)
  BY DEF RecordPaid
<1> QED BY <1>4, <1>5, PayoutOthersStay, FaultTyped DEF TypeInv, QueuesOK

LEMMA PayoutErrorTyped ==
  ASSUME TypeInv, PayoutError
  PROVE  TypeInv'
<1> DEFINE c == payer.job.claim
           d == payer.seen.data
           e == [d EXCEPT !.deferrals = d.deferrals + 1]
           x == [row[c] EXCEPT !.status = "paid", !.data = d]
           y == [row[c] EXCEPT !.data = e]
           z == [row[c] EXCEPT !.status = "review", !.reason = "other", !.data = d]
           f == [row[c] EXCEPT !.status = "failed", !.data = d]
<1>1. payer.pc # "idle"
  BY DEF PayoutError
<1>2. c \in Claims /\ payer.job \in Job /\ row[c] \in Row /\ d \in Data
  BY <1>1, PayerBusy
<1>3. x \in Row /\ z \in Row /\ f \in Row
  BY <1>2, StatusNames DEF Row
<1>4. d.deferrals < DEFERRALS => e \in Data
  BY <1>2, KeeperAssumption DEF Data
<1>5. d.deferrals < DEFERRALS => y \in Row
  BY <1>2, <1>4 DEF Row
<1>6. \/ Set(c, x) /\ PayoutDone /\ UNCHANGED payout_queue
      \/ d.deferrals < DEFERRALS /\ Set(c, y) /\ payer' = [payer EXCEPT !.pc = "defer"]
           /\ UNCHANGED payout_queue
      \/ Set(c, z) /\ PayoutDone /\ UNCHANGED payout_queue
      \/ payout_queue' = Retrying(payout_queue, payer.job) /\ PayoutDone /\ UNCHANGED row
      \/ Set(c, f) /\ payout_queue' = Retrying(payout_queue, payer.job) /\ PayoutDone
  BY DEF PayoutError
<1>7. PayerOK' /\ RowsOK' /\ BagToSet(payout_queue') \subseteq Job
  <2> HIDE DEF x, y, z, f, d, e
  <2> QED BY <1>1, <1>2, <1>3, <1>5, <1>6, PayerDoneTyped, PayerGoesTyped, RowSet, RetryingJobs
          DEF TypeInv, RowsOK, QueuesOK
<1>8. UNCHANGED payoutOthers /\ (NoFault \/ Fault)
  BY DEF PayoutError
<1> QED BY <1>7, <1>8, PayoutOthersStay, FaultTyped

LEMMA DeferTyped ==
  ASSUME TypeInv, Defer
  PROVE  TypeInv'
<1>1. payer.job.claim \in Claims
  BY PayerBusy DEF Defer
<1>2. BagToSet(payout_queue') \subseteq Job
  BY <1>1, AddingDomain, FreshJob DEF Defer, TypeInv, QueuesOK
<1> QED BY <1>2, PayerDoneTyped, PayoutOthersStay DEF Defer, TypeInv, RowsOK, OthersOK

LEMMA PayoutFailsTyped ==
  ASSUME TypeInv, PayoutFails
  PROVE  TypeInv'
<1>1. payer.job \in Job
  BY PayerBusy DEF PayoutFails
<1>2. BagToSet(payout_queue') \subseteq Job
  BY <1>1, RetryingJobs DEF PayoutFails, TypeInv, QueuesOK
<1> QED BY <1>2, PayerDoneTyped, PayoutOthersStay, FaultTyped DEF PayoutFails, TypeInv, RowsOK

LEMMA PayoutTyped ==
  ASSUME TypeInv, PayoutStep
  PROVE  TypeInv'
BY TakePayoutTyped, PayoutGatesTyped, SettleTyped, RecordPaidTyped, PayoutErrorTyped,
   DeferTyped, PayoutFailsTyped DEF PayoutStep

-----------------------------------------------------------------------------
\* The alert handler (handleAlert), the indexer's writes, the chain, a crash.
LEMMA AlertOpensTyped ==
  ASSUME TypeInv, NEW t \in AlertKinds, NEW c \in Claims, AlertOpensClaim(t, c)
  PROVE  TypeInv'
<1> DEFINE n == NewRow(t, "pending")
           s == [Idle EXCEPT !.pc = "enqueue", !.job = Fresh(c)]
<1>1. n \in Row
  BY NoRowTyped, StatusNames, KeeperAssumption DEF NewRow, Row
<1>2. s \in Slot("supersede") /\ s.job \in Job
  BY IdleTyped, FreshJob DEF Slot, Idle
<1>3. RowsOK'
  BY <1>1, RowSet DEF AlertOpensClaim, TypeInv
<1>4. alerts' \in 0..MaxAlerts
  BY KeeperAssumption DEF AlertOpensClaim, TypeInv, OthersOK
<1>5. IngestOK'
  BY <1>2 DEF AlertOpensClaim, IngestOK
<1>6. UNCHANGED <<chain, insured, queues, worker, payer, listing, faults, taken>>
  BY DEF AlertOpensClaim
<1> QED BY <1>3, <1>4, <1>5, <1>6
        DEF TypeInv, queues, QueuesOK, WorkersOK, At, PayerOK, OthersOK

LEMMA AlertFindsTyped ==
  ASSUME TypeInv, NEW t \in AlertKinds, NEW c \in Claims, NEW other_tx \in BOOLEAN,
         AlertFindsParked(t, c, other_tx)
  PROVE  TypeInv'
<1> DEFINE seen == [row[c] EXCEPT !.trigger = t]
           s == [pc |-> "supersede", job |-> Fresh(c), seen |-> seen]
<1>1. seen \in Row
  BY KeeperAssumption DEF TypeInv, RowsOK, Row
<1>2. s \in Slot("supersede") /\ s.job \in Job
  BY <1>1, FreshJob DEF Slot
<1>4. alerts' \in 0..MaxAlerts
  BY KeeperAssumption DEF AlertFindsParked, TypeInv, OthersOK
<1>5. IngestOK'
  BY <1>2 DEF AlertFindsParked, IngestOK
<1>6. UNCHANGED <<chain, insured, row, queues, worker, payer, listing, faults, taken>>
  BY DEF AlertFindsParked
<1> QED BY <1>4, <1>5, <1>6
        DEF TypeInv, queues, QueuesOK, WorkersOK, At, PayerOK, OthersOK, RowsOK

LEMMA SupersedeTyped ==
  ASSUME TypeInv, Supersede
  PROVE  TypeInv'
<1> DEFINE c == ingest.job.claim
           n == ingest.seen.data.supersedes + 1
           x == [row[c] EXCEPT !.status = "review", !.reason = "other"]
           y == Superseded(row[c], ingest.seen.trigger, n)
           s == [ingest EXCEPT !.pc = "enqueue"]
<1>1. ingest.job \in Job /\ c \in Claims /\ ingest.seen \in Row
  BY DEF Supersede, TypeInv, IngestOK, Slot, Job
<1>2. row[c] \in Row /\ ingest.seen.data \in Data
  BY <1>1 DEF TypeInv, RowsOK, Row
<1>3. x \in Row
  BY <1>2, StatusNames DEF Row
<1>4. ~CapReached(n) => y \in Row
  <2> DEFINE d == [NoData EXCEPT !.supersedes = n]
  <2>1. ingest.seen.data.supersedes \in 0..MAX_SUPERSEDES
    BY <1>2 DEF Data
  <2>2. ~CapReached(n) => n \in 0..MAX_SUPERSEDES
    BY <2>1, KeeperAssumption DEF CapReached
  <2>3. ~CapReached(n) => d \in Data
    <3>1. NoData \in Data
      BY NoRowTyped DEF NoRow, Row
    <3> HIDE DEF n
    <3> QED BY <2>2, <3>1 DEF Data
  <2>4. ingest.seen.trigger \in Triggers \cup {"none"} /\ ingest.seen.verify_attempts \in Nat
    BY <1>1 DEF Row
  <2>5. y = [row[c] EXCEPT !.trigger = ingest.seen.trigger, !.status = "pending", !.reason = "none",
                    !.verify_attempts = ingest.seen.verify_attempts, !.data = d]
    BY DEF Superseded
  <2>6. "pending" \in Statuses /\ "none" \in Reasons
    BY StatusNames
  <2> HIDE DEF d, y
  <2> QED BY <1>2, <2>3, <2>4, <2>5, <2>6 DEF Row
<1>5. s \in Slot("supersede") /\ s.job \in Job
  BY <1>1 DEF TypeInv, IngestOK, Slot
<1>6. \/ Set(c, x) /\ ingest' = Idle /\ UNCHANGED taken
      \/ ~CapReached(n) /\ Set(c, y) /\ ingest' = s /\ taken' \in {taken, taken \cup {c}}
      \/ ingest' = Idle /\ UNCHANGED <<row, taken>>
  BY DEF Supersede
<1>7. RowsOK' /\ IngestOK' /\ taken' \subseteq Claims
  <2>1. Idle \in Slot("supersede") /\ Idle.pc = "idle" /\ Idle.job = NoJob
    BY IdleTyped DEF Idle
  <2>2. taken' \subseteq Claims
    BY <1>1, <1>6 DEF TypeInv, OthersOK
  <2> HIDE DEF x, y, s, n
  <2>3. RowsOK'
    BY <1>1, <1>3, <1>4, <1>6, RowSet DEF TypeInv, RowsOK
  <2>4. s.pc # "idle"
    BY DEF TypeInv, IngestOK, Slot, s
  <2>5. IngestOK'
    BY <1>5, <1>6, <2>1, <2>4 DEF IngestOK
  <2> QED BY <2>2, <2>3, <2>5
<1>8. UNCHANGED <<chain, insured, queues, worker, payer, listing, alerts, faults>>
  BY DEF Supersede
<1> QED BY <1>7, <1>8 DEF TypeInv, queues, QueuesOK, WorkersOK, At, PayerOK, OthersOK

LEMMA EnqueueTyped ==
  ASSUME TypeInv, Enqueue
  PROVE  TypeInv'
<1>1. ingest.job \in Job
  BY DEF Enqueue, TypeInv, IngestOK
<1>2. BagToSet(process_queue') \subseteq Job
  BY <1>1, AddingDomain DEF Enqueue, TypeInv, QueuesOK
<1>3. IngestOK'
  BY IdleTyped DEF Enqueue, IngestOK, Idle
<1> QED BY <1>2, <1>3 DEF Enqueue, TypeInv, QueuesOK, WorkersOK, At, PayerOK, OthersOK, RowsOK

LEMMA IndexerTyped ==
  ASSUME TypeInv, IndexerLists \/ IndexerWrites
  PROVE  TypeInv'
<1>1. CASE IndexerLists
  <2>1. listing' \in Chain
    BY <1>1 DEF IndexerLists, TypeInv, OthersOK, Chain
  <2> QED BY <1>1, <2>1 DEF IndexerLists, TypeInv, queues, QueuesOK, WorkersOK, At, PayerOK,
             IngestOK, OthersOK, RowsOK
<1>2. CASE IndexerWrites
  <2> DEFINE n == NewRow(listing.trigger, "approved")
  <2>1. n \in Row
    <3>1. listing.trigger \in Triggers \cup {"none"}
      BY <1>2 DEF IndexerWrites, TypeInv, OthersOK, Chain
    <3> QED BY <3>1, NoRowTyped, StatusNames DEF NewRow, Row
  <2>2. (\E c \in Claims : Set(c, n)) \/ UNCHANGED row
    BY <1>2 DEF IndexerWrites
  <2>3. RowsOK'
    <3> HIDE DEF n
    <3> QED BY <2>1, <2>2, RowSet DEF TypeInv, RowsOK
  <2> QED BY <1>2, <2>3 DEF IndexerWrites, TypeInv, queues, QueuesOK, WorkersOK, At, PayerOK,
             IngestOK, OthersOK
<1> QED BY <1>1, <1>2

LEMMA ChainTyped ==
  ASSUME TypeInv, ChainStep
  PROVE  TypeInv'
<1>1. chain' \in Chain
  <2>1. chain \in Chain
    BY DEF TypeInv, OthersOK
  <2>2. CASE \E t \in AlertKinds : HolderFiles(t)
    BY <2>1, <2>2, KeeperAssumption DEF HolderFiles, Filed, Chain, ChainStates
  <2>3. CASE LockElapses \/ PolicyCloses
    BY <2>1, <2>3 DEF LockElapses, PolicyCloses, Chain, ChainStates
  <2> QED BY <2>2, <2>3 DEF ChainStep
<1> QED BY <1>1 DEF ChainStep, TypeInv, queues, QueuesOK, WorkersOK, At, PayerOK,
           IngestOK, OthersOK, RowsOK

LEMMA StalledJobs == ASSUME WorkersOK PROVE BagToSet(Stalled) \subseteq Job
<1> DEFINE F(w) == [worker[w].job EXCEPT !.tries = @ + 1]
           S == {w \in Workers : ~At(w, "idle") /\ worker[w].job.tries + 1 < ATTEMPTS}
<1>1. BagToSet(Stalled) = {F(w) : w \in S}
  BY DEF Stalled, BagOfAll, BagToSet, SetToBag
<1>2. ASSUME NEW w \in S PROVE F(w) \in Job
  BY <1>2, BusyJob, RetriedJob
<1> QED BY <1>1, <1>2

LEMMA CrashTyped ==
  ASSUME TypeInv, Crash
  PROVE  TypeInv'
<1>1. BagToSet(process_queue') = BagToSet(process_queue) \cup BagToSet(Stalled)
  BY DEF Crash, (+), BagToSet
<1>2. BagToSet(payout_queue') \subseteq Job
  BY PayerBusy, RetryingJobs DEF Crash, TypeInv, QueuesOK
<1>3. QueuesOK'
  BY <1>1, <1>2, StalledJobs DEF TypeInv, QueuesOK
<1>4. WorkersOK'
  BY IdleTyped DEF Crash, WorkersOK, At, Idle
<1>5. PayerOK' /\ IngestOK'
  BY IdleTyped DEF Crash, PayerOK, IngestOK, Idle
<1>6. faults' \in 0..MaxFaults
  BY FaultTyped DEF Crash
<1> QED BY <1>3, <1>4, <1>5, <1>6 DEF Crash, TypeInv, OthersOK, RowsOK

\* The initial states, and every step.
LEMMA TypeInit == Init => TypeInv
BY IdleTyped, NoRowTyped, KeeperAssumption
   DEF Init, TypeInv, WorkersOK, At, Idle, QueuesOK, EmptyBag, SetToBag, BagToSet, RowsOK,
       PayerOK, IngestOK, OthersOK, Chain, ChainStates

LEMMA TypeStep == TypeInv /\ [Next]_vars => TypeInv'
<1> SUFFICES ASSUME TypeInv, [Next]_vars PROVE TypeInv'
  OBVIOUS
<1>1. CASE UNCHANGED vars
  BY <1>1 DEF vars, queues, TypeInv, QueuesOK, WorkersOK, At, PayerOK, IngestOK, OthersOK, RowsOK
<1>2. CASE IngestStep
  BY <1>2, AlertOpensTyped, AlertFindsTyped, SupersedeTyped, EnqueueTyped DEF IngestStep
<1> QED BY <1>1, <1>2, ProcessTyped, PayoutTyped, IndexerTyped, ChainTyped, CrashTyped DEF Next

LEMMA TypeInvariance == Spec => []TypeInv
BY TypeInit, TypeStep, PTL DEF Spec

\* Rows, jobs, slots and queues keep their types: every worker that is at work
\* holds a job of a row, whatever fails and whoever writes in between
\* (claim-keeper.ts, policy-indexer.ts).
THEOREM KeeperTypeCorrect == Spec => []KeeperTypeOK
<1>1. TypeInv => KeeperTypeOK
  BY DEF TypeInv, KeeperTypeOK, WorkersOK, QueuesOK, RowsOK, PayerOK, IngestOK, OthersOK
<1> QED BY <1>1, TypeInvariance, PTL

-----------------------------------------------------------------------------
\* What makes PaidMeansPaid inductive: the payout worker writes "paid" from
\* "record", which it reaches only when the chain has paid.
PaidInv == PaidMeansPaid /\ (payer.pc = "record" => chain.state = "ClaimPaid")

\* A step that writes no "paid" over a row, and leaves the chain paid.
LEMMA PaidStays ==
  ASSUME PaidInv,
         \A c \in Claims : row'[c].status = "paid" => row[c].status = "paid",
         payer'.pc = "record" => payer.pc = "record",
         chain.state = "ClaimPaid" => chain'.state = "ClaimPaid"
  PROVE  PaidInv'
BY DEF PaidInv, PaidMeansPaid

\* A write of another status to one row.
LEMMA PaidAfterSet ==
  ASSUME TypeInv, NEW c \in Claims, NEW r, Set(c, r), r.status # "paid" \/ r.status = row[c].status
  PROVE  \A d \in Claims : row'[d].status = "paid" => row[d].status = "paid"
BY DEF TypeInv, RowsOK, Set

\* The process worker writes "paid" only over what it read back as paid.
LEMMA ProcessPays ==
  ASSUME TypeInv, PaidInv, NEW w \in Workers, ProcessStep(w)
  PROVE  PaidInv'
<1> DEFINE c == worker[w].job.claim
           NoPaid == \A d \in Claims : row'[d].status = "paid" => row[d].status = "paid"
<1>1. payer' = payer
  BY DEF ProcessStep, TakeJob, Begin, Verify, SubmitClaimOnChain, CheckSubmitted, Approve,
         Requeue, HandOver, ProcessFails, processOthers
<1>2. chain.state = "ClaimPaid" => chain'.state = "ClaimPaid"
  BY DEF ProcessStep, TakeJob, Begin, Verify, SubmitClaimOnChain, CheckSubmitted, Approve,
         Requeue, HandOver, ProcessFails
<1>3. ASSUME UNCHANGED row PROVE NoPaid
  BY <1>3
<1>4. ~At(w, "idle") => c \in Claims /\ row[c] \in Row
  BY BusyJob DEF TypeInv, Job, RowsOK
<1>5. ASSUME Begin(w) PROVE NoPaid
  <2> DEFINE r == [row[c] EXCEPT !.status = "verifying"]
  <2>1. Set(c, r) \/ UNCHANGED row
    BY <1>5 DEF Begin
  <2>2. c \in Claims /\ r.status # "paid"
    BY <1>4, <1>5 DEF Begin, At, Row
  <2> HIDE DEF r
  <2> QED BY <2>1, <2>2, <1>3, PaidAfterSet
<1>6. ASSUME Verify(w) PROVE NoPaid
  <2> DEFINE seen == worker[w].seen
  <2>1. c \in Claims /\ row[c] \in Row
    BY <1>4, <1>6 DEF Verify, At
  <2>2. ASSUME NEW reason, Park(w, reason) PROVE NoPaid
    <3> DEFINE status == IF seen.verify_attempts + 1 < MAX_VERIFY_ATTEMPTS THEN "indeterminate" ELSE "review"
               r == [row[c] EXCEPT !.status = status, !.reason = reason,
                                   !.verify_attempts = seen.verify_attempts + 1,
                                   !.data = seen.data]
    <3>1. Set(c, r)
      BY <2>2 DEF Park
    <3>2. r.status # "paid"
      BY <2>1 DEF Row
    <3> HIDE DEF r
    <3> QED BY <2>1, <3>1, <3>2, PaidAfterSet
  <2>3. ASSUME Reject(w) PROVE NoPaid
    <3> DEFINE r == [row[c] EXCEPT !.status = "rejected", !.data = seen.data]
    <3>1. Set(c, r) /\ r.status # "paid"
      BY <2>1, <2>3 DEF Reject, Row
    <3> HIDE DEF r
    <3> QED BY <2>1, <3>1, PaidAfterSet
  <2>4. ASSUME NEW reason, EscalateToReview(w, reason) PROVE NoPaid
    <3> DEFINE r == [row[c] EXCEPT !.status = "review", !.reason = reason, !.data = seen.data]
    <3>1. Set(c, r) /\ r.status # "paid"
      BY <2>1, <2>4 DEF EscalateToReview, Row
    <3> HIDE DEF r
    <3> QED BY <2>1, <3>1, PaidAfterSet
  <2>5. ASSUME ReattributeToAgentError(w) PROVE NoPaid
    <3> DEFINE r == [row[c] EXCEPT !.trigger = AgentError, !.status = "pending",
                              !.data = [seen.data EXCEPT !.reattributed = TRUE]]
    <3>1. Set(c, r)
      BY <2>5 DEF ReattributeToAgentError
    <3>2. r.status # "paid"
      BY <2>1 DEF Row
    <3> HIDE DEF r
    <3> QED BY <2>1, <3>1, <3>2, PaidAfterSet
  <2>6. ASSUME NEW hashed, Confirm(w, hashed) PROVE NoPaid
    <3> DEFINE r == [row[c] EXCEPT
                  !.payable = TRUE, !.reason = "none",
                  !.verify_attempts = seen.verify_attempts + 1,
                  !.data = [seen.data EXCEPT !.hashed = TRUE]]
    <3>1. Set(c, r)
      BY <2>6 DEF Confirm
    <3>2. r.status = row[c].status
      BY <2>1 DEF Row
    <3> HIDE DEF r
    <3> QED BY <2>1, <3>1, <3>2, PaidAfterSet
  <2> HIDE DEF NoPaid
  <2> QED BY <1>3, <1>6, <2>2, <2>3, <2>4, <2>5, <2>6 DEF Verify
<1>7. ASSUME Approve(w) PROVE NoPaid
  <2> DEFINE r == [row[c] EXCEPT !.status = "approved"]
  <2>1. Set(c, r) \/ UNCHANGED row
    BY <1>7 DEF Approve
  <2>2. c \in Claims /\ r.status # "paid"
    BY <1>4, <1>7 DEF Approve, At, Row
  <2> HIDE DEF r
  <2> QED BY <2>1, <2>2, <1>3, PaidAfterSet
<1>8. NoPaid
  BY <1>3, <1>5, <1>6, <1>7
     DEF ProcessStep, TakeJob, SubmitClaimOnChain, CheckSubmitted, Requeue, HandOver, ProcessFails
<1> QED BY <1>1, <1>2, <1>8, PaidStays

\* The payout worker writes it only after the chain's answer.
LEMMA PayerGoes ==
  ASSUME PayerOK, NEW pc, payer' = [payer EXCEPT !.pc = pc]
  PROVE  payer'.pc = pc
BY DEF PayerOK, Slot

LEMMA PayoutPays ==
  ASSUME TypeInv, PaidInv, PayoutStep
  PROVE  PaidInv'
<1> DEFINE c == payer.job.claim
           d == payer.seen.data
           NoPaid == \A e \in Claims : row'[e].status = "paid" => row[e].status = "paid"
<1>1. ASSUME UNCHANGED row PROVE NoPaid
  BY <1>1
<1>2. CASE \E job \in BagToSet(payout_queue) : TakePayout(job)
  <2> PICK job \in BagToSet(payout_queue) : TakePayout(job)
    BY <1>2
  <2> DEFINE r == [row[job.claim] EXCEPT !.status = "rejected"]
  <2>1. job.claim \in Claims
    BY DEF TypeInv, QueuesOK, Job
  <2>2. r.status # "paid"
    BY <2>1 DEF TypeInv, RowsOK, Row
  <2>3. Set(job.claim, r) \/ UNCHANGED row
    BY DEF TakePayout
  <2>4. NoPaid
    <3> HIDE DEF r
    <3> QED BY <1>1, <2>1, <2>2, <2>3, PaidAfterSet
  <2>5. payer'.pc = "record" => payer.pc = "record"
    BY DEF TakePayout
  <2>6. chain' = chain
    BY DEF TakePayout, payoutOthers
  <2> QED BY <2>4, <2>5, <2>6, PaidStays
<1>3. CASE PayoutGates
  <2>1. c \in Claims /\ row[c] \in Row
    BY <1>3, PayerBusy DEF PayoutGates
  <2> DEFINE r == [row[c] EXCEPT !.status = "review", !.reason = "other", !.data = d]
             q == [row[c] EXCEPT !.status = "paying"]
  <2>2. r.status # "paid" /\ q.status # "paid"
    BY <2>1 DEF Row
  <2>3. row' = [row EXCEPT ![c].status = "paying"] => Set(c, q)
    BY DEF Set
  <2>4. Set(c, r) \/ Set(c, q) \/ UNCHANGED row
    BY <1>3, <2>3 DEF PayoutGates
  <2>5. NoPaid
    <3> HIDE DEF r, q
    <3> QED BY <1>1, <2>1, <2>2, <2>4, PaidAfterSet
  <2>6. payer'.pc = "record" => payer.pc = "record"
    <3>1. payer' = [payer EXCEPT !.pc = "settle"] \/ payer' = Idle
      BY <1>3 DEF PayoutGates, PayoutDone
    <3> QED BY <3>1, PayerGoes DEF Idle, TypeInv
  <2>7. chain' = chain
    BY <1>3 DEF PayoutGates, payoutOthers
  <2> QED BY <2>5, <2>6, <2>7, PaidStays
<1>4. CASE Settle
  <2>1. row' = row
    BY <1>4 DEF Settle
  <2>2. chain.state = "ClaimPaid" => chain'.state = "ClaimPaid"
    BY <1>4 DEF Settle
  <2>3. payer'.pc = "record" => chain'.state = "ClaimPaid"
    BY <1>4 DEF Settle, TypeInv, PayerOK, Slot, OthersOK, Chain
  <2> QED BY <2>1, <2>2, <2>3 DEF PaidInv, PaidMeansPaid
<1>5. CASE RecordPaid
  <2>1. chain.state = "ClaimPaid" /\ chain' = chain
    BY <1>5 DEF RecordPaid, payoutOthers, PaidInv
  <2> QED BY <2>1 DEF PaidInv, PaidMeansPaid
<1>6. CASE PayoutError
  <2>1. chain' = chain
    BY <1>6 DEF PayoutError, payoutOthers
  <2>2. CASE SettledOnChain
    BY <2>1, <2>2 DEF SettledOnChain, PaidInv, PaidMeansPaid
  <2>3. CASE ~SettledOnChain
    <3> DEFINE y == [row[c] EXCEPT !.data = [d EXCEPT !.deferrals = d.deferrals + 1]]
               z == [row[c] EXCEPT !.status = "review", !.reason = "other", !.data = d]
               f == [row[c] EXCEPT !.status = "failed", !.data = d]
    <3>1. c \in Claims /\ row[c] \in Row
      BY <1>6, PayerBusy DEF PayoutError
    <3>2. y.status = row[c].status /\ z.status # "paid" /\ f.status # "paid"
      BY <3>1 DEF Row
    <3>3. Set(c, y) \/ Set(c, z) \/ Set(c, f) \/ UNCHANGED row
      BY <1>6, <2>3 DEF PayoutError
    <3>4. NoPaid
      <4> HIDE DEF y, z, f
      <4> QED BY <1>1, <3>1, <3>2, <3>3, PaidAfterSet
    <3>5. payer'.pc = "record" => payer.pc = "record"
      <4>1. payer' = [payer EXCEPT !.pc = "defer"] \/ payer' = Idle
        BY <1>6, <2>3 DEF PayoutError, PayoutDone
      <4> QED BY <4>1, PayerGoes DEF Idle, TypeInv
    <3> QED BY <2>1, <3>4, <3>5, PaidStays
  <2> QED BY <2>2, <2>3
<1>7. CASE Defer \/ PayoutFails
  <2>1. row' = row /\ chain' = chain /\ payer' = Idle
    BY <1>7 DEF Defer, PayoutFails, PayoutDone, payoutOthers
  <2> QED BY <2>1 DEF Idle, PaidInv, PaidMeansPaid
<1> QED BY <1>2, <1>3, <1>4, <1>5, <1>6, <1>7 DEF PayoutStep

\* Nobody else writes it unless the chain has paid.
LEMMA OthersPay ==
  ASSUME TypeInv, PaidInv, IngestStep \/ IndexerLists \/ IndexerWrites \/ ChainStep \/ Crash
  PROVE  PaidInv'
<1> DEFINE NoPaid == \A e \in Claims : row'[e].status = "paid" => row[e].status = "paid"
<1>1. payer'.pc = "record" => payer.pc = "record"
  <2>1. payer' = payer \/ payer' = Idle
    BY DEF IngestStep, AlertOpensClaim, AlertFindsParked, Supersede, Enqueue, IndexerLists,
           IndexerWrites, ChainStep, Crash
  <2> QED BY <2>1 DEF Idle
<1>2. chain.state = "ClaimPaid" => chain'.state = "ClaimPaid"
  BY DEF IngestStep, AlertOpensClaim, AlertFindsParked, Supersede, Enqueue, IndexerLists,
         IndexerWrites, ChainStep, HolderFiles, LockElapses, PolicyCloses, Crash
<1>3. ASSUME UNCHANGED row PROVE NoPaid
  BY <1>3
<1>4. ASSUME NEW t, NEW status, status # "paid", NEW c \in Claims, Set(c, NewRow(t, status))
      PROVE  NoPaid
  <2> DEFINE r == NewRow(t, status)
  <2>1. r.status # "paid"
    BY <1>4 DEF NewRow, NoRow
  <2>2. Set(c, r)
    BY <1>4
  <2> HIDE DEF r
  <2> QED BY <2>1, <2>2, PaidAfterSet
<1>5. ASSUME Supersede PROVE NoPaid
  <2> DEFINE c == ingest.job.claim
             n == ingest.seen.data.supersedes + 1
             x == [row[c] EXCEPT !.status = "review", !.reason = "other"]
             y == Superseded(row[c], ingest.seen.trigger, n)
  <2>1. c \in Claims
    BY <1>5 DEF Supersede, TypeInv, IngestOK, Job
  <2>2. x.status # "paid" /\ y.status # "paid"
    BY <2>1 DEF TypeInv, RowsOK, Row, Superseded
  <2>3. Set(c, x) \/ Set(c, y) \/ UNCHANGED row
    BY <1>5 DEF Supersede
  <2> HIDE DEF x, y
  <2> QED BY <1>3, <2>1, <2>2, <2>3, PaidAfterSet
<1>6. NoPaid
  <2>1. CASE IngestStep
    <3> HIDE DEF NoPaid
    <3> QED BY <2>1, <1>3, <1>4, <1>5 DEF IngestStep, AlertOpensClaim, AlertFindsParked, Enqueue
  <2>2. CASE IndexerWrites
    <3> HIDE DEF NoPaid
    <3> QED BY <2>2, <1>3, <1>4 DEF IndexerWrites
  <2>3. CASE IndexerLists \/ ChainStep \/ Crash
    BY <2>3, <1>3 DEF IndexerLists, ChainStep, Crash
  <2> QED BY <2>1, <2>2, <2>3
<1> QED BY <1>1, <1>2, <1>6, PaidStays

\* The initial states, and every step.
LEMMA PaidInit == Init => PaidInv
BY DEF Init, PaidInv, PaidMeansPaid, Idle, NoRow

LEMMA PaidStep == TypeInv /\ PaidInv /\ [Next]_vars => PaidInv'
<1> SUFFICES ASSUME TypeInv, PaidInv, [Next]_vars PROVE PaidInv'
  OBVIOUS
<1>1. CASE UNCHANGED vars
  BY <1>1 DEF vars, PaidInv, PaidMeansPaid
<1> QED BY <1>1, ProcessPays, PayoutPays, OthersPay DEF Next

\* A row says "paid" only once the program has paid the policy (executePayout's
\* last write, the indexer's mirror), through crashes and failed calls.
THEOREM PaidOnlyAfterThePayout == Spec => []PaidMeansPaid
<1>1. PaidInv => PaidMeansPaid
  BY DEF PaidInv
<1>2. Spec => []PaidInv
  BY PaidInit, PaidStep, TypeInvariance, PTL DEF Spec
<1> QED BY <1>1, <1>2, PTL
-----------------------------------------------------------------------------
\* A queue holds no job of a claim, or one; no slot works on it, or one.
NoneFor(queue, c) == \A job \in BagToSet(queue) : job.claim # c
OneFor(queue, c) ==
  \E job \in BagToSet(queue) :
    /\ job.claim = c /\ queue[job] = 1
    /\ \A other \in BagToSet(queue) : other.claim = c => other = job
NobodyOn(c, slots) == \A w \in Workers : slots[w].job.claim # c
SomeoneOn(c, slots) ==
  \E w \in Workers :
    /\ slots[w].job.claim = c
    /\ \A v \in Workers : slots[v].job.claim = c => v = w
PayerOn(c)  == payer.job.claim = c
IngestOn(c) == ingest.pc = "enqueue" /\ ingest.job.claim = c

\* Where a claim's one hand is.
HandFree(c) ==
  /\ NoneFor(process_queue, c) /\ NoneFor(payout_queue, c)
  /\ NobodyOn(c, worker) /\ ~PayerOn(c) /\ ~IngestOn(c)
InProcess(c) ==
  /\ OneFor(process_queue, c) /\ NoneFor(payout_queue, c)
  /\ NobodyOn(c, worker) /\ ~PayerOn(c) /\ ~IngestOn(c)
InPayout(c) ==
  /\ NoneFor(process_queue, c) /\ OneFor(payout_queue, c)
  /\ NobodyOn(c, worker) /\ ~PayerOn(c) /\ ~IngestOn(c)
InWorker(c) ==
  /\ NoneFor(process_queue, c) /\ NoneFor(payout_queue, c)
  /\ SomeoneOn(c, worker) /\ ~PayerOn(c) /\ ~IngestOn(c)
InPayer(c) ==
  /\ NoneFor(process_queue, c) /\ NoneFor(payout_queue, c)
  /\ NobodyOn(c, worker) /\ PayerOn(c) /\ ~IngestOn(c)
InIngest(c) ==
  /\ NoneFor(process_queue, c) /\ NoneFor(payout_queue, c)
  /\ NobodyOn(c, worker) /\ ~PayerOn(c) /\ IngestOn(c)
OneHand(c) ==
  \/ HandFree(c)
  \/ InProcess(c) \/ InPayout(c) \/ InWorker(c) \/ InPayer(c) \/ InIngest(c)

\* What a slot or the alert handler read of a row's count of takeovers is still
\* the row's where it is about to write it back.
Reading == {"begin", "verify"}
Paying  == {"gates", "settle", "record", "read back", "locked"}
SeenCount(c) ==
  /\ \A w \in Workers :
       worker[w].job.claim = c /\ worker[w].pc \in Reading
         => worker[w].seen.data.supersedes = row[c].data.supersedes
  /\ payer.job.claim = c /\ payer.pc \in Paying
         => payer.seen.data.supersedes = row[c].data.supersedes
  /\ ingest.job.claim = c /\ ingest.pc = "supersede"
         => ingest.seen.data.supersedes = row[c].data.supersedes

\* What makes SoleWorker inductive: a row nobody inserted has no hand, and one in
\* review with a hand is at the cap, so no alert takes it over a second time.
ClaimInv(c) ==
  /\ OneHand(c)
  /\ row[c].status = "absent" => HandFree(c)
  /\ row[c].status = "review" => HandFree(c) \/ row[c].data.supersedes >= MAX_SUPERSEDES
  /\ SeenCount(c)

\* All claims but those taken over from under a waiting retry, while nothing fails.
HandInv ==
  faults = 0 =>
    /\ ingest.pc = "supersede" => row[ingest.job.claim].status # "absent"
    /\ \A c \in Claims \ taken : ClaimInv(c)

\* Queues, one claim at a time.
LEMMA AddElsewhere ==
  ASSUME NEW queue, NEW job, NEW c, job.claim # c
  PROVE  /\ NoneFor(queue, c) => NoneFor(Adding(queue, job), c)
         /\ OneFor(queue, c) => OneFor(Adding(queue, job), c)
BY DEF NoneFor, OneFor, Adding, BagToSet, SetToBag, (+)

LEMMA AddOwn ==
  ASSUME NEW queue, NEW job, NoneFor(queue, job.claim)
  PROVE  OneFor(Adding(queue, job), job.claim)
BY DEF NoneFor, OneFor, Adding, BagToSet, SetToBag, (+)

LEMMA RemoveElsewhere ==
  ASSUME NEW queue, NEW job, NEW c, job.claim # c
  PROVE  /\ NoneFor(queue, c) => NoneFor(Removing(queue, job), c)
         /\ OneFor(queue, c) => OneFor(Removing(queue, job), c)
<1> DEFINE rest == Removing(queue, job)
<1>1. BagToSet(rest) \subseteq BagToSet(queue)
  BY RemovingDomain
<1>2. NoneFor(queue, c) => NoneFor(rest, c)
  <2> HIDE DEF rest
  <2> QED BY <1>1 DEF NoneFor
<1>3. ASSUME NEW k \in BagToSet(queue), k.claim = c, queue[k] = 1
      PROVE  k \in BagToSet(rest) /\ rest[k] = 1
  BY <1>3 DEF Removing, BagToSet, SetToBag, (-)
<1>4. OneFor(queue, c) => OneFor(rest, c)
  <2> HIDE DEF rest
  <2> QED BY <1>1, <1>3 DEF OneFor
<1> QED BY <1>2, <1>4

LEMMA RemoveOwn ==
  ASSUME NEW queue, NEW job \in BagToSet(queue), OneFor(queue, job.claim)
  PROVE  NoneFor(Removing(queue, job), job.claim)
BY DEF NoneFor, OneFor, Removing, BagToSet, SetToBag, (-)

LEMMA RetryIsAdd ==
  ASSUME NEW queue, NEW job \in Job
  PROVE  \/ Retrying(queue, job) = queue
         \/ \E again \in Job : again.claim = job.claim /\ Retrying(queue, job) = Adding(queue, again)
<1> DEFINE again == [job EXCEPT !.tries = @ + 1]
<1>1. CASE job.tries + 1 < ATTEMPTS
  <2>1. again \in Job /\ again.claim = job.claim
    BY <1>1, RetriedJob DEF Job
  <2>2. Retrying(queue, job) = Adding(queue, again)
    BY <1>1 DEF Retrying
  <2> QED BY <2>1, <2>2
<1>2. CASE ~(job.tries + 1 < ATTEMPTS)
  BY <1>2 DEF Retrying
<1> QED BY <1>1, <1>2

\* What concerns another claim.
SameHand(c) ==
  /\ NoneFor(process_queue, c) => NoneFor(process_queue', c)
  /\ OneFor(process_queue, c) => OneFor(process_queue', c)
  /\ NoneFor(payout_queue, c) => NoneFor(payout_queue', c)
  /\ OneFor(payout_queue, c) => OneFor(payout_queue', c)
  /\ \A v \in Workers : worker[v].job.claim = c \/ worker'[v].job.claim = c => worker'[v] = worker[v]
  /\ payer.job.claim = c \/ payer'.job.claim = c => payer' = payer
  /\ IngestOn(c)' <=> IngestOn(c)
  /\ ingest'.pc = "supersede" /\ ingest'.job.claim = c => ingest' = ingest

\* A step that concerns another claim, and one that concerns this claim.
LEMMA SameHandKept ==
  ASSUME NEW c, SameHand(c)
  PROVE  (OneHand(c) => OneHand(c)') /\ (HandFree(c) => HandFree(c)')
<1>1. /\ NobodyOn(c, worker) => NobodyOn(c, worker')
      /\ SomeoneOn(c, worker) => SomeoneOn(c, worker')
  BY DEF SameHand, NobodyOn, SomeoneOn
<1>2. (PayerOn(c)' <=> PayerOn(c)) /\ (IngestOn(c)' <=> IngestOn(c))
  BY DEF SameHand, PayerOn, IngestOn
<1> QED BY <1>1, <1>2 DEF SameHand, OneHand, HandFree, InProcess, InPayout, InWorker, InPayer, InIngest

LEMMA ElsewhereKept ==
  ASSUME NEW c, SameHand(c), ClaimInv(c), row'[c] = row[c]
  PROVE  ClaimInv(c)'
<1>1. SeenCount(c)'
  BY DEF ClaimInv, SeenCount, SameHand
<1> QED BY <1>1, SameHandKept DEF ClaimInv

LEMMA OwnKept ==
  ASSUME NEW c, ClaimInv(c), ~HandFree(c), OneHand(c)', SeenCount(c)',
         row'[c].status = "absent" => row[c].status = "absent",
         row'[c].data.supersedes = row[c].data.supersedes,
         row'[c].status = "review" => row[c].status = "review" \/ HandFree(c)'
  PROVE  ClaimInv(c)'
BY DEF ClaimInv

-----------------------------------------------------------------------------
\* What a step of a worker does to rows and queues while nothing fails.
WorkerMoves(w) ==
  \/ /\ \E s : /\ worker' = [worker EXCEPT ![w] = s]
               /\ s.job = worker[w].job
               /\ s.pc \in Reading => worker[w].pc \in Reading /\ s.seen = worker[w].seen
     /\ UNCHANGED queues
  \/ Finish(w) /\ UNCHANGED queues
  \/ /\ Finish(w) /\ UNCHANGED payout_queue
     /\ \E job : job.claim = worker[w].job.claim /\ process_queue' = Adding(process_queue, job)
  \/ /\ Finish(w) /\ UNCHANGED process_queue
     /\ \E job : job.claim = worker[w].job.claim /\ payout_queue' = Adding(payout_queue, job)

Rewrites(c, seen) ==
  /\ \A d \in Claims \ {c} : row'[d] = row[d]
  /\ row'[c].status = "absent" => row[c].status = "absent"
  /\ row'[c].data.supersedes \in {row[c].data.supersedes, seen.data.supersedes}

WorkerStep(w) ==
  /\ worker[w].job.claim \in Claims
  /\ WorkerMoves(w)
  /\ \/ UNCHANGED row
     \/ /\ Rewrites(worker[w].job.claim, worker[w].seen) /\ worker[w].pc \in Reading
        /\ row'[worker[w].job.claim].status = "review" => 
             row[worker[w].job.claim].status = "review" \/ (Finish(w) /\ UNCHANGED queues)
     \/ /\ Rewrites(worker[w].job.claim, row[worker[w].job.claim])
        /\ row'[worker[w].job.claim].status # "review"
  /\ UNCHANGED <<payer, ingest, taken>>

\* The slot that works on a claim is its one hand; its steps keep the claim's.
LEMMA OwnWorker ==
  ASSUME NEW c \in Claims, OneHand(c), NEW w \in Workers, worker[w].job.claim = c
  PROVE  InWorker(c) /\ ~HandFree(c)
BY DEF OneHand, HandFree, InProcess, InPayout, InWorker, InPayer, InIngest, NobodyOn

LEMMA WorkerStepKeeps ==
  ASSUME TypeInv, NEW w \in Workers, WorkerStep(w), NEW c \in Claims, ClaimInv(c)
  PROVE  ClaimInv(c)'
<1> DEFINE k == worker[w].job.claim
<1>1. worker \in [Workers -> Slot("begin")] /\ Idle.job.claim = "none" /\ "none" \notin Claims
  BY KeeperAssumption DEF TypeInv, WorkersOK, Idle, NoJob
<1>2. CASE k # c
  <2>1. /\ NoneFor(process_queue, c) => NoneFor(process_queue', c)
        /\ OneFor(process_queue, c) => OneFor(process_queue', c)
        /\ NoneFor(payout_queue, c) => NoneFor(payout_queue', c)
        /\ OneFor(payout_queue, c) => OneFor(payout_queue', c)
    BY <1>2, AddElsewhere DEF WorkerStep, WorkerMoves, queues
  <2>2. \A v \in Workers : worker[v].job.claim = c \/ worker'[v].job.claim = c => worker'[v] = worker[v]
    BY <1>1, <1>2 DEF WorkerStep, WorkerMoves, Finish
  <2>3. SameHand(c)
    BY <2>1, <2>2 DEF SameHand, WorkerStep, IngestOn
  <2>4. row'[c] = row[c]
    BY <1>2 DEF WorkerStep, Rewrites
  <2> QED BY <2>3, <2>4, ElsewhereKept
<1>3. CASE k = c
  <2>1. InWorker(c) /\ ~HandFree(c)
    BY <1>3, OwnWorker DEF ClaimInv
  <2>2. ASSUME NEW v \in Workers, v # w
        PROVE  worker[v].job.claim # c
    BY <1>3, <2>1, <2>2 DEF InWorker, SomeoneOn
  <2>3. payer' = payer /\ ingest' = ingest /\ ~PayerOn(c) /\ ~IngestOn(c)
    BY <2>1 DEF WorkerStep, InWorker
  <2>4. ASSUME Finish(w) PROVE NobodyOn(c, worker')
    BY <1>1, <2>2, <2>4 DEF Finish, NobodyOn
  <2>5. Finish(w) /\ UNCHANGED queues => HandFree(c)'
    BY <2>1, <2>3, <2>4 DEF HandFree, InWorker, queues, PayerOn, IngestOn
  <2>6. OneHand(c)'
    <3>1. ASSUME NEW s, worker' = [worker EXCEPT ![w] = s], s.job = worker[w].job
          PROVE  SomeoneOn(c, worker')
      <4>1. worker'[w].job.claim = c /\ \A v \in Workers : v # w => worker'[v] = worker[v]
        BY <1>1, <1>3, <3>1
      <4> QED BY <2>2, <4>1 DEF SomeoneOn
    <3>2. CASE UNCHANGED queues /\ ~Finish(w)
      <4>1. SomeoneOn(c, worker')
        BY <3>1, <3>2 DEF WorkerStep, WorkerMoves
      <4> QED BY <4>1, <3>2, <2>1, <2>3 DEF OneHand, InWorker, queues, PayerOn, IngestOn
    <3>3. CASE \E job : job.claim = c /\ process_queue' = Adding(process_queue, job)
                 /\ Finish(w) /\ UNCHANGED payout_queue
      <4>1. OneFor(process_queue', c)
        BY <3>3, <2>1, AddOwn DEF InWorker
      <4> QED BY <4>1, <3>3, <2>1, <2>3, <2>4 DEF OneHand, InProcess, InWorker, PayerOn, IngestOn
    <3>4. CASE \E job : job.claim = c /\ payout_queue' = Adding(payout_queue, job)
                 /\ Finish(w) /\ UNCHANGED process_queue
      <4>1. OneFor(payout_queue', c)
        BY <3>4, <2>1, AddOwn DEF InWorker
      <4> QED BY <4>1, <3>4, <2>1, <2>3, <2>4 DEF OneHand, InPayout, InWorker, PayerOn, IngestOn
    <3> QED BY <3>2, <3>3, <3>4, <2>5, <1>3 DEF WorkerStep, WorkerMoves, OneHand
  <2>7. worker[w].pc \in Reading => worker[w].seen.data.supersedes = row[c].data.supersedes
    BY <1>3 DEF ClaimInv, SeenCount
  <2>8. /\ row'[c].status = "absent" => row[c].status = "absent"
        /\ row'[c].data.supersedes = row[c].data.supersedes
        /\ row'[c].status = "review" => row[c].status = "review" \/ HandFree(c)'
    BY <1>3, <2>5, <2>7 DEF WorkerStep, Rewrites
  <2>9. ASSUME NEW v \in Workers, worker'[v].job.claim = c, worker'[v].pc \in Reading
        PROVE  worker'[v].seen.data.supersedes = row'[c].data.supersedes
    <3>1. v = w /\ ~Finish(w)
      BY <1>1, <2>2, <2>4, <2>9 DEF WorkerStep, WorkerMoves, Finish, NobodyOn
    <3>2. worker'[w].seen = worker[w].seen /\ worker[w].pc \in Reading
      BY <1>1, <2>9, <3>1 DEF WorkerStep, WorkerMoves
    <3> QED BY <3>1, <3>2, <2>7, <2>8
  <2>10. SeenCount(c)'
    BY <2>3, <2>8, <2>9 DEF SeenCount, ClaimInv, PayerOn
  <2> QED BY <2>1, <2>6, <2>8, <2>10, OwnKept
<1> QED BY <1>2, <1>3

\* Each step of a process worker is such a step.
LEMMA ThrowMoves ==
  ASSUME TypeInv, NEW w \in Workers, ~At(w, "idle"), Throw(w), UNCHANGED payout_queue
  PROVE  WorkerMoves(w)
<1>1. worker[w].job \in Job
  BY BusyJob DEF TypeInv
<1> QED BY <1>1, RetryIsAdd DEF Throw, WorkerMoves, queues

LEMMA KeepMoves ==
  ASSUME TypeInv, NEW w \in Workers, NEW pc, NEW seen, Keep(w, pc, seen), pc \notin Reading,
         UNCHANGED queues
  PROVE  WorkerMoves(w)
<1> DEFINE s == [worker[w] EXCEPT !.pc = pc, !.seen = seen]
<1>1. worker' = [worker EXCEPT ![w] = s]
  BY DEF Keep, TypeInv, WorkersOK
<1>2. s.job = worker[w].job /\ s.pc = pc
  BY DEF TypeInv, WorkersOK, Slot
<1> HIDE DEF s
<1> QED BY <1>1, <1>2 DEF WorkerMoves

LEMMA SetRewrites ==
  ASSUME RowsOK, NEW c \in Claims, NEW r, NEW seen, Set(c, r),
         r.status = "absent" => row[c].status = "absent",
         r.data.supersedes \in {row[c].data.supersedes, seen.data.supersedes}
  PROVE  Rewrites(c, seen) /\ row'[c] = r
BY DEF RowsOK, Set, Rewrites

LEMMA BeginIsStep ==
  ASSUME TypeInv, NEW w \in Workers, Begin(w)
  PROVE  WorkerStep(w)
<1> DEFINE c == worker[w].job.claim
           r == [row[c] EXCEPT !.status = "verifying"]
<1>1. ~At(w, "idle") /\ c \in Claims /\ row[c] \in Row
  BY BusyJob DEF Begin, At, TypeInv, Job, RowsOK
<1>2. UNCHANGED <<payer, ingest, taken, payout_queue>>
  BY DEF Begin, processOthers
<1>3. CASE Throw(w) /\ UNCHANGED row
  BY <1>1, <1>2, <1>3, ThrowMoves DEF WorkerStep
<1>4. CASE Set(c, r) /\ Goto(w, "verify") /\ UNCHANGED process_queue
  <2> DEFINE s == [worker[w] EXCEPT !.pc = "verify"]
  <2>1. worker' = [worker EXCEPT ![w] = s]
    BY <1>4 DEF Goto, TypeInv, WorkersOK
  <2>2. s.job = worker[w].job /\ s.seen = worker[w].seen /\ worker[w].pc \in Reading
    BY DEF Begin, At, Reading, TypeInv, WorkersOK, Slot
  <2>3. WorkerMoves(w)
    <3> HIDE DEF s
    <3> QED BY <1>2, <1>4, <2>1, <2>2 DEF WorkerMoves, queues
  <2>4. r.status = "verifying" /\ r.data = row[c].data
    BY <1>1 DEF Row
  <2>5. Rewrites(c, row[c]) /\ row'[c] = r
    <3> HIDE DEF r
    <3> QED BY <1>1, <1>4, <2>4, SetRewrites DEF TypeInv
  <2> HIDE DEF r
  <2> QED BY <1>1, <1>2, <2>3, <2>4, <2>5 DEF WorkerStep
<1> QED BY <1>3, <1>4 DEF Begin

LEMMA VerifyIsStep ==
  ASSUME TypeInv, NEW w \in Workers, Verify(w), faults' = 0
  PROVE  WorkerStep(w)
<1> DEFINE c == worker[w].job.claim
           seen == worker[w].seen
           Becomes(r) == /\ Set(c, r)
                         /\ r.status = "absent" => row[c].status = "absent"
                         /\ r.data.supersedes = seen.data.supersedes
                         /\ r.status = "review" =>
                              row[c].status = "review" \/ (Finish(w) /\ UNCHANGED queues)
<1>1. ~At(w, "idle") /\ c \in Claims /\ row[c] \in Row /\ worker[w].pc \in Reading
  BY BusyJob DEF Verify, At, TypeInv, Job, RowsOK, Reading
<1>2. seen \in Row /\ seen.data \in Data
  BY SeenTyped DEF TypeInv
<1>3. UNCHANGED <<payer, ingest, taken, payout_queue>>
  BY DEF Verify, processOthers
<1>4. ASSUME NEW r, Becomes(r), WorkerMoves(w)
      PROVE  WorkerStep(w)
  <2>1. Rewrites(c, seen) /\ row'[c] = r
    BY <1>1, <1>4, SetRewrites DEF TypeInv
  <2> QED BY <1>1, <1>3, <1>4, <2>1 DEF WorkerStep
<1>5. ASSUME NEW pc, pc \notin Reading, NEW s, Keep(w, pc, s), UNCHANGED process_queue
      PROVE  WorkerMoves(w)
  BY <1>3, <1>5, KeepMoves DEF queues
<1>6. ASSUME Finish(w), UNCHANGED process_queue
      PROVE  WorkerMoves(w) /\ UNCHANGED queues
  BY <1>3, <1>6 DEF WorkerMoves, queues
<1>7. ASSUME NEW reason \in Reasons, Park(w, reason)
      PROVE  WorkerStep(w)
  <2> DEFINE attempt == seen.verify_attempts + 1
             status == IF attempt < MAX_VERIFY_ATTEMPTS THEN "indeterminate" ELSE "review"
             r == [row[c] EXCEPT !.status = status, !.reason = reason,
                                 !.verify_attempts = attempt, !.data = seen.data]
  <2>1. Set(c, r) /\ UNCHANGED process_queue
    BY <1>7 DEF Park
  <2>2. r.status = status /\ r.data = seen.data
    BY <1>1 DEF Row
  <2>3. IF attempt < MAX_VERIFY_ATTEMPTS THEN Keep(w, "requeue", NoRow) ELSE Finish(w)
    BY <1>7 DEF Park, Spins
  <2>4. WorkerMoves(w)
    BY <1>5, <1>6, <2>1, <2>3 DEF Reading
  <2>5. r.status = "review" => Finish(w) /\ UNCHANGED queues
    BY <1>6, <2>1, <2>2, <2>3
  <2>6. Becomes(r)
    <3>1. r.status # "absent"
      BY <2>2
    <3> HIDE DEF r
    <3> QED BY <2>1, <2>2, <2>5, <3>1
  <2> HIDE DEF r, Becomes
  <2> QED BY <1>4, <2>4, <2>6
<1>8. ASSUME NEW status \in {"rejected", "review"}, NEW r, Set(c, r), r.status = status,
             r.data = seen.data, Finish(w), UNCHANGED process_queue
      PROVE  WorkerStep(w)
  <2>1. Becomes(r) /\ WorkerMoves(w)
    BY <1>6, <1>8
  <2> HIDE DEF Becomes
  <2> QED BY <1>4, <2>1
<1>9. ASSUME Reject(w) PROVE WorkerStep(w)
  <2> DEFINE r == [row[c] EXCEPT !.status = "rejected", !.data = seen.data]
  <2>1. Set(c, r) /\ Finish(w) /\ UNCHANGED process_queue
    BY <1>9 DEF Reject
  <2>2. r.status = "rejected" /\ r.data = seen.data
    BY <1>1 DEF Row
  <2> HIDE DEF r
  <2> QED BY <1>8, <2>1, <2>2
<1>10. ASSUME NEW reason, EscalateToReview(w, reason) PROVE WorkerStep(w)
  <2> DEFINE r == [row[c] EXCEPT !.status = "review", !.reason = reason, !.data = seen.data]
  <2>1. Set(c, r) /\ Finish(w) /\ UNCHANGED process_queue
    BY <1>10 DEF EscalateToReview
  <2>2. r.status = "review" /\ r.data = seen.data
    BY <1>1 DEF Row
  <2> HIDE DEF r
  <2> QED BY <1>8, <2>1, <2>2
<1>11. ASSUME ReattributeToAgentError(w) PROVE WorkerStep(w)
  <2> DEFINE d == [seen.data EXCEPT !.reattributed = TRUE]
             r == [row[c] EXCEPT !.trigger = AgentError, !.status = "pending", !.data = d]
  <2>1. Set(c, r) /\ Keep(w, "requeue", NoRow) /\ UNCHANGED process_queue
    BY <1>11 DEF ReattributeToAgentError
  <2>2. r.status = "pending" /\ r.data = d /\ d.supersedes = seen.data.supersedes
    BY <1>1, <1>2 DEF Row, Data
  <2>3. WorkerMoves(w)
    BY <1>5, <2>1 DEF Reading
  <2>4. Becomes(r)
    <3> HIDE DEF r
    <3> QED BY <2>1, <2>2
  <2> HIDE DEF r, Becomes
  <2> QED BY <1>4, <2>3, <2>4
<1>12. ASSUME NEW hashed, Confirm(w, hashed) PROVE WorkerStep(w)
  <2> DEFINE d == [seen.data EXCEPT !.hashed = TRUE]
             r == [row[c] EXCEPT
                  !.payable = TRUE, !.reason = "none",
                  !.verify_attempts = seen.verify_attempts + 1, !.data = d]
             k == [NoRow EXCEPT !.trigger = seen.trigger]
  <2>1. Set(c, r) /\ Keep(w, "submit", k) /\ UNCHANGED process_queue
    BY <1>12 DEF Confirm
  <2>2. r.status = row[c].status /\ r.data = d /\ d.supersedes = seen.data.supersedes
    BY <1>1, <1>2 DEF Row, Data
  <2>3. WorkerMoves(w)
    <3> HIDE DEF k
    <3> QED BY <1>5, <2>1 DEF Reading
  <2>4. Becomes(r)
    <3> HIDE DEF r
    <3> QED BY <2>1, <2>2
  <2> HIDE DEF r, Becomes
  <2> QED BY <1>4, <2>3, <2>4
<1>13. ASSUME Throw(w), UNCHANGED row PROVE WorkerStep(w)
  BY <1>1, <1>3, <1>13, ThrowMoves DEF WorkerStep
<1>14. ~Fault
  BY DEF Fault, TypeInv, OthersOK
<1> HIDE DEF seen, c
<1> QED BY <1>7, <1>9, <1>10, <1>11, <1>12, <1>13, <1>14, StatusNames DEF Verify

LEMMA LaterIsStep ==
  ASSUME TypeInv, NEW w \in Workers, faults' = 0,
         \/ SubmitClaimOnChain(w) \/ CheckSubmitted(w) \/ Approve(w)
         \/ Requeue(w) \/ HandOver(w)
  PROVE  WorkerStep(w)
<1> DEFINE c == worker[w].job.claim
<1>1. ~At(w, "idle") /\ c \in Claims /\ row[c] \in Row
  BY BusyJob DEF SubmitClaimOnChain, CheckSubmitted, Approve, Requeue, HandOver, At, TypeInv,
                 Job, RowsOK
<1>2. UNCHANGED <<payer, ingest, taken>>
  BY DEF SubmitClaimOnChain, CheckSubmitted, Approve, Requeue, HandOver, processOthers
<1>3. ~Fault
  BY DEF Fault, TypeInv, OthersOK
<1>4. ASSUME WorkerMoves(w), UNCHANGED row PROVE WorkerStep(w)
  BY <1>1, <1>2, <1>4 DEF WorkerStep
<1>5. ASSUME SubmitClaimOnChain(w) PROVE WorkerStep(w)
  <2>1. \E pc \in {"approve", "check"} : Keep(w, pc, NoRow)
    BY <1>5 DEF SubmitClaimOnChain
  <2> QED BY <1>4, <1>5, <2>1, KeepMoves DEF SubmitClaimOnChain, Reading
<1>6. ASSUME CheckSubmitted(w) PROVE WorkerStep(w)
  <2>1. \/ Keep(w, "approve", NoRow) /\ UNCHANGED queues
        \/ Throw(w) /\ UNCHANGED payout_queue
    BY <1>6 DEF CheckSubmitted, queues
  <2>2. WorkerMoves(w)
    BY <1>1, <2>1, ThrowMoves, KeepMoves DEF Reading
  <2> QED BY <1>4, <1>6, <2>2 DEF CheckSubmitted
<1>7. ASSUME Approve(w) PROVE WorkerStep(w)
  <2> DEFINE r == [row[c] EXCEPT !.status = "approved"]
  <2>1. r.status = "approved" /\ r.data = row[c].data
    BY <1>1 DEF Row
  <2>2. CASE Set(c, r) /\ Keep(w, "hand over", NoRow) /\ UNCHANGED queues
    <3>1. WorkerMoves(w)
      BY <2>2, KeepMoves DEF Reading
    <3>2. Rewrites(c, row[c]) /\ row'[c].status # "review"
      <4> HIDE DEF r
      <4> QED BY <1>1, <2>1, <2>2, SetRewrites DEF TypeInv
    <3> QED BY <1>1, <1>2, <3>1, <3>2 DEF WorkerStep
  <2>3. CASE Throw(w) /\ UNCHANGED row /\ UNCHANGED payout_queue
    BY <1>1, <1>4, <2>3, ThrowMoves
  <2> QED BY <1>7, <2>2, <2>3 DEF Approve, queues
<1>8. Fresh(c).claim = c
  BY DEF Fresh
<1>9. ASSUME Requeue(w) PROVE WorkerStep(w)
  <2>1. process_queue' = Adding(process_queue, Fresh(c)) /\ Finish(w)
          /\ UNCHANGED payout_queue /\ UNCHANGED row
    BY <1>3, <1>9 DEF Requeue
  <2> QED BY <1>4, <1>8, <2>1 DEF WorkerMoves
<1>10. ASSUME HandOver(w) PROVE WorkerStep(w)
  <2>1. payout_queue' = Adding(payout_queue, Fresh(c)) /\ Finish(w)
          /\ UNCHANGED process_queue /\ UNCHANGED row
    BY <1>3, <1>10 DEF HandOver
  <2> QED BY <1>4, <1>8, <2>1 DEF WorkerMoves
<1> QED BY <1>5, <1>6, <1>7, <1>9, <1>10

\* Taking a job moves the claim's hand from the queue to the slot.
LEMMA TakeJobKeeps ==
  ASSUME TypeInv, NEW w \in Workers, NEW job \in BagToSet(process_queue), TakeJob(w, job),
         NEW c \in Claims, ClaimInv(c)
  PROVE  ClaimInv(c)'
<1> DEFINE s == [pc |-> "begin", job |-> job, seen |-> row[job.claim]]
<1>1. job \in Job /\ NoJob.claim = "none" /\ "none" \notin Claims
  BY KeeperAssumption DEF TypeInv, QueuesOK, NoJob
<1>2. worker[w].job = NoJob /\ worker \in [Workers -> Slot("begin")]
  BY DEF TakeJob, TypeInv, WorkersOK
<1>3. worker' = [worker EXCEPT ![w] = s] /\ process_queue' = Removing(process_queue, job)
        /\ UNCHANGED <<row, payout_queue, payer, ingest, taken>>
  BY DEF TakeJob, processOthers
<1>4. worker'[w] = s /\ \A v \in Workers : v # w => worker'[v] = worker[v]
  BY <1>2, <1>3
<1>5. CASE job.claim # c
  <2>1. \A v \in Workers : worker[v].job.claim = c \/ worker'[v].job.claim = c => worker'[v] = worker[v]
    BY <1>1, <1>2, <1>4, <1>5
  <2>2. SameHand(c)
    BY <1>3, <1>5, <2>1, RemoveElsewhere DEF SameHand, IngestOn
  <2> QED BY <1>3, <2>2, ElsewhereKept
<1>6. CASE job.claim = c
  <2>1. InProcess(c) /\ ~HandFree(c)
    BY <1>6 DEF ClaimInv, OneHand, HandFree, InProcess, InPayout, InWorker, InPayer, InIngest, NoneFor
  <2>2. NoneFor(process_queue', c)
    BY <1>3, <1>6, <2>1, RemoveOwn DEF InProcess
  <2>3. SomeoneOn(c, worker')
    BY <1>4, <1>6, <2>1 DEF InProcess, NobodyOn, SomeoneOn
  <2>4. OneHand(c)'
    BY <1>3, <2>1, <2>2, <2>3 DEF InProcess, OneHand, InWorker, PayerOn, IngestOn
  <2>5. SeenCount(c)'
    <3>1. ASSUME NEW v \in Workers, worker'[v].job.claim = c
          PROVE  worker'[v].seen = row[c]
      BY <1>4, <1>6, <2>1, <3>1 DEF InProcess, NobodyOn
    <3> QED BY <1>3, <3>1 DEF ClaimInv, SeenCount
  <2> QED BY <1>3, <2>1, <2>4, <2>5, OwnKept
<1> QED BY <1>5, <1>6

LEMMA ProcessKeeps ==
  ASSUME TypeInv, HandInv, NEW w \in Workers, ProcessStep(w)
  PROVE  HandInv'
<1> SUFFICES ASSUME faults' = 0 PROVE HandInv'
  BY DEF HandInv
<1>1. faults = 0 /\ ~Fault /\ ~ProcessFails(w)
  <2>1. faults' = faults \/ Fault
    BY DEF ProcessStep, TakeJob, Begin, Verify, SubmitClaimOnChain, CheckSubmitted, Approve,
           Requeue, HandOver, ProcessFails, NoFault
  <2>2. ~Fault
    BY DEF Fault, TypeInv, OthersOK
  <2> QED BY <2>1, <2>2 DEF ProcessFails
<1>2. CASE \E job \in BagToSet(process_queue) : TakeJob(w, job)
  <2>1. UNCHANGED <<row, ingest, taken>>
    BY <1>2 DEF TakeJob, processOthers
  <2> QED BY <1>1, <1>2, <2>1, TakeJobKeeps DEF HandInv
<1>3. CASE WorkerStep(w)
  <2>1. UNCHANGED <<ingest, taken>>
    BY <1>3 DEF WorkerStep
  <2>2. \A c \in Claims : row'[c].status = "absent" => row[c].status = "absent"
    BY <1>3 DEF WorkerStep, Rewrites
  <2>3. ingest.pc = "supersede" => ingest.job.claim \in Claims
    BY DEF TypeInv, IngestOK, Job
  <2>4. \A c \in Claims \ taken : ClaimInv(c)'
    BY <1>1, <1>3, WorkerStepKeeps DEF HandInv
  <2>5. ingest'.pc = "supersede" => row'[ingest'.job.claim].status # "absent"
    BY <1>1, <2>1, <2>2, <2>3 DEF HandInv
  <2> QED BY <2>1, <2>4, <2>5 DEF HandInv
<1> QED BY <1>1, <1>2, <1>3, BeginIsStep, VerifyIsStep, LaterIsStep DEF ProcessStep

-----------------------------------------------------------------------------
\* What a step of the payout worker does.
PayerMoves ==
  \/ /\ \E pc : /\ payer' = [payer EXCEPT !.pc = pc]
                /\ pc \in Paying => payer.pc \in Paying
     /\ UNCHANGED payout_queue
  \/ payer' = Idle /\ UNCHANGED payout_queue
  \/ /\ payer' = Idle
     /\ \E job : job.claim = payer.job.claim /\ payout_queue' = Adding(payout_queue, job)

PayerStep ==
  LET c == payer.job.claim
  IN /\ c \in Claims
     /\ PayerMoves
     /\ \/ UNCHANGED row
        \/ /\ Rewrites(c, payer.seen) /\ payer.pc \in Paying
           /\ row'[c].status = "review" =>
                row[c].status = "review" \/ (payer' = Idle /\ UNCHANGED payout_queue)
     /\ UNCHANGED <<process_queue, worker, ingest, taken>>

\* It keeps each claim's invariant, and each of its steps is one.
LEMMA PayerStepKeeps ==
  ASSUME TypeInv, PayerStep, NEW c \in Claims, ClaimInv(c)
  PROVE  ClaimInv(c)'
<1> DEFINE k == payer.job.claim
<1>1. Idle.job.claim = "none" /\ "none" \notin Claims
  BY KeeperAssumption DEF Idle, NoJob
<1>2. \/ payer' = Idle
      \/ /\ payer'.job = payer.job /\ payer'.seen = payer.seen
         /\ payer'.pc \in Paying => payer.pc \in Paying
         /\ UNCHANGED payout_queue
  BY DEF PayerStep, PayerMoves, TypeInv, PayerOK, Slot
<1>3. CASE k # c
  <2>1. /\ NoneFor(payout_queue, c) => NoneFor(payout_queue', c)
        /\ OneFor(payout_queue, c) => OneFor(payout_queue', c)
    BY <1>3, AddElsewhere DEF PayerStep, PayerMoves
  <2>2. payer'.job.claim # c
    BY <1>1, <1>2, <1>3
  <2>3. SameHand(c)
    BY <1>3, <2>1, <2>2 DEF SameHand, PayerStep, IngestOn
  <2>4. row'[c] = row[c]
    BY <1>3 DEF PayerStep, Rewrites
  <2> QED BY <2>3, <2>4, ElsewhereKept
<1>4. CASE k = c
  <2>1. InPayer(c) /\ ~HandFree(c)
    BY <1>4 DEF ClaimInv, OneHand, HandFree, InProcess, InPayout, InWorker, InPayer, InIngest, PayerOn
  <2>2. UNCHANGED <<process_queue, worker, ingest>>
    BY DEF PayerStep
  <2>3. payer' = Idle => ~PayerOn(c)'
    BY <1>1 DEF PayerOn
  <2>4. payer' = Idle /\ UNCHANGED payout_queue => HandFree(c)'
    BY <2>1, <2>2, <2>3 DEF HandFree, InPayer, IngestOn
  <2>5. OneHand(c)'
    <3>1. CASE payer'.job = payer.job /\ UNCHANGED payout_queue
      BY <1>4, <2>1, <2>2, <3>1 DEF OneHand, InPayer, PayerOn, IngestOn
    <3>2. CASE payer' = Idle /\ \E job : job.claim = c /\ payout_queue' = Adding(payout_queue, job)
      <4>1. OneFor(payout_queue', c)
        BY <3>2, <2>1, AddOwn DEF InPayer
      <4> QED BY <4>1, <3>2, <2>1, <2>2, <2>3 DEF OneHand, InPayout, InPayer, IngestOn
    <3>3. CASE payer' = Idle /\ UNCHANGED payout_queue
      BY <3>3, <2>4 DEF OneHand
    <3> QED BY <1>2, <1>4, <3>1, <3>2, <3>3 DEF PayerStep, PayerMoves
  <2>6. payer.pc \in Paying => payer.seen.data.supersedes = row[c].data.supersedes
    BY <1>4 DEF ClaimInv, SeenCount
  <2>7. /\ row'[c].status = "absent" => row[c].status = "absent"
        /\ row'[c].data.supersedes = row[c].data.supersedes
        /\ row'[c].status = "review" => row[c].status = "review" \/ HandFree(c)'
    BY <1>4, <2>4, <2>6 DEF PayerStep, Rewrites
  <2>8. payer'.job.claim = c /\ payer'.pc \in Paying
          => payer'.seen.data.supersedes = row'[c].data.supersedes
    BY <1>1, <1>2, <2>6, <2>7
  <2>9. SeenCount(c)'
    BY <2>2, <2>7, <2>8 DEF SeenCount, ClaimInv
  <2> QED BY <2>1, <2>5, <2>7, <2>9, OwnKept
<1> QED BY <1>3, <1>4

LEMMA PayerIsStep ==
  ASSUME TypeInv, faults' = 0,
         PayoutGates \/ Settle \/ RecordPaid \/ PayoutError \/ Defer
  PROVE  PayerStep
<1> DEFINE c == payer.job.claim
           d == payer.seen.data
<1>1. payer.pc # "idle"
  BY DEF PayoutGates, Settle, RecordPaid, PayoutError, Defer
<1>2. c \in Claims /\ row[c] \in Row /\ d \in Data /\ payer.job \in Job
  BY <1>1, PayerBusy
<1>3. UNCHANGED <<process_queue, worker, ingest, taken>>
  BY DEF PayoutGates, Settle, RecordPaid, PayoutError, Defer, payoutOthers, queues
<1>4. ~Fault
  BY DEF Fault, TypeInv, OthersOK
<1>5. ASSUME PayerMoves, UNCHANGED row PROVE PayerStep
  BY <1>2, <1>3, <1>5 DEF PayerStep
<1>6. ASSUME PayerMoves, payer.pc \in Paying, NEW r, Set(c, r),
             r.status = "absent" => row[c].status = "absent",
             r.data.supersedes \in {row[c].data.supersedes, d.supersedes},
             r.status = "review" => row[c].status = "review" \/ (payer' = Idle /\ UNCHANGED payout_queue)
      PROVE  PayerStep
  <2>1. Rewrites(c, payer.seen) /\ row'[c] = r
    BY <1>2, <1>6, SetRewrites DEF TypeInv
  <2> QED BY <1>2, <1>3, <1>6, <2>1 DEF PayerStep
<1>7. ASSUME payer' = Idle, payout_queue' = Retrying(payout_queue, payer.job) PROVE PayerMoves
  BY <1>2, <1>7, RetryIsAdd DEF PayerMoves
<1>8. CASE PayoutGates
  <2> DEFINE x == [row[c] EXCEPT !.status = "review", !.reason = "other", !.data = d]
             q == [row[c] EXCEPT !.status = "paying"]
  <2>1. /\ x.status = "review" /\ x.data = d
        /\ q.status = "paying" /\ q.data = row[c].data
    BY <1>2 DEF Row
  <2>2. payer.pc = "gates" /\ payer.pc \in Paying
    BY <1>8 DEF PayoutGates, Paying
  <2>3. row' = [row EXCEPT ![c].status = "paying"] => Set(c, q)
    BY DEF Set
  <2>4. CASE /\ payer' = [payer EXCEPT !.pc = "settle"] /\ UNCHANGED payout_queue
             /\ Set(c, q) \/ UNCHANGED row
    <3>1. PayerMoves
      BY <2>2, <2>4 DEF PayerMoves
    <3> HIDE DEF q
    <3> QED BY <1>5, <1>6, <2>1, <2>2, <2>4, <3>1
  <2>5. CASE Set(c, x) /\ PayoutDone /\ UNCHANGED payout_queue
    <3>1. payer' = Idle /\ PayerMoves
      BY <2>5 DEF PayerMoves, PayoutDone
    <3> HIDE DEF x
    <3> QED BY <1>6, <2>1, <2>2, <2>5, <3>1
  <2>6. CASE payout_queue' = Retrying(payout_queue, payer.job) /\ PayoutDone /\ UNCHANGED row
    BY <1>5, <1>7, <2>6 DEF PayoutDone
  <2> QED BY <1>8, <2>3, <2>4, <2>5, <2>6 DEF PayoutGates
<1>9. CASE Settle
  <2>1. \E pc : payer' = [payer EXCEPT !.pc = pc]
    BY <1>9 DEF Settle
  <2>2. payer.pc \in Paying /\ UNCHANGED <<row, payout_queue>>
    BY <1>9 DEF Settle, Paying, queues
  <2> QED BY <1>5, <2>1, <2>2 DEF PayerMoves
<1>10. CASE RecordPaid
  <2> DEFINE x == [row[c] EXCEPT !.status = "paid"]
  <2>1. x.status = "paid" /\ x.data = row[c].data
    BY <1>2 DEF Row
  <2>2. Set(c, x) /\ payer' = Idle /\ UNCHANGED payout_queue /\ payer.pc \in Paying
    BY <1>4, <1>10 DEF RecordPaid, PayoutDone, Paying
  <2>3. PayerMoves
    BY <2>2 DEF PayerMoves
  <2> HIDE DEF x
  <2> QED BY <1>6, <2>1, <2>2, <2>3
<1>11. CASE PayoutError
  <2> DEFINE e == [d EXCEPT !.deferrals = d.deferrals + 1]
             x == [row[c] EXCEPT !.status = "paid", !.data = d]
             y == [row[c] EXCEPT !.data = e]
             z == [row[c] EXCEPT !.status = "review", !.reason = "other", !.data = d]
             f == [row[c] EXCEPT !.status = "failed", !.data = d]
  <2>1. payer.pc \in Paying
    BY <1>11 DEF PayoutError, Paying
  <2>2. e.supersedes = d.supersedes
    BY <1>2 DEF Data
  <2>3. /\ x.status = "paid" /\ x.data = d
        /\ y.status = row[c].status /\ y.data = e
        /\ z.status = "review" /\ z.data = d
        /\ f.status = "failed" /\ f.data = d
    BY <1>2 DEF Row
  <2>4. \/ Set(c, x) /\ payer' = Idle /\ UNCHANGED payout_queue
        \/ Set(c, y) /\ payer' = [payer EXCEPT !.pc = "defer"] /\ UNCHANGED payout_queue
        \/ Set(c, z) /\ payer' = Idle /\ UNCHANGED payout_queue
        \/ payout_queue' = Retrying(payout_queue, payer.job) /\ payer' = Idle /\ UNCHANGED row
        \/ Set(c, f) /\ payout_queue' = Retrying(payout_queue, payer.job) /\ payer' = Idle
    BY <1>11 DEF PayoutError, PayoutDone
  <2>5. PayerMoves
    BY <1>7, <2>1, <2>4 DEF PayerMoves
  <2> HIDE DEF x, y, z, f, e
  <2> QED BY <1>5, <1>6, <2>1, <2>2, <2>3, <2>4, <2>5
<1>12. CASE Defer
  <2>1. payer' = Idle /\ payout_queue' = Adding(payout_queue, Fresh(c)) /\ UNCHANGED row
    BY <1>12 DEF Defer, PayoutDone
  <2> QED BY <1>5, <2>1 DEF PayerMoves, Fresh
<1> QED BY <1>8, <1>9, <1>10, <1>11, <1>12

\* Taking a payout job moves the claim's hand from the queue to the slot.
LEMMA TakePayoutKeeps ==
  ASSUME TypeInv, NEW job \in BagToSet(payout_queue), TakePayout(job),
         NEW c \in Claims, ClaimInv(c)
  PROVE  /\ ClaimInv(c)'
         /\ row'[c].status = "absent" => row[c].status = "absent"
<1> DEFINE k == job.claim
           r == [row[k] EXCEPT !.status = "rejected"]
           s == [pc |-> "gates", job |-> job, seen |-> row[k]]
<1>1. job \in Job /\ k \in Claims /\ NoJob.claim = "none" /\ "none" \notin Claims
  BY KeeperAssumption DEF TypeInv, QueuesOK, NoJob, Job
<1>2. payer.pc = "idle" /\ payer.job = NoJob
  BY DEF TakePayout, TypeInv, PayerOK
<1>3. payout_queue' = Removing(payout_queue, job)
        /\ UNCHANGED <<process_queue, worker, ingest, taken>>
  BY DEF TakePayout, payoutOthers
<1>4. \/ UNCHANGED <<row, payer>>
      \/ Set(k, r) /\ UNCHANGED payer
      \/ payer' = s /\ UNCHANGED row
  BY DEF TakePayout
<1>5. r.status = "rejected" /\ r.data = row[k].data
  BY <1>1 DEF TypeInv, RowsOK, Row
<1>6. UNCHANGED row \/ (Rewrites(k, row[k]) /\ row'[k].status = "rejected")
  <2> HIDE DEF r
  <2> QED BY <1>1, <1>4, <1>5, SetRewrites DEF TypeInv
<1>7. row'[c].status = "absent" => row[c].status = "absent"
  BY <1>6 DEF Rewrites
<1>8. CASE k # c
  <2>1. payer.job.claim # c /\ payer'.job.claim # c
    BY <1>1, <1>2, <1>4, <1>8
  <2>2. SameHand(c)
    BY <1>3, <1>8, <2>1, RemoveElsewhere DEF SameHand, IngestOn
  <2>3. row'[c] = row[c]
    BY <1>6, <1>8 DEF Rewrites
  <2> QED BY <1>7, <2>2, <2>3, ElsewhereKept
<1>9. CASE k = c
  <2>1. InPayout(c) /\ ~HandFree(c)
    BY <1>9 DEF ClaimInv, OneHand, HandFree, InProcess, InPayout, InWorker, InPayer, InIngest, NoneFor
  <2>2. NoneFor(payout_queue', c)
    BY <1>3, <1>9, <2>1, RemoveOwn DEF InPayout
  <2>3. NoneFor(process_queue', c) /\ NobodyOn(c, worker') /\ ~IngestOn(c)'
    BY <1>3, <2>1 DEF InPayout, IngestOn
  <2>4. ASSUME payer' = s PROVE OneHand(c)'
    BY <1>9, <2>2, <2>3, <2>4 DEF OneHand, InPayer, PayerOn
  <2>5. ASSUME UNCHANGED payer PROVE OneHand(c)'
    BY <2>1, <2>2, <2>3, <2>5 DEF OneHand, HandFree, InPayout, PayerOn
  <2>6. OneHand(c)'
    BY <1>4, <2>4, <2>5
  <2>7. /\ row'[c].data.supersedes = row[c].data.supersedes
        /\ row'[c].status = "review" => row[c].status = "review"
    BY <1>6, <1>9 DEF Rewrites
  <2>8. payer'.job.claim = c => payer'.seen.data.supersedes = row'[c].data.supersedes
    BY <1>1, <1>2, <1>4, <1>9, <2>7
  <2>9. SeenCount(c)'
    BY <1>3, <2>7, <2>8 DEF SeenCount, ClaimInv
  <2> QED BY <1>7, <2>1, <2>6, <2>7, <2>9, OwnKept
<1> QED BY <1>8, <1>9

LEMMA PayoutKeeps ==
  ASSUME TypeInv, HandInv, PayoutStep
  PROVE  HandInv'
<1> SUFFICES ASSUME faults' = 0 PROVE HandInv'
  BY DEF HandInv
<1>1. faults = 0 /\ ~PayoutFails
  <2>1. faults' = faults \/ Fault
    BY DEF PayoutStep, TakePayout, PayoutGates, Settle, RecordPaid, PayoutError, Defer,
           PayoutFails, NoFault
  <2>2. ~Fault
    BY DEF Fault, TypeInv, OthersOK
  <2> QED BY <2>1, <2>2 DEF PayoutFails
<1>2. ingest.pc = "supersede" => ingest.job.claim \in Claims
  BY DEF TypeInv, IngestOK, Job
<1>3. CASE \E job \in BagToSet(payout_queue) : TakePayout(job)
  <2> PICK job \in BagToSet(payout_queue) : TakePayout(job)
    BY <1>3
  <2>1. UNCHANGED <<ingest, taken>>
    BY DEF TakePayout, payoutOthers
  <2>2. \A c \in Claims \ taken : ClaimInv(c)'
    BY <1>1, TakePayoutKeeps DEF HandInv
  <2>3. \A c \in Claims : row'[c].status = "absent" => row[c].status = "absent"
    BY DEF TakePayout, Set, TypeInv, RowsOK, Row, QueuesOK, Job
  <2> QED BY <1>1, <1>2, <2>1, <2>2, <2>3 DEF HandInv
<1>4. CASE PayerStep
  <2>1. UNCHANGED <<ingest, taken>>
    BY <1>4 DEF PayerStep
  <2>2. \A c \in Claims \ taken : ClaimInv(c)'
    BY <1>1, <1>4, PayerStepKeeps DEF HandInv
  <2>3. \A c \in Claims : row'[c].status = "absent" => row[c].status = "absent"
    BY <1>4 DEF PayerStep, Rewrites
  <2> QED BY <1>1, <1>2, <2>1, <2>2, <2>3 DEF HandInv
<1> QED BY <1>1, <1>3, <1>4, PayerIsStep DEF PayoutStep

-----------------------------------------------------------------------------
\* The alert handler: a row it inserts had no hand before; one it takes over was
\* in review below the cap, which no hand works on (Supersede's count).
LEMMA AlertOpensKeeps ==
  ASSUME TypeInv, HandInv, faults = 0,
         NEW t \in AlertKinds, NEW b \in Claims, AlertOpensClaim(t, b)
  PROVE  HandInv'
<1> DEFINE r == NewRow(t, "pending")
<1>1. /\ UNCHANGED <<process_queue, payout_queue, worker, payer, taken>>
      /\ row[b].status = "absent" /\ Set(b, r) /\ ingest.pc = "idle"
      /\ ingest'.pc = "enqueue" /\ ingest'.job.claim = b
  BY DEF AlertOpensClaim, queues, Idle, Fresh
<1>2. \A c \in Claims \ {b} : row'[c] = row[c]
  BY <1>1 DEF Set, TypeInv, RowsOK
<1>3. row'[b].status = "pending"
  BY <1>1 DEF Set, TypeInv, RowsOK, NewRow, NoRow
<1>4. ASSUME NEW c \in Claims \ taken PROVE ClaimInv(c)'
  <2>0. ClaimInv(c)
    BY <1>4 DEF HandInv
  <2>1. CASE c # b
    <3>1. SameHand(c)
      BY <1>1, <2>1 DEF SameHand, IngestOn
    <3> QED BY <1>2, <2>0, <2>1, <3>1, ElsewhereKept
  <2>2. CASE c = b
    <3>1. HandFree(c)
      BY <1>1, <2>0, <2>2 DEF ClaimInv
    <3>2. InIngest(c)'
      BY <1>1, <2>2, <3>1 DEF HandFree, InIngest, PayerOn, IngestOn
    <3>3. SeenCount(c)'
      BY <1>1, <3>1 DEF SeenCount, HandFree, NobodyOn, PayerOn
    <3> QED BY <1>3, <2>2, <3>2, <3>3 DEF ClaimInv, OneHand
  <2> QED BY <2>1, <2>2
<1> QED BY <1>1, <1>4 DEF HandInv

LEMMA AlertFindsKeeps ==
  ASSUME TypeInv, HandInv, faults = 0,
         NEW t \in AlertKinds, NEW b \in Claims, NEW other_tx \in BOOLEAN,
         AlertFindsParked(t, b, other_tx)
  PROVE  HandInv'
<1> DEFINE seen == [row[b] EXCEPT !.trigger = t]
<1>1. /\ UNCHANGED <<process_queue, payout_queue, worker, payer, row, taken>>
      /\ row[b].status \in Parked /\ ingest.pc = "idle"
      /\ ingest' = [pc |-> "supersede", job |-> Fresh(b), seen |-> seen]
  BY DEF AlertFindsParked, queues
<1>2. seen.data = row[b].data
  BY DEF TypeInv, RowsOK, Row
<1>3. ingest'.pc = "supersede" /\ ingest'.job.claim = b /\ ingest'.seen.data = row[b].data
  <2> HIDE DEF seen
  <2> QED BY <1>1, <1>2 DEF Fresh
<1>4. ASSUME NEW c \in Claims \ taken PROVE ClaimInv(c)'
  <2>0. ClaimInv(c)
    BY <1>4 DEF HandInv
  <2>1. (IngestOn(c)' <=> IngestOn(c)) /\ (PayerOn(c)' <=> PayerOn(c))
    BY <1>1, <1>3 DEF IngestOn, PayerOn
  <2>2. OneHand(c)' <=> OneHand(c)
    BY <1>1, <2>1 DEF OneHand, HandFree, InProcess, InPayout, InWorker, InPayer, InIngest
  <2>3. HandFree(c)' <=> HandFree(c)
    BY <1>1, <2>1 DEF HandFree
  <2>4. SeenCount(c)'
    BY <1>1, <1>3, <2>0 DEF SeenCount, ClaimInv
  <2> QED BY <1>1, <2>0, <2>2, <2>3, <2>4 DEF ClaimInv
<1>5. row[b].status # "absent"
  BY <1>1 DEF Parked
<1> QED BY <1>1, <1>3, <1>4, <1>5 DEF HandInv

LEMMA SupersedeKeeps ==
  ASSUME TypeInv, HandInv, faults = 0, Supersede
  PROVE  HandInv'
<1> DEFINE b == ingest.job.claim
           n == ingest.seen.data.supersedes + 1
           x == [row[b] EXCEPT !.status = "review", !.reason = "other"]
           y == Superseded(row[b], ingest.seen.trigger, n)
<1>1. b \in Claims /\ ingest.seen \in Row /\ ingest.pc = "supersede"
  BY DEF Supersede, TypeInv, IngestOK, Slot, Job
<1>2. row[b] \in Row /\ ingest.seen.data.supersedes \in Nat
  <2>1. ingest.seen.data \in Data
    BY <1>1 DEF Row
  <2> QED BY <1>1, <2>1, KeeperAssumption DEF TypeInv, RowsOK, Data
<1>3. UNCHANGED <<process_queue, payout_queue, worker, payer>>
  BY DEF Supersede, queues
<1>4. x.status = "review" /\ x.data = row[b].data /\ y.status = "pending"
  BY <1>2 DEF Row, Superseded
<1>5. ingest'.pc # "supersede"
  <2> DEFINE s == [ingest EXCEPT !.pc = "enqueue"]
  <2>1. ingest' = Idle \/ ingest' = s
    BY DEF Supersede
  <2>2. s.pc = "enqueue" /\ Idle.pc = "idle"
    BY DEF TypeInv, IngestOK, Slot, Idle
  <2> HIDE DEF s
  <2> QED BY <2>1, <2>2
<1>6. taken \subseteq taken'
  BY DEF Supersede
<1>7. ASSUME NEW c \in Claims \ taken' PROVE ClaimInv(c)'
  <2>0. ClaimInv(c) /\ c \in Claims \ taken
    BY <1>6, <1>7 DEF HandInv
  <2>1. CASE c # b
    <3>1. row'[c] = row[c]
      BY <1>1, <2>1, <2>0 DEF Supersede, Set, TypeInv, RowsOK
    <3>2. ~IngestOn(c) /\ ~IngestOn(c)'
      <4> DEFINE s == [ingest EXCEPT !.pc = "enqueue"]
      <4>1. ingest' = Idle \/ ingest' = s
        BY DEF Supersede
      <4>2. s.job = ingest.job /\ Idle.pc = "idle"
        BY DEF TypeInv, IngestOK, Slot, Idle
      <4> HIDE DEF s
      <4> QED BY <1>1, <2>1, <4>1, <4>2 DEF IngestOn
    <3>3. SameHand(c)
      BY <1>3, <1>5, <3>2 DEF SameHand
    <3> QED BY <2>0, <3>1, <3>3, ElsewhereKept
  <2>2. CASE c = b
    <3>1. ingest.seen.data.supersedes = row[c].data.supersedes
      BY <1>1, <2>0, <2>2 DEF ClaimInv, SeenCount
    <3>2. CASE UNCHANGED row /\ ingest' = Idle
      <4>1. ~IngestOn(c) /\ ~IngestOn(c)'
        BY <1>1, <3>2 DEF IngestOn, Idle
      <4>2. SameHand(c)
        BY <1>3, <1>5, <4>1 DEF SameHand
      <4> QED BY <2>0, <3>2, <4>2, ElsewhereKept
    <3>3. CASE CapReached(n) /\ Set(c, x) /\ ingest' = Idle
      <4>1. ~IngestOn(c) /\ ~IngestOn(c)'
        BY <1>1, <3>3 DEF IngestOn, Idle
      <4>2. SameHand(c)
        BY <1>3, <1>5, <4>1 DEF SameHand
      <4>3. row'[c] = x
        BY <1>1, <2>2, <3>3 DEF Set, TypeInv, RowsOK
      <4>4. row'[c].data = row[c].data /\ row'[c].status = "review"
        BY <1>4, <2>2, <4>3
      <4>5. row[c].data.supersedes >= MAX_SUPERSEDES
        BY <1>2, <3>1, <3>3, KeeperAssumption DEF CapReached
      <4>6. SeenCount(c)'
        BY <1>3, <1>5, <2>0, <4>4 DEF SeenCount, ClaimInv
      <4> QED BY <2>0, <4>2, <4>4, <4>5, <4>6, SameHandKept DEF ClaimInv
    <3>4. CASE /\ ~CapReached(n) /\ row[c].status \in Parked /\ Set(c, y)
               /\ ingest' = [ingest EXCEPT !.pc = "enqueue"]
               /\ row[c].status # "indeterminate"
      <4>1. row[c].status = "review"
        BY <3>4 DEF Parked
      <4>2. ~(row[c].data.supersedes >= MAX_SUPERSEDES)
        BY <1>2, <3>1, <3>4, KeeperAssumption DEF CapReached
      <4>3. HandFree(c)
        BY <2>0, <4>1, <4>2 DEF ClaimInv
      <4>4. ingest'.pc = "enqueue" /\ ingest'.job.claim = c
        BY <1>1, <2>2, <3>4 DEF TypeInv, IngestOK, Slot
      <4>5. InIngest(c)'
        BY <1>3, <4>3, <4>4 DEF HandFree, InIngest, PayerOn, IngestOn
      <4>6. row'[c].status = "pending"
        BY <1>1, <1>4, <2>2, <3>4 DEF Set, TypeInv, RowsOK
      <4>7. SeenCount(c)'
        BY <1>3, <4>3, <4>4 DEF SeenCount, HandFree, NobodyOn, PayerOn
      <4> QED BY <4>5, <4>6, <4>7 DEF ClaimInv, OneHand
    <3> QED BY <1>7, <2>2, <3>2, <3>3, <3>4 DEF Supersede
  <2> QED BY <2>1, <2>2
<1> QED BY <1>5, <1>7 DEF HandInv

LEMMA EnqueueKeeps ==
  ASSUME TypeInv, HandInv, faults = 0, Enqueue
  PROVE  HandInv'
<1> DEFINE b == ingest.job.claim
<1>1. /\ process_queue' = Adding(process_queue, ingest.job) /\ ingest' = Idle
      /\ ingest.pc = "enqueue"
      /\ UNCHANGED <<row, payout_queue, worker, payer, taken>>
  BY DEF Enqueue
<1>2. ingest'.pc = "idle"
  BY <1>1 DEF Idle
<1>3. ASSUME NEW c \in Claims \ taken PROVE ClaimInv(c)'
  <2>0. ClaimInv(c)
    BY <1>3 DEF HandInv
  <2>1. CASE c # b
    <3>1. SameHand(c)
      BY <1>1, <1>2, <2>1, AddElsewhere DEF SameHand, IngestOn
    <3> QED BY <1>1, <2>0, <3>1, ElsewhereKept
  <2>2. CASE c = b
    <3>1. InIngest(c) /\ ~HandFree(c)
      BY <1>1, <2>0, <2>2 DEF ClaimInv, OneHand, HandFree, InProcess, InPayout, InWorker, InPayer,
                              InIngest, IngestOn
    <3>2. OneFor(process_queue', c)
      BY <1>1, <2>2, <3>1, AddOwn DEF InIngest
    <3>3. InProcess(c)'
      BY <1>1, <1>2, <3>1, <3>2 DEF InIngest, InProcess, PayerOn, IngestOn
    <3>4. SeenCount(c)'
      BY <1>1, <1>2, <2>0 DEF SeenCount, ClaimInv
    <3> QED BY <1>1, <2>0, <3>1, <3>3, <3>4, OwnKept DEF OneHand
  <2> QED BY <2>1, <2>2
<1> QED BY <1>1, <1>2, <1>3 DEF HandInv

LEMMA IngestKeeps ==
  ASSUME TypeInv, HandInv, IngestStep
  PROVE  HandInv'
<1>1. faults' = faults
  BY DEF IngestStep, AlertOpensClaim, AlertFindsParked, Supersede, Enqueue
<1>2. CASE faults = 0
  BY <1>2, AlertOpensKeeps, AlertFindsKeeps, SupersedeKeeps, EnqueueKeeps DEF IngestStep
<1>3. CASE faults # 0
  BY <1>1, <1>3 DEF HandInv
<1> QED BY <1>2, <1>3

\* The indexer, the chain, and the initial states.
LEMMA UntouchedKeeps ==
  ASSUME HandInv, UNCHANGED <<row, queues, worker, payer, ingest, faults, taken>>
  PROVE  HandInv'
<1> SUFFICES ASSUME faults' = 0 PROVE HandInv'
  BY DEF HandInv
<1>1. ASSUME NEW c \in Claims \ taken PROVE ClaimInv(c)'
  <2>1. SameHand(c)
    BY DEF SameHand, IngestOn, queues
  <2> QED BY <1>1, <2>1, ElsewhereKept DEF HandInv
<1> QED BY <1>1 DEF HandInv

LEMMA MirrorKeeps ==
  ASSUME TypeInv, HandInv, IndexerWrites
  PROVE  HandInv'
<1>1. UNCHANGED <<queues, worker, payer, ingest, faults, taken>>
  BY DEF IndexerWrites
<1>2. CASE UNCHANGED row
  BY <1>1, <1>2, UntouchedKeeps
<1>3. CASE \E b \in Claims : Mirrors(b) /\ Set(b, NewRow(listing.trigger, "approved"))
  <2> SUFFICES ASSUME faults = 0 PROVE HandInv'
    BY <1>1 DEF HandInv
  <2> PICK b \in Claims : Mirrors(b) /\ Set(b, NewRow(listing.trigger, "approved"))
    BY <1>3
  <2>1. row[b].status = "absent"
    BY DEF Mirrors
  <2>2. row'[b].status = "approved" /\ \A c \in Claims \ {b} : row'[c] = row[c]
    BY DEF Set, TypeInv, RowsOK, NewRow, NoRow
  <2>3. ingest.pc = "supersede" => ingest.job.claim # b
    BY <2>1 DEF HandInv
  <2>4. ingest.pc = "supersede" => ingest.job.claim \in Claims
    BY DEF TypeInv, IngestOK, Job
  <2>5. ASSUME NEW c \in Claims \ taken PROVE ClaimInv(c)'
    <3>1. SameHand(c)
      BY <1>1 DEF SameHand, IngestOn, queues
    <3>2. ClaimInv(c)
      BY <2>5 DEF HandInv
    <3>3. CASE c # b
      BY <2>2, <3>1, <3>2, <3>3, <2>5, ElsewhereKept
    <3>4. CASE c = b
      <4>1. HandFree(c)
        BY <2>1, <3>2, <3>4 DEF ClaimInv
      <4>2. HandFree(c)'
        BY <3>1, <4>1, SameHandKept
      <4>3. SeenCount(c)'
        BY <1>1, <2>3, <3>4, <4>1 DEF SeenCount, HandFree, NobodyOn, PayerOn
      <4> QED BY <2>2, <3>4, <4>2, <4>3 DEF ClaimInv, OneHand
    <3> QED BY <3>3, <3>4
  <2>6. ingest'.pc = "supersede" => row'[ingest'.job.claim].status # "absent"
    BY <1>1, <2>2, <2>3, <2>4 DEF HandInv
  <2> QED BY <1>1, <2>5, <2>6 DEF HandInv
<1> QED BY <1>2, <1>3 DEF IndexerWrites

LEMMA HandInit == Init => HandInv
<1> SUFFICES ASSUME Init PROVE HandInv
  OBVIOUS
<1>1. "none" \notin Claims
  BY KeeperAssumption
<1>2. ASSUME NEW c \in Claims PROVE ClaimInv(c)
  <2>1. HandFree(c)
    BY <1>1 DEF Init, HandFree, NoneFor, NobodyOn, PayerOn, IngestOn, EmptyBag, SetToBag,
                BagToSet, Idle, NoJob
  <2>2. SeenCount(c)
    BY <1>1 DEF Init, SeenCount, Idle, NoJob
  <2>3. row[c].status = "absent"
    BY DEF Init, NoRow
  <2> QED BY <2>1, <2>2, <2>3 DEF ClaimInv, OneHand
<1> QED BY <1>2 DEF HandInv, Init, Idle

\* Every step keeps HandInv, and so does every behaviour.
LEMMA HandStep == TypeInv /\ HandInv /\ [Next]_vars => HandInv'
<1> SUFFICES ASSUME TypeInv, HandInv, [Next]_vars PROVE HandInv'
  OBVIOUS
<1>1. CASE UNCHANGED vars
  BY <1>1, UntouchedKeeps DEF vars, queues
<1>2. CASE IndexerLists
  BY <1>2, UntouchedKeeps DEF IndexerLists
<1>3. CASE ChainStep
  BY <1>3, UntouchedKeeps DEF ChainStep
<1>4. CASE Crash
  BY <1>4 DEF Crash, Fault, HandInv, TypeInv, OthersOK
<1> QED BY <1>1, <1>2, <1>3, <1>4, IngestKeeps, ProcessKeeps, PayoutKeeps, MirrorKeeps DEF Next

LEMMA HandInvariance == Spec => []HandInv
BY HandInit, HandStep, TypeInvariance, PTL DEF Spec

\* What JobsOf sums for a claim that has no job, and for one that has one.
LEMMA NoJobsSum ==
  ASSUME NEW queue, NEW c, NoneFor(queue, c)
  PROVE  JobsOf(queue, c) = 0
<1> DEFINE S == {j \in BagToSet(queue) : j.claim = c}
           Step(g) == [s \in SUBSET S |->
             IF s = {} THEN 0
             ELSE queue[CHOOSE x \in s : TRUE] + g[s \ {CHOOSE x \in s : TRUE}]]
           sum == CHOOSE g : g = Step(g)
           g0 == [s \in SUBSET S |-> 0]
<1>1. S = {}
  BY DEF NoneFor
<1>2. JobsOf(queue, c) = sum[S]
  BY DEF JobsOf, MapThenSumSet, MapThenFoldSet
<1> HIDE DEF S
<1>3. g0 = Step(g0)
  BY <1>1
<1> HIDE DEF g0
<1>4. sum = Step(sum)
  <2> HIDE DEF Step
  <2> QED BY <1>3
<1> HIDE DEF sum
<1>5. sum[S] = 0
  BY <1>1, <1>4
<1> QED BY <1>2, <1>5

LEMMA OneJobSum ==
  ASSUME NEW queue, NEW c, OneFor(queue, c)
  PROVE  JobsOf(queue, c) = 1
<1> PICK job \in BagToSet(queue) :
      /\ job.claim = c /\ queue[job] = 1
      /\ \A other \in BagToSet(queue) : other.claim = c => other = job
  BY DEF OneFor
<1> DEFINE S == {j \in BagToSet(queue) : j.claim = c}
           Step(g) == [s \in SUBSET S |->
             IF s = {} THEN 0
             ELSE queue[CHOOSE x \in s : TRUE] + g[s \ {CHOOSE x \in s : TRUE}]]
           sum == CHOOSE g : g = Step(g)
           g1 == [s \in SUBSET S |-> IF s = {} THEN 0 ELSE 1]
<1>1. S = {job}
  OBVIOUS
<1>2. JobsOf(queue, c) = sum[S]
  BY DEF JobsOf, MapThenSumSet, MapThenFoldSet
<1> HIDE DEF S
<1>3. \A s \in SUBSET S : s = {} \/ s = {job}
  BY <1>1
<1>4. g1 = Step(g1)
  <2>1. ASSUME NEW s \in SUBSET S PROVE g1[s] = Step(g1)[s]
    <3>1. CASE s = {}
      BY <3>1
    <3>2. CASE s = {job}
      <4>1. (CHOOSE x \in s : TRUE) = job
        BY <3>2
      <4>2. s \ {job} = {}
        BY <3>2
      <4>3. g1[{}] = 0 /\ g1[s] = 1
        BY <3>2
      <4>4. Step(g1)[s] = queue[job] + g1[s \ {job}]
        <5>1. Step(g1)[s] = queue[CHOOSE x \in s : TRUE] + g1[s \ {CHOOSE x \in s : TRUE}]
          <6> HIDE DEF g1
          <6> QED BY <3>2
        <5> HIDE DEF Step, g1
        <5> QED BY <5>1, <4>1
      <4> HIDE DEF Step, g1
      <4> QED BY <4>2, <4>3, <4>4
    <3> QED BY <3>1, <3>2, <1>3
  <2> DEFINE h == Step(g1)
  <2>2. g1 = [s \in SUBSET S |-> g1[s]] /\ h = [s \in SUBSET S |-> h[s]]
    OBVIOUS
  <2>3. \A s \in SUBSET S : g1[s] = h[s]
    BY <2>1
  <2>4. g1 = h
    <3> HIDE DEF g1, h
    <3> QED BY <2>2, <2>3
  <2> QED BY <2>4
<1>5. sum = Step(sum)
  <2> HIDE DEF Step, g1
  <2> QED BY <1>4
<1> HIDE DEF sum
<1>6. sum[{}] = 0
  BY <1>5
<1>7. sum[S] = queue[job] + sum[S \ {job}]
  <2>1. S # {} /\ (CHOOSE x \in S : TRUE) = job
    BY <1>1
  <2>2. sum[S] = queue[CHOOSE x \in S : TRUE] + sum[S \ {CHOOSE x \in S : TRUE}]
    BY <1>5, <2>1
  <2> QED BY <2>1, <2>2
<1>8. S \ {job} = {}
  BY <1>1
<1> QED BY <1>2, <1>6, <1>7, <1>8

\* What the slots of the workers count for a claim.
WorkersOn(c) == Cardinality({w \in Workers : worker[w].job.claim = c})

\* They count none or one of them.
LEMMA NobodyCounts ==
  ASSUME NEW c, NobodyOn(c, worker)
  PROVE  WorkersOn(c) = 0
<1>1. {w \in Workers : worker[w].job.claim = c} = {}
  BY DEF NobodyOn
<1> QED BY <1>1, FS_EmptySet DEF WorkersOn

LEMMA SomeoneCounts ==
  ASSUME NEW c, SomeoneOn(c, worker)
  PROVE  WorkersOn(c) = 1
<1> PICK w \in Workers :
      /\ worker[w].job.claim = c
      /\ \A v \in Workers : worker[v].job.claim = c => v = w
  BY DEF SomeoneOn
<1>1. {v \in Workers : worker[v].job.claim = c} = {w}
  OBVIOUS
<1> QED BY <1>1, FS_Singleton DEF WorkersOn

\* One hand is at most one job, slot or alert.
LEMMA OneHandCounts ==
  ASSUME NEW c, OneHand(c)
  PROVE  HandsOn(c) <= 1
<1> DEFINE p == JobsOf(process_queue, c)
           q == JobsOf(payout_queue, c)
           n == WorkersOn(c)
<1>1. HandsOn(c) = p + q + n + (IF PayerOn(c) THEN 1 ELSE 0)
                             + (IF IngestOn(c) THEN 1 ELSE 0)
  BY DEF HandsOn, WorkersOn, PayerOn, IngestOn
<1>2. /\ NoneFor(process_queue, c) => p = 0
      /\ OneFor(process_queue, c) => p = 1
      /\ NoneFor(payout_queue, c) => q = 0
      /\ OneFor(payout_queue, c) => q = 1
      /\ NobodyOn(c, worker) => n = 0
      /\ SomeoneOn(c, worker) => n = 1
  BY NoJobsSum, OneJobSum, NobodyCounts, SomeoneCounts
<1> HIDE DEF p, q, n
<1> QED
  BY <1>1, <1>2 DEF OneHand, HandFree, InProcess, InPayout, InWorker, InPayer, InIngest

\* While nothing fails, two workers never decide one claim: its job is in one
\* queue, or in one slot, or with the alert being ingested (processClaim,
\* handleIndeterminate, executePayout, handleAlert), for any number of claims,
\* workers, alerts and attempts.  Rows taken over while a retry waited are left
\* out: that they do get two is the code's own gap.
THEOREM OneWorkerPerClaim == Spec => []SoleWorker
<1>1. HandInv => SoleWorker
  BY OneHandCounts DEF HandInv, ClaimInv, SoleWorker
<1> QED BY <1>1, HandInvariance, PTL
=============================================================================
