----------------------------- MODULE ChainReads -----------------------------
(***************************************************************************)
(* Reading the chain through several endpoints, and the mirror of the      *)
(* policies that is kept from what they answer.                            *)
(*                                                                         *)
(* The pool (rpc-pool.ts) asks the endpoints in the order they are         *)
(* configured in and leaves out, for a while, one that failed several      *)
(* times running.  Endpoints lag behind the chain, each on its own, so two *)
(* reads in a row may be answered from different moments.  The indexer     *)
(* (policy-indexer.ts) lists the program's policies, refuses a listing     *)
(* older than one it has applied, writes the policies one after another,   *)
(* and then names the proof that settled each paid one.                    *)
(*                                                                         *)
(* One process.  A slot stands for the state of the chain at that slot: a  *)
(* policy mirrored at a slot is mirrored as it was then, and evidence is   *)
(* there from the slot its policy was paid in.                             *)
(***************************************************************************)
EXTENDS Integers, FiniteSets

CONSTANTS
  NumEndpoints,         \* 1 is SOLANA_RPC_URL, the others its fallbacks
  Policies,
  PaidAt,               \* the slot each policy is paid in
  FAILURE_THRESHOLD,    \* failures running that leave an endpoint out
  EJECTION,             \* for how many ticks, after a failure
  RATE_LIMIT_EJECTION,  \* and after a 429
  MaxSlot,              \* bound on the chain
  MaxFaults             \* bound on the calls that fail and the restarts

ASSUME ChainReadsAssumption ==
  /\ {NumEndpoints, FAILURE_THRESHOLD, EJECTION, RATE_LIMIT_EJECTION, MaxSlot}
       \subseteq Nat \ {0}
  /\ MaxFaults \in Nat
  /\ PaidAt \in [Policies -> Nat \ {0}]

Endpoints == 1..NumEndpoints

\* startPolicyIndexer: one reconcile at once, and a scheduled one.
Jobs == {"boot", "tick"}

VARIABLES
  slot,             \* the chain
  served,           \* the slot each endpoint has reached
  dead,             \* endpoints that answer nothing: a spent quota, a bad key
  foreign,          \* fallbacks on another cluster, which stay in the pool
  health,           \* HealthMonitor: failures running, ticks still left out
  lastIndexedSlot,
  job,              \* what each reconcile is doing, and its listing
  mirror,           \* the slot each policy was mirrored at, 0 for never
  proofKind,
  crossed,          \* history: reconciles during which another applied its own
  reborn,           \* history: policies mirrored before the last restart
  faults

clusterVars == <<dead, foreign>>
chainVars   == <<slot, served>>
mirrorVars  == <<mirror, proofKind, reborn>>
indexVars   == <<lastIndexedSlot, job, crossed>>
vars        == <<clusterVars, chainVars, health, mirrorVars, indexVars, faults>>

Fault(n) == faults + n <= MaxFaults /\ faults' = faults + n

-----------------------------------------------------------------------------
(* The pool. *)

Out(e) == health[e].out > 0

Recovered == [fails |-> 0, out |-> 0]

\* Mutated form: one failure short of the threshold leaves an endpoint out.
FailedEarly(h, limited) ==
  LET fails == IF h.fails < FAILURE_THRESHOLD THEN h.fails + 1 ELSE h.fails
  IN [fails |-> fails,
      out   |-> IF fails + 1 < FAILURE_THRESHOLD THEN 0
                ELSE IF limited THEN RATE_LIMIT_EJECTION ELSE EJECTION]

\* A failure beyond the threshold leaves the endpoint out again at once: the
\* count is only reset by an answer.  Bound of the model: failures are counted
\* up to the threshold, the monitor's own count runs on; ejection asks for no
\* more than whether the threshold is reached.
Failed(h, limited) ==
  LET fails == IF h.fails < FAILURE_THRESHOLD THEN h.fails + 1 ELSE h.fails
  IN [fails |-> fails,
      out   |-> IF fails < FAILURE_THRESHOLD THEN 0
                ELSE IF limited THEN RATE_LIMIT_EJECTION ELSE EJECTION]

\* Every endpoint of tried fails, those that work by a fault.
TriedInVain(tried, answering) ==
  /\ Fault(Cardinality(tried \ dead))
  /\ \E limited \in SUBSET tried :
       health' = [e \in Endpoints |->
                    IF e \in tried THEN Failed(health[e], e \in limited)
                    ELSE IF e \in answering THEN Recovered ELSE health[e]]

\* A request that endpoint e answers: those before it are out, or fail.
AnsweredBy(e) ==
  /\ ~Out(e) /\ e \notin dead
  /\ TriedInVain({f \in 1..(e - 1) : ~Out(f)}, {e})

\* AllEndpointsFailedError.
Unanswered == TriedInVain({e \in Endpoints : ~Out(e)}, {})

\* The slot probe asks everyone, and an answer counts as a success.
Probe ==
  /\ \E e \in Endpoints \ dead : health' = [health EXCEPT ![e] = Recovered]
  /\ UNCHANGED <<clusterVars, chainVars, mirrorVars, indexVars, faults>>

Elapse ==
  /\ \E e \in Endpoints : Out(e)
  /\ health' = [e \in Endpoints |->
                  IF Out(e) THEN [health[e] EXCEPT !.out = @ - 1] ELSE health[e]]
  /\ UNCHANGED <<clusterVars, chainVars, mirrorVars, indexVars, faults>>

-----------------------------------------------------------------------------
(* The indexer. *)

Idle == [pc |-> "idle", view |-> 0, todo |-> {}]
Due  == [pc |-> "list", view |-> 0, todo |-> {}]

Schedule ==
  /\ job["tick"].pc = "idle"
  /\ job' = [job EXCEPT !["tick"] = Due]
  /\ UNCHANGED <<clusterVars, chainVars, health, mirrorVars, lastIndexedSlot,
                 crossed, faults>>

\* A listing from the wrong cluster is empty, at any slot.
List(j) ==
  /\ job[j].pc = "list"
  /\ \/ \E e \in Endpoints \ foreign :
          /\ AnsweredBy(e)
          /\ job' = [job EXCEPT ![j] =
                       [pc |-> "apply", view |-> served[e], todo |-> Policies]]
     \/ \E e \in foreign, s \in 1..MaxSlot :
          /\ AnsweredBy(e)
          /\ job' = [job EXCEPT ![j] = [pc |-> "apply", view |-> s, todo |-> {}]]
     \/ Unanswered /\ job' = [job EXCEPT ![j] = Idle]
  /\ UNCHANGED <<clusterVars, chainVars, mirrorVars,
                 lastIndexedSlot, crossed>>

\* Mutated form: a listing one slot behind is let through.
OlderByMore(view) == view + 1 < lastIndexedSlot

\* Mutated form: a listing of the same slot is refused as well.
OlderOrSame(view) == view <= lastIndexedSlot

Older(view) == view < lastIndexedSlot

\* The listing has come back: it is refused, or it is what the mirror will say.
Apply(j) ==
  /\ job[j].pc = "apply"
  /\ IF Older(job[j].view)
     THEN job' = [job EXCEPT ![j] = Idle] /\ UNCHANGED <<lastIndexedSlot, crossed>>
     ELSE /\ lastIndexedSlot' = job[j].view
          /\ job' = [job EXCEPT ![j] = IF job[j].todo = {} THEN Idle
                                       ELSE [job[j] EXCEPT !.pc = "write"]]
          /\ crossed' = (crossed \ {j})
                          \cup {k \in Jobs \ {j} : job[k].pc = "write"}
  /\ UNCHANGED <<clusterVars, chainVars, health, mirrorVars, faults>>

\* One policy is written, whatever its row says by then.
Write(j) ==
  /\ job[j].pc = "write"
  /\ \E p \in job[j].todo :
       /\ mirror' = [mirror EXCEPT ![p] = job[j].view]
       /\ reborn' = reborn \ {p}
       /\ job' = [job EXCEPT ![j] =
                    IF job[j].todo = {p}
                    THEN [job[j] EXCEPT !.pc = "label", !.todo = {}]
                    ELSE [job[j] EXCEPT !.todo = @ \ {p}]]
  /\ UNCHANGED <<clusterVars, chainVars, health, proofKind, lastIndexedSlot,
                 crossed, faults>>

\* The paid claims of the listing that have no label yet.
Unlabelled(j) == {p \in Policies : PaidAt[p] <= job[j].view /\ proofKind[p] = "none"}

\* labelProofKinds: by one read, from whichever endpoint answers it.
Label(j) ==
  /\ job[j].pc = "label"
  /\ \/ Unlabelled(j) = {} /\ UNCHANGED <<proofKind, health, faults>>
     \/ /\ Unlabelled(j) # {}
        /\ \E e \in Endpoints :
             /\ AnsweredBy(e)
             /\ proofKind' = [p \in Policies |->
                  IF p \notin Unlabelled(j) THEN proofKind[p]
                  ELSE IF e \notin foreign /\ PaidAt[p] <= served[e] THEN "proven"
                  ELSE "unproven"]
     \/ Unlabelled(j) # {} /\ Unanswered /\ UNCHANGED proofKind
  /\ job' = [job EXCEPT ![j] = Idle]
  /\ UNCHANGED <<clusterVars, chainVars, mirror, reborn,
                 lastIndexedSlot, crossed>>

-----------------------------------------------------------------------------
\* The process starts again: what it knew is gone, what it wrote is not.
Restart ==
  /\ Fault(1)
  /\ health' = [e \in Endpoints |-> Recovered]
  /\ lastIndexedSlot' = 0
  /\ job' = [boot |-> Due, tick |-> Idle]
  /\ crossed' = {}
  /\ reborn' = {p \in Policies : mirror[p] > 0}
  /\ UNCHANGED <<clusterVars, chainVars, mirror, proofKind>>

Advance ==
  /\ slot < MaxSlot /\ slot' = slot + 1
  /\ UNCHANGED <<served, clusterVars, health, mirrorVars, indexVars, faults>>

CatchUp(e) ==
  /\ served[e] < slot /\ served' = [served EXCEPT ![e] = @ + 1]
  /\ UNCHANGED <<slot, clusterVars, health, mirrorVars, indexVars, faults>>

Init ==
  /\ slot = 1
  /\ served = [e \in Endpoints |-> 1]
  /\ dead \in SUBSET Endpoints
  /\ foreign \in SUBSET (2..NumEndpoints)
  /\ health = [e \in Endpoints |-> Recovered]
  /\ lastIndexedSlot = 0
  /\ job = [boot |-> Due, tick |-> Idle]
  /\ mirror = [p \in Policies |-> 0]
  /\ proofKind = [p \in Policies |-> "none"]
  /\ crossed = {} /\ reborn = {}
  /\ faults = 0

Reconcile(j) == List(j) \/ Apply(j) \/ Write(j) \/ Label(j)

Next ==
  \/ \E j \in Jobs : Reconcile(j)
  \/ Schedule
  \/ Probe \/ Elapse
  \/ Restart
  \/ Advance
  \/ \E e \in Endpoints : CatchUp(e)

Spec == Init /\ [][Next]_vars

\* The scheduler comes round, an await ends in an answer or an error, time
\* passes, and an endpoint that lags is not behind for good.
FairSpec ==
  /\ Spec
  /\ WF_vars(Schedule) /\ \A j \in Jobs : WF_vars(Reconcile(j))
  /\ WF_vars(Elapse)
  /\ \A e \in Endpoints : WF_vars(CatchUp(e))
-----------------------------------------------------------------------------
(* Properties. *)

Larger(a, b) == IF a > b THEN a ELSE b

\* Endpoints never pass the chain, nor the indexer the newest listing, and an
\* endpoint is out only after failures running and for no longer than a 429.
ReadsTypeOK ==
  /\ slot \in 1..MaxSlot /\ served \in [Endpoints -> 1..slot]
  /\ dead \subseteq Endpoints /\ foreign \subseteq Endpoints \ {1}
  /\ health \in [Endpoints -> [fails : 0..FAILURE_THRESHOLD,
                               out   : 0..Larger(EJECTION, RATE_LIMIT_EJECTION)]]
  /\ \A e \in Endpoints : Out(e) => health[e].fails = FAILURE_THRESHOLD
  /\ job \in [Jobs -> [pc   : {"idle", "list", "apply", "write", "label"},
                       view : 0..MaxSlot, todo : SUBSET Policies]]
  /\ lastIndexedSlot \in 0..MaxSlot
  /\ mirror \in [Policies -> 0..slot]
  /\ proofKind \in [Policies -> {"none", "proven", "unproven"}]
  /\ crossed \subseteq Jobs /\ reborn \subseteq Policies
  /\ faults \in 0..MaxFaults

\* "A lagging endpoint cannot walk state back": whichever endpoints answer,
\* fail or lag, a policy is mirrored as of an earlier slot only by a reconcile
\* that another has overtaken since its listing was let through, or of a policy
\* that was last written before the process started.
NeverBackAlone ==
  [][\A j \in Jobs, p \in Policies :
       Write(j) /\ mirror'[p] < mirror[p] => j \in crossed \/ p \in reborn]_vars

\* "Reconcile against a partial view" never lasts: while every fallback is on
\* the right cluster and one endpoint works, the mirror ends up as the chain,
\* through failures, ejections, restarts and the reconcile that was overtaken.
MirrorCatchesUp ==
  foreign = {} /\ dead # Endpoints => <>[](\A p \in Policies : mirror[p] = slot)
=============================================================================
