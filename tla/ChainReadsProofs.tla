-------------------------- MODULE ChainReadsProofs --------------------------
(***************************************************************************)
(* Proofs about ChainReads, for any number of endpoints and policies: the  *)
(* mirror is well typed and never ahead of the chain, and what is true of  *)
(* the slots it is written at.                                             *)
(***************************************************************************)
EXTENDS ChainReads, FiniteSetTheorems, TLAPS

USE ChainReadsAssumption DEF Endpoints, Jobs

\* A listing that still has policies to write is one the chain has reached.
ListedIsReached ==
  \A j \in Jobs : job[j].todo # {} => job[j].view <= slot

\* A listing being written is no newer than the newest let through, and is the
\* newest unless another was let through since.
WritersBehind ==
  \A j \in Jobs :
    job[j].pc = "write" =>
      /\ job[j].view <= lastIndexedSlot
      /\ j \in crossed \/ job[j].view = lastIndexedSlot

\* What this process wrote is no newer than the newest it let through.
MirroredBehind ==
  \A p \in Policies : p \in reborn \/ mirror[p] <= lastIndexedSlot

ReadsInv == ReadsTypeOK /\ ListedIsReached /\ WritersBehind /\ MirroredBehind

JobRecord ==
  [pc : {"idle", "list", "apply", "write", "label"},
   view : 0..MaxSlot, todo : SUBSET Policies]
HealthRecord ==
  [fails : 0..FAILURE_THRESHOLD, out : 0..Larger(EJECTION, RATE_LIMIT_EJECTION)]

\* A health record stays one, and an endpoint is out only at the threshold.
LEMMA FailedSound ==
  ASSUME NEW h \in HealthRecord, NEW limited
  PROVE  /\ Failed(h, limited) \in HealthRecord
         /\ Failed(h, limited).out > 0 => Failed(h, limited).fails = FAILURE_THRESHOLD
  BY DEF Failed, HealthRecord, Larger

LEMMA TriedSound ==
  ASSUME ReadsTypeOK, NEW tried \in SUBSET Endpoints, NEW answering,
         TriedInVain(tried, answering)
  PROVE  /\ health' \in [Endpoints -> HealthRecord]
         /\ \A e \in Endpoints : health'[e].out > 0 => health'[e].fails = FAILURE_THRESHOLD
         /\ faults' \in 0..MaxFaults
<1>1. PICK limited \in SUBSET tried :
        health' = [e \in Endpoints |->
                     IF e \in tried THEN Failed(health[e], e \in limited)
                     ELSE IF e \in answering THEN Recovered ELSE health[e]]
  BY DEF TriedInVain
<1>2. \A e \in Endpoints : health[e] \in HealthRecord
  BY DEF ReadsTypeOK, HealthRecord
<1>3. Recovered \in HealthRecord /\ Recovered.out = 0
  BY DEF Recovered, HealthRecord, Larger
<1>4. ASSUME NEW e \in Endpoints
      PROVE  /\ health'[e] \in HealthRecord
             /\ health'[e].out > 0 => health'[e].fails = FAILURE_THRESHOLD
  <2>1. CASE e \in tried
    <3>1. health'[e] = Failed(health[e], e \in limited)
      BY <1>1, <2>1
    <3> QED
      BY <1>2, <3>1, FailedSound
  <2>2. CASE e \notin tried
    <3>1. health'[e] = Recovered \/ health'[e] = health[e]
      BY <1>1, <2>2
    <3> QED
      BY <1>2, <1>3, <3>1 DEF ReadsTypeOK, Out
  <2> QED
    BY <2>1, <2>2
<1>5. faults' \in 0..MaxFaults
  <2>1. IsFiniteSet(tried \ dead)
    <3>1. IsFiniteSet(Endpoints)
      BY FS_Interval
    <3> QED
      BY <3>1, FS_Subset
  <2>2. Cardinality(tried \ dead) \in Nat
    BY <2>1, FS_CardinalityType
  <2> QED
    BY <2>2 DEF TriedInVain, Fault, ReadsTypeOK
<1> QED
  <2>1. health' \in [Endpoints -> HealthRecord]
    BY <1>1, <1>4
  <2> QED
    BY <1>4, <1>5, <2>1

LEMMA AnsweredSound ==
  ASSUME ReadsTypeOK, NEW e \in Endpoints, AnsweredBy(e)
  PROVE  /\ health' \in [Endpoints -> HealthRecord]
         /\ \A f \in Endpoints : health'[f].out > 0 => health'[f].fails = FAILURE_THRESHOLD
         /\ faults' \in 0..MaxFaults
<1>1. {f \in 1..(e - 1) : ~Out(f)} \in SUBSET Endpoints
  OBVIOUS
<1> QED
  BY <1>1, TriedSound DEF AnsweredBy

LEMMA UnansweredSound ==
  ASSUME ReadsTypeOK, Unanswered
  PROVE  /\ health' \in [Endpoints -> HealthRecord]
         /\ \A f \in Endpoints : health'[f].out > 0 => health'[f].fails = FAILURE_THRESHOLD
         /\ faults' \in 0..MaxFaults
  BY TriedSound DEF Unanswered

-----------------------------------------------------------------------------
(* The invariant. *)

\* What a step that leaves the reconciles and the mirror alone must keep.
LEMMA ReadsFrame ==
  ASSUME ReadsInv, UNCHANGED <<mirrorVars, indexVars>>, slot' \in Nat, slot <= slot'
  PROVE  /\ ListedIsReached' /\ WritersBehind' /\ MirroredBehind'
         /\ mirror' \in [Policies -> 0..slot']
<1>1. ListedIsReached'
  BY DEF ReadsInv, ReadsTypeOK, ListedIsReached, indexVars
<1>2. WritersBehind' /\ MirroredBehind'
  BY DEF ReadsInv, WritersBehind, MirroredBehind, indexVars, mirrorVars
<1>3. mirror' \in [Policies -> 0..slot']
  BY DEF ReadsInv, ReadsTypeOK, mirrorVars
<1> QED
  BY <1>1, <1>2, <1>3

LEMMA InitReads == Init => ReadsInv
<1> SUFFICES ASSUME Init PROVE ReadsInv
  OBVIOUS
<1>1. ReadsTypeOK
  BY DEF Init, ReadsTypeOK, Recovered, Due, Idle, Out, Larger
<1>2. ListedIsReached /\ WritersBehind /\ MirroredBehind
  BY DEF Init, ListedIsReached, WritersBehind, MirroredBehind, Due, Idle
<1> QED
  BY <1>1, <1>2 DEF ReadsInv

LEMMA IdleRecord == Idle \in JobRecord /\ Idle.pc = "idle" /\ Idle.todo = {}
  BY DEF Idle, JobRecord

LEMMA ListSound ==
  ASSUME ReadsInv, NEW j \in Jobs, List(j)
  PROVE  ReadsInv'
<1>1. /\ UNCHANGED <<clusterVars, chainVars, mirrorVars, lastIndexedSlot, crossed>>
      /\ job[j].pc = "list"
  BY DEF List
<1>2. /\ health' \in [Endpoints -> HealthRecord]
      /\ \A e \in Endpoints : health'[e].out > 0 => health'[e].fails = FAILURE_THRESHOLD
      /\ faults' \in 0..MaxFaults
  BY AnsweredSound, UnansweredSound DEF List, ReadsInv, ReadsTypeOK
<1>3. PICK r \in JobRecord :
        /\ job' = [job EXCEPT ![j] = r]
        /\ r.pc # "write"
        /\ r.todo # {} => r.view <= slot
  <2>1. CASE \E e \in Endpoints \ foreign :
               job' = [job EXCEPT ![j] =
                         [pc |-> "apply", view |-> served[e], todo |-> Policies]]
    <3>1. PICK e \in Endpoints :
            job' = [job EXCEPT ![j] =
                      [pc |-> "apply", view |-> served[e], todo |-> Policies]]
      BY <2>1
    <3>2. served[e] \in 0..MaxSlot /\ served[e] <= slot
      BY DEF ReadsInv, ReadsTypeOK
    <3>3. [pc |-> "apply", view |-> served[e], todo |-> Policies] \in JobRecord
      BY <3>2 DEF JobRecord
    <3> QED
      BY <3>1, <3>2, <3>3
  <2>2. CASE \E s \in 1..MaxSlot :
               job' = [job EXCEPT ![j] = [pc |-> "apply", view |-> s, todo |-> {}]]
    <3>1. PICK s \in 1..MaxSlot :
            job' = [job EXCEPT ![j] = [pc |-> "apply", view |-> s, todo |-> {}]]
      BY <2>2
    <3>2. [pc |-> "apply", view |-> s, todo |-> {}] \in JobRecord
      BY DEF JobRecord
    <3> QED
      BY <3>1, <3>2
  <2>3. CASE job' = [job EXCEPT ![j] = Idle]
    BY <2>3, IdleRecord
  <2> QED
    BY <2>1, <2>2, <2>3 DEF List
<1>4. ReadsTypeOK'
  BY <1>1, <1>2, <1>3
  DEF ReadsInv, ReadsTypeOK, HealthRecord, JobRecord, Out, clusterVars, chainVars, mirrorVars
<1>5. ListedIsReached'
  BY <1>1, <1>3 DEF ReadsInv, ReadsTypeOK, ListedIsReached, chainVars
<1>6. WritersBehind' /\ MirroredBehind'
  BY <1>1, <1>3 DEF ReadsInv, ReadsTypeOK, WritersBehind, MirroredBehind, mirrorVars
<1> QED
  BY <1>4, <1>5, <1>6 DEF ReadsInv

LEMMA ApplySound ==
  ASSUME ReadsInv, NEW j \in Jobs, Apply(j)
  PROVE  ReadsInv'
<1>1. /\ UNCHANGED <<clusterVars, chainVars, health, mirrorVars, faults>>
      /\ job[j].pc = "apply"
      /\ job[j] \in JobRecord
      /\ job[j].todo # {} => job[j].view <= slot
  BY DEF Apply, ReadsInv, ReadsTypeOK, JobRecord, ListedIsReached
<1>2. CASE Older(job[j].view)
  <2>1. /\ job' = [job EXCEPT ![j] = Idle]
        /\ UNCHANGED <<lastIndexedSlot, crossed>>
    BY <1>2 DEF Apply
  <2>2. ReadsTypeOK'
    BY <1>1, <2>1 DEF ReadsInv, ReadsTypeOK, Out, Idle, clusterVars, chainVars, mirrorVars
  <2>3. ListedIsReached' /\ WritersBehind' /\ MirroredBehind'
    BY <1>1, <2>1
    DEF ReadsInv, ReadsTypeOK, ListedIsReached, WritersBehind, MirroredBehind, Idle,
        chainVars, mirrorVars
  <2> QED
    BY <2>2, <2>3 DEF ReadsInv
<1>3. CASE ~Older(job[j].view)
  <2>1. /\ lastIndexedSlot' = job[j].view
        /\ lastIndexedSlot <= job[j].view
        /\ crossed' = (crossed \ {j}) \cup {k \in Jobs \ {j} : job[k].pc = "write"}
    BY <1>1, <1>3 DEF Apply, Older, ReadsInv, ReadsTypeOK, JobRecord
  <2>2. PICK r \in JobRecord :
          /\ job' = [job EXCEPT ![j] = r]
          /\ r.pc = "write" => r.view = job[j].view
          /\ r.todo # {} => r.view <= slot
    <3>1. CASE job' = [job EXCEPT ![j] = Idle]
      BY <3>1, IdleRecord
    <3>2. CASE job' = [job EXCEPT ![j] = [job[j] EXCEPT !.pc = "write"]]
      <4>1. [job[j] EXCEPT !.pc = "write"] \in JobRecord
        BY <1>1 DEF JobRecord
      <4> QED
        BY <1>1, <3>2, <4>1 DEF JobRecord
    <3> QED
      BY <1>3, <3>1, <3>2 DEF Apply
  <2>3. ReadsTypeOK'
    <3>1. crossed' \subseteq Jobs /\ lastIndexedSlot' \in 0..MaxSlot
      BY <1>1, <2>1 DEF ReadsInv, ReadsTypeOK, JobRecord
    <3>2. job' \in [Jobs -> JobRecord]
      BY <2>2 DEF ReadsInv, ReadsTypeOK, JobRecord
    <3> QED
      BY <1>1, <3>1, <3>2
      DEF ReadsInv, ReadsTypeOK, JobRecord, Out, clusterVars, chainVars, mirrorVars
  <2>4. ListedIsReached'
    BY <1>1, <2>2 DEF ReadsInv, ReadsTypeOK, ListedIsReached, chainVars
  <2>5. WritersBehind'
    <3> SUFFICES ASSUME NEW k \in Jobs, job'[k].pc = "write"
                 PROVE  /\ job'[k].view <= lastIndexedSlot'
                        /\ k \in crossed' \/ job'[k].view = lastIndexedSlot'
      BY DEF WritersBehind
    <3>1. CASE k = j
      BY <1>1, <2>1, <2>2, <3>1 DEF ReadsInv, ReadsTypeOK, JobRecord
    <3>2. CASE k # j
      <4>1. job'[k] = job[k] /\ job[k] \in JobRecord
        BY <2>2, <3>2 DEF ReadsInv, ReadsTypeOK, JobRecord
      <4> QED
        BY <1>1, <2>1, <3>2, <4>1 DEF ReadsInv, ReadsTypeOK, WritersBehind, JobRecord
    <3> QED
      BY <3>1, <3>2
  <2>6. MirroredBehind'
    BY <1>1, <2>1 DEF ReadsInv, ReadsTypeOK, MirroredBehind, JobRecord, mirrorVars
  <2> QED
    BY <2>3, <2>4, <2>5, <2>6 DEF ReadsInv
<1> QED
  BY <1>2, <1>3

LEMMA WriteSound ==
  ASSUME ReadsInv, NEW j \in Jobs, Write(j)
  PROVE  /\ ReadsInv'
         /\ \A p \in Policies : mirror'[p] < mirror[p] => j \in crossed \/ p \in reborn
<1>1. PICK p \in job[j].todo :
        /\ mirror' = [mirror EXCEPT ![p] = job[j].view]
        /\ reborn' = reborn \ {p}
        /\ job' = [job EXCEPT ![j] =
                     IF job[j].todo = {p}
                     THEN [job[j] EXCEPT !.pc = "label", !.todo = {}]
                     ELSE [job[j] EXCEPT !.todo = @ \ {p}]]
  BY DEF Write
<1>2. /\ UNCHANGED <<clusterVars, chainVars, health, proofKind, lastIndexedSlot,
                     crossed, faults>>
      /\ job[j].pc = "write"
  BY DEF Write
<1>3. /\ job[j] \in JobRecord
      /\ p \in Policies
      /\ job[j].view \in 0..slot
      /\ job[j].view <= lastIndexedSlot
      /\ j \in crossed \/ job[j].view = lastIndexedSlot
  BY <1>1, <1>2
  DEF ReadsInv, ReadsTypeOK, ListedIsReached, WritersBehind, JobRecord
<1>4. PICK r \in JobRecord :
        /\ job' = [job EXCEPT ![j] = r]
        /\ r.view = job[j].view
  <2>1. /\ [job[j] EXCEPT !.pc = "label", !.todo = {}] \in JobRecord
        /\ [job[j] EXCEPT !.todo = @ \ {p}] \in JobRecord
    BY <1>3 DEF JobRecord
  <2> QED
    BY <1>1, <1>3, <2>1 DEF JobRecord
<1>5. ReadsTypeOK'
  <2>1. job' \in [Jobs -> JobRecord]
    BY <1>4 DEF ReadsInv, ReadsTypeOK, JobRecord
  <2>2. mirror' \in [Policies -> 0..slot'] /\ reborn' \subseteq Policies
    BY <1>1, <1>2, <1>3 DEF ReadsInv, ReadsTypeOK, chainVars
  <2> QED
    BY <1>2, <2>1, <2>2 DEF ReadsInv, ReadsTypeOK, JobRecord, Out, clusterVars, chainVars
<1>6. ListedIsReached' /\ WritersBehind'
  BY <1>2, <1>3, <1>4 DEF ReadsInv, ReadsTypeOK, ListedIsReached, WritersBehind, chainVars
<1>7. MirroredBehind'
  BY <1>1, <1>2, <1>3 DEF ReadsInv, ReadsTypeOK, MirroredBehind
<1>8. \A q \in Policies : mirror'[q] < mirror[q] => j \in crossed \/ q \in reborn
  BY <1>1, <1>3 DEF ReadsInv, ReadsTypeOK, MirroredBehind
<1> QED
  BY <1>5, <1>6, <1>7, <1>8 DEF ReadsInv

LEMMA LabelSound ==
  ASSUME ReadsInv, NEW j \in Jobs, Label(j)
  PROVE  ReadsInv'
<1>1. /\ UNCHANGED <<clusterVars, chainVars, mirror, reborn, lastIndexedSlot, crossed>>
      /\ job' = [job EXCEPT ![j] = Idle]
  BY DEF Label
<1>2. /\ health' \in [Endpoints -> HealthRecord]
      /\ \A e \in Endpoints : health'[e].out > 0 => health'[e].fails = FAILURE_THRESHOLD
      /\ faults' \in 0..MaxFaults
  <2>1. CASE UNCHANGED <<health, faults>>
    BY <2>1 DEF ReadsInv, ReadsTypeOK, HealthRecord, Out
  <2> QED
    BY <2>1, AnsweredSound, UnansweredSound DEF Label, ReadsInv
<1>3. proofKind' \in [Policies -> {"none", "proven", "unproven"}]
  BY DEF Label, ReadsInv, ReadsTypeOK
<1>4. ReadsTypeOK'
  BY <1>1, <1>2, <1>3
  DEF ReadsInv, ReadsTypeOK, HealthRecord, Idle, Out, clusterVars, chainVars
<1>5. ListedIsReached' /\ WritersBehind' /\ MirroredBehind'
  BY <1>1
  DEF ReadsInv, ReadsTypeOK, ListedIsReached, WritersBehind, MirroredBehind, Idle, chainVars
<1> QED
  BY <1>4, <1>5 DEF ReadsInv

LEMMA HealthSound ==
  ASSUME ReadsInv, Probe \/ Elapse
  PROVE  ReadsInv'
<1>1. UNCHANGED <<clusterVars, chainVars, mirrorVars, indexVars, faults>>
  BY DEF Probe, Elapse
<1>2. /\ health' \in [Endpoints -> HealthRecord]
      /\ \A e \in Endpoints : health'[e].out > 0 => health'[e].fails = FAILURE_THRESHOLD
  <2>1. CASE Probe
    BY <2>1 DEF Probe, ReadsInv, ReadsTypeOK, HealthRecord, Recovered, Out, Larger
  <2>2. CASE Elapse
    <3>1. \A e \in Endpoints : health[e] \in HealthRecord
      BY DEF ReadsInv, ReadsTypeOK, HealthRecord
    <3>2. \A e \in Endpoints :
            Out(e) => /\ [health[e] EXCEPT !.out = @ - 1] \in HealthRecord
                      /\ [health[e] EXCEPT !.out = @ - 1].fails = health[e].fails
      BY <3>1 DEF HealthRecord, Out, Larger
    <3> QED
      BY <2>2, <3>1, <3>2 DEF Elapse, ReadsInv, ReadsTypeOK, Out
  <2> QED
    BY <2>1, <2>2
<1>3. ReadsTypeOK'
  BY <1>1, <1>2
  DEF ReadsInv, ReadsTypeOK, HealthRecord, Out, clusterVars, chainVars, mirrorVars, indexVars
<1>4. slot' \in Nat /\ slot <= slot' /\ UNCHANGED <<mirrorVars, indexVars>>
  BY <1>1 DEF ReadsInv, ReadsTypeOK, chainVars
<1> QED
  BY <1>3, <1>4, ReadsFrame DEF ReadsInv

LEMMA RestartSound ==
  ASSUME ReadsInv, Restart
  PROVE  ReadsInv'
<1>1. ReadsTypeOK'
  BY DEF Restart, Fault, ReadsInv, ReadsTypeOK, Recovered, Due, Idle, Out, Larger,
         clusterVars, chainVars
<1>2. ListedIsReached' /\ WritersBehind' /\ MirroredBehind'
  BY DEF Restart, ReadsInv, ReadsTypeOK, ListedIsReached, WritersBehind, MirroredBehind,
         Due, Idle, chainVars
<1> QED
  BY <1>1, <1>2 DEF ReadsInv

LEMMA ChainSound ==
  ASSUME ReadsInv, Advance \/ \E e \in Endpoints : CatchUp(e)
  PROVE  ReadsInv'
<1>1. UNCHANGED <<clusterVars, health, mirrorVars, indexVars, faults>>
  BY DEF Advance, CatchUp
<1>2. slot' \in 1..MaxSlot /\ slot <= slot' /\ served' \in [Endpoints -> 1..slot']
  <2>1. CASE Advance
    BY <2>1 DEF Advance, ReadsInv, ReadsTypeOK
  <2>2. CASE \E e \in Endpoints : CatchUp(e)
    <3>1. PICK e \in Endpoints :
            /\ served[e] < slot /\ served' = [served EXCEPT ![e] = @ + 1]
            /\ slot' = slot
      BY <2>2 DEF CatchUp
    <3>2. /\ slot \in 1..MaxSlot /\ served \in [Endpoints -> 1..slot]
          /\ served[e] + 1 \in 1..slot
      BY <3>1 DEF ReadsInv, ReadsTypeOK
    <3> QED
      BY <3>1, <3>2
  <2> QED
    BY <2>1, <2>2
<1>3. /\ ListedIsReached' /\ WritersBehind' /\ MirroredBehind'
      /\ mirror' \in [Policies -> 0..slot']
  BY <1>1, <1>2, ReadsFrame
<1>4. ReadsTypeOK'
  BY <1>1, <1>2, <1>3 DEF ReadsInv, ReadsTypeOK, Out, clusterVars, mirrorVars, indexVars
<1> QED
  BY <1>3, <1>4 DEF ReadsInv

LEMMA ScheduleSound ==
  ASSUME ReadsInv, Schedule
  PROVE  ReadsInv'
<1>1. ReadsTypeOK'
  BY DEF Schedule, ReadsInv, ReadsTypeOK, Due, Out, clusterVars, chainVars, mirrorVars
<1>2. ListedIsReached' /\ WritersBehind' /\ MirroredBehind'
  BY DEF Schedule, ReadsInv, ReadsTypeOK, ListedIsReached, WritersBehind, MirroredBehind,
         Due, chainVars, mirrorVars
<1> QED
  BY <1>1, <1>2 DEF ReadsInv

LEMMA StutterSound ==
  ASSUME ReadsInv, UNCHANGED vars
  PROVE  ReadsInv'
<1>1. ReadsTypeOK'
  BY DEF ReadsInv, ReadsTypeOK, Out, vars, clusterVars, chainVars, mirrorVars, indexVars
<1>2. slot' \in Nat /\ slot <= slot' /\ UNCHANGED <<mirrorVars, indexVars>>
  BY DEF ReadsInv, ReadsTypeOK, vars, chainVars
<1> QED
  BY <1>1, <1>2, ReadsFrame DEF ReadsInv

LEMMA ReadsStep == ReadsInv /\ [Next]_vars => ReadsInv'
  BY ListSound, ApplySound, WriteSound, LabelSound, HealthSound, RestartSound,
     ChainSound, ScheduleSound, StutterSound DEF Next, Reconcile

LEMMA ReadsAlways == Spec => []ReadsInv
  BY InitReads, ReadsStep, PTL DEF Spec

-----------------------------------------------------------------------------
\* Whatever the number of endpoints and policies, an endpoint is only ever left
\* out after FAILURE_THRESHOLD failures running and the mirror is never ahead
\* of the chain (rpc-pool.ts HealthMonitor, policy-indexer.ts).
THEOREM ReadsTypeCorrect == Spec => []ReadsTypeOK
  BY ReadsAlways, PTL DEF ReadsInv

\* A lagging endpoint does not walk a policy's row back by itself: it takes an
\* overlapping reconcile, or a restart since (policy-indexer.ts, slot guard).
THEOREM MirrorNeverBackAlone == Spec => NeverBackAlone
<1>1. ReadsInv /\ [Next]_vars
        => [\A j \in Jobs, p \in Policies :
              Write(j) /\ mirror'[p] < mirror[p] => j \in crossed \/ p \in reborn]_vars
  BY WriteSound
<1> QED
  BY <1>1, ReadsAlways, PTL DEF Spec, NeverBackAlone

=============================================================================
