-------------------------- MODULE PolicyLifecycle --------------------------
(***************************************************************************)
(* What an insurance policy promises, independently of money and evidence: *)
(* it is opened once, at most one claim is filed on it before its expiry,  *)
(* it is paid at most once, no earlier than the claim's lock, and it ends  *)
(* in exactly one of three final phases.  A claim is never raced: a        *)
(* pending policy may be closed unpaid only once the grace that follows    *)
(* its lock has passed.                                                    *)
(*                                                                         *)
(* The modules that model the program's instructions implement this        *)
(* specification through a refinement mapping onto the variables below.    *)
(***************************************************************************)
EXTENDS Integers

CONSTANTS
  Policies,          \* identifiers a policy may take
  Triggers,          \* the kinds of claim
  LockPeriod,        \* LockPeriod[t]: delay between filing and payment
  Grace              \* delay past the lock before a pending claim may lapse

VARIABLES
  now,               \* the ledger's clock
  phase,             \* phase[p]: where policy p stands
  cover,             \* cover[p]: the most it may ever pay
  expiry,            \* expiry[p]: when its cover ends
  claim,             \* claim[p]: when a claim was filed and of which kind
  paid               \* paid[p]: what was paid on it

lifecycleVars == <<now, phase, cover, expiry, claim, paid>>

Unopened  == "unopened"
Active    == "Active"
Pending   == "ClaimPending"
Paid      == "ClaimPaid"
Expired   == "Expired"
Cancelled == "Cancelled"

Phases   == {Unopened, Active, Pending, Paid, Expired, Cancelled}
Terminal == {Paid, Expired, Cancelled}
NoClaim  == [at |-> 0, trigger |-> "none"]

LifecycleInit ==
  /\ now \in Nat \ {0}
  /\ phase = [p \in Policies |-> Unopened]
  /\ cover = [p \in Policies |-> 0]
  /\ expiry = [p \in Policies |-> 0]
  /\ claim = [p \in Policies |-> NoClaim]
  /\ paid = [p \in Policies |-> 0]

Advance ==
  /\ now' \in Nat
  /\ now' > now
  /\ UNCHANGED <<phase, cover, expiry, claim, paid>>

Open(p) ==
  /\ phase[p] = Unopened
  /\ phase' = [phase EXCEPT ![p] = Active]
  /\ cover' = [cover EXCEPT ![p] = cover'[p]]
  /\ cover'[p] \in Nat \ {0}
  /\ expiry' = [expiry EXCEPT ![p] = expiry'[p]]
  /\ expiry'[p] > now
  /\ UNCHANGED <<now, claim, paid>>

File(p) ==
  /\ phase[p] = Active
  /\ now < expiry[p]
  /\ phase' = [phase EXCEPT ![p] = Pending]
  /\ \E t \in Triggers : claim' = [claim EXCEPT ![p] = [at |-> now, trigger |-> t]]
  /\ UNCHANGED <<now, cover, expiry, paid>>

LockEnd(p) == claim[p].at + LockPeriod[claim[p].trigger]

Settle(p) ==
  /\ phase[p] = Pending
  /\ now >= LockEnd(p)
  /\ phase' = [phase EXCEPT ![p] = Paid]
  /\ \E amount \in 1..cover[p] : paid' = [paid EXCEPT ![p] = amount]
  /\ UNCHANGED <<now, cover, expiry, claim>>

Withdraw(p) ==
  /\ phase[p] = Active
  /\ now < expiry[p]
  /\ phase' = [phase EXCEPT ![p] = Cancelled]
  /\ UNCHANGED <<now, cover, expiry, claim, paid>>

Lapse(p) ==
  /\ now >= expiry[p]
  /\ \/ phase[p] = Active
     \/ phase[p] = Pending /\ now >= LockEnd(p) + Grace
  /\ phase' = [phase EXCEPT ![p] = Expired]
  /\ UNCHANGED <<now, cover, expiry, claim, paid>>

LifecycleNext ==
  \/ Advance
  \/ \E p \in Policies :
       Open(p) \/ File(p) \/ Settle(p) \/ Withdraw(p) \/ Lapse(p)

LifecycleSpec == LifecycleInit /\ [][LifecycleNext]_lifecycleVars
=============================================================================
