---------------------------- MODULE MCGovernance ----------------------------
(* Small instances of the authority-proven settlement for TLC. *)
EXTENDS Governance, TLC

CONSTANT SlowLock   \* the lock of a governance claim

MCLockPeriod ==
  [t \in Triggers |-> IF t = GOVERNANCE_ATTACK THEN SlowLock ELSE 1]
MCPremiumBps == [t \in Tiers |-> 2]

\* The family alone, and a key declared for one role.
MCManifests ==
  {[owner |-> Holder, delegate |-> d, close_authority |-> NoKey, extras |-> {}]
     : d \in {NoKey} \cup Outsiders}

MCOpenings == {NoKey} \cup Outsiders
=============================================================================
