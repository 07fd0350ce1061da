---------------------------- MODULE MCSettlement ----------------------------
(* Small instances of the balance-proven settlements for TLC.  The pool has  *)
(* no stakers' money here: premiums alone fund the payouts.                  *)
EXTENDS Settlement, TLC

CONSTANT SlowLock   \* the lock of an agent-error claim

MCLockPeriod == [t \in Triggers |-> IF t = AGENT_ERROR THEN SlowLock ELSE 1]
MCPremiumBps == [t \in Tiers |-> 2]
=============================================================================
