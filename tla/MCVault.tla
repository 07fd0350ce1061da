------------------------------ MODULE MCVault ------------------------------
(* Small instances of the insurance pool for TLC. *)
EXTENDS Vault, TLC

CONSTANT SlowTrigger   \* the claim kind with the longer lock

MCLockPeriod == [t \in Triggers |-> IF t = SlowTrigger THEN 2 ELSE 1]
MCPremiumBps == [t \in Tiers |-> IF t = HIGH THEN 5 ELSE 2]

StakerSymmetry == Permutations(Stakers)
=============================================================================
