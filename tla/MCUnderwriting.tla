--------------------------- MODULE MCUnderwriting ---------------------------
(* Small instances of underwriting and of the price settlement for TLC. *)
EXTENDS Underwriting, TLC

CONSTANTS f1, f2, m1, m2

MCAttestedTiers == {LOW}
MCLockPeriod == [t \in Triggers |-> 1]
MCPremiumBps == [t \in Tiers |-> IF t = HIGH THEN 5 ELSE 2]
\* One feed moves, the other does not.
MCMarket == [f \in Feeds |-> [t \in 1..Horizon |-> IF f = f1 /\ t > 2 THEN 4 ELSE 2]]
MCScale == [d \in Decimals |-> d + 1]
KeySymmetry == Permutations(Keys)
MCEnvelopePrice == [m \in Mandates |-> IF m = m1 THEN 1 ELSE 12]
=============================================================================
