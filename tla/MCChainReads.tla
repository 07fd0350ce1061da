---------------------------- MODULE MCChainReads ----------------------------
(* A small instance of ChainReads: policies paid at slots of their own.     *)
EXTENDS ChainReads

CONSTANT Late   \* a policy that is paid later

MCPaidAt == [p \in Policies |-> IF p = Late THEN 2 ELSE 1]
=============================================================================
