--------------------------- MODULE MCClaimKeeper ---------------------------
(***************************************************************************)
(* One policy, with one or two rows and one or two slots of the worker.    *)
(***************************************************************************)
EXTENDS ClaimKeeper, TLC

\* The slots of the worker are interchangeable, and so are the ids of rows.
SlotSymmetry == Permutations(Workers) \cup Permutations(Claims)
=============================================================================
