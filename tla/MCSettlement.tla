---------------------------- MODULE MCSettlement ----------------------------
(***************************************************************************)
(* Instances of Settlement for TLC.                                        *)
(***************************************************************************)
EXTENDS Settlement, TLC

Both == {"AR", "AP"}
Interchangeable == Permutations(InvoiceIds) \cup Permutations(Workers)
=============================================================================
