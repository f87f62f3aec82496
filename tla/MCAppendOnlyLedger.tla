------------------------- MODULE MCAppendOnlyLedger -------------------------
(***************************************************************************)
(* Two processes that append to one ledger, interchangeable.               *)
(***************************************************************************)
EXTENDS AppendOnlyLedger, TLC

WriterSymmetry == Permutations(Writers)
=============================================================================
