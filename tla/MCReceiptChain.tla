--------------------------- MODULE MCReceiptChain ---------------------------
(* Small instances of ReceiptChain for TLC.                                *)
EXTENDS ReceiptChain

Symmetry == Permutations(Session) \cup Permutations(Receipt)
=============================================================================
