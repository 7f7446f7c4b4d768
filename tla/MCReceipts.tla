------------------------------ MODULE MCReceipts ------------------------------
(* Small instances of Receipts for TLC.                                    *)
EXTENDS Receipts, TLC

\* Sockets are interchangeable; messages are not, as their cursors are ordered.
Symmetry == Permutations(Sockets)
=============================================================================
