---------------------------- MODULE MCAttachments ----------------------------
(* Small instances of Attachments for TLC.                                 *)
EXTENDS Attachments, TLC

\* Workers of one kind are interchangeable, and so are attachment ids.
Symmetry ==
    Permutations(Att) \cup Permutations(Completions) \cup
    Permutations(Sends) \cup Permutations(Cleaners)
=============================================================================
