------------------------------- MODULE MCAccounts -------------------------------
(* Small instances of Accounts and of Sessions for TLC.                     *)
EXTENDS Accounts, TLC

\* For safety only.
Symmetry ==
    Permutations(Request) \cup Permutations(Name)
        \cup Permutations(Token) \cup Permutations(Conversation)
=============================================================================
