-------------------------- MODULE DirectConversations --------------------------
(***************************************************************************)
(* What POST /conversations promises: two users have at most one direct    *)
(* conversation, whoever of them asks for it first and however often they  *)
(* ask, and everybody is answered with that one.                           *)
(***************************************************************************)
CONSTANTS
    Request,
    Pair,          \* two users
    Conversation,
    None           \* no pair, no conversation

VARIABLES
    direct,   \* direct[p]: the conversation of p
    asked,    \* asked[r]: the pair that r asks for
    answer    \* answer[r]: the conversation that r was last answered with

vars == <<direct, asked, answer>>

Init ==
    /\ direct = [p \in Pair |-> None]
    /\ asked = [r \in Request |-> None]
    /\ answer = [r \in Request |-> None]

Ask(r) ==
    /\ asked[r] = None
    /\ \E p \in Pair : asked' = [asked EXCEPT ![r] = p]
    /\ answer' = [answer EXCEPT ![r] = None]
    /\ UNCHANGED direct

\* Nothing comes of the request, or its answer is lost.
Fail(r) ==
    /\ asked' = [asked EXCEPT ![r] = None]
    /\ UNCHANGED <<direct, answer>>

\* The conversation comes into being; its creator will be told.
Create(r) ==
    /\ asked[r] # None /\ direct[asked[r]] = None
    /\ \E c \in Conversation :
        /\ \A p \in Pair : direct[p] # c
        /\ direct' = [direct EXCEPT ![asked[r]] = c]
    /\ UNCHANGED <<asked, answer>>

Reply(r) ==
    /\ asked[r] # None /\ direct[asked[r]] # None
    /\ answer' = [answer EXCEPT ![r] = direct[asked[r]]]
    /\ asked' = [asked EXCEPT ![r] = None]
    /\ UNCHANGED direct

Next == \E r \in Request : Ask(r) \/ Fail(r) \/ Create(r) \/ Reply(r)

Spec == Init /\ [][Next]_vars
=============================================================================
