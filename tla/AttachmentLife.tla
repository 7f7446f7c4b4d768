---------------------------- MODULE AttachmentLife ----------------------------
(***************************************************************************)
(* What attachments promise, with no locks, requests, clocks or workers:   *)
(* an attachment is reserved, gets its bytes, is finalised and bound to    *)
(* one message, or is deleted before that.  A message takes all of its     *)
(* attachments at once, and from then on their bytes are fixed.            *)
(***************************************************************************)
CONSTANTS
    Att,
    Message,
    Verified,   \* what may be delivered
    Nothing     \* no object

VARIABLES
    phase,      \* phase[a]: none, reserved, final, bound, or deleted
    object,     \* object[a]: the bytes that a download of a would stream
    attached    \* attached[m]: the attachments of message m

vars == <<phase, object, attached>>

Init ==
    /\ phase = [a \in Att |-> "none"]
    /\ object = [a \in Att |-> Nothing]
    /\ attached = [m \in Message |-> {}]

Moves(S, to) == phase' = [a \in Att |-> IF a \in S THEN to ELSE phase[a]]

Reserve(a) ==
    /\ phase[a] = "none"
    /\ Moves({a}, "reserved")
    /\ UNCHANGED <<object, attached>>

\* Verified bytes are written before the attachment is final, and never after.
Write(a) ==
    /\ phase[a] = "reserved"
    /\ \E o \in Verified : object' = [object EXCEPT ![a] = o]
    /\ UNCHANGED <<phase, attached>>

Finalise(a) ==
    /\ phase[a] = "reserved"
    /\ object[a] \in Verified
    /\ Moves({a}, "final")
    /\ UNCHANGED <<object, attached>>

\* A new message takes all of its attachments or none.
Bind(m, S) ==
    /\ attached[m] = {}
    /\ \A a \in S : phase[a] = "final"
    /\ Moves(S, "bound")
    /\ attached' = [attached EXCEPT ![m] = S]
    /\ UNCHANGED object

\* The bytes of what no message has may be removed at any time ...
Remove(a) ==
    /\ phase[a] = "final"
    /\ object' = [object EXCEPT ![a] = Nothing]
    /\ UNCHANGED <<phase, attached>>

\* ... and what is deleted and was final has none left.
Delete(S) ==
    /\ \A a \in S : \/ phase[a] = "reserved"
                    \/ phase[a] = "final" /\ object[a] = Nothing
    /\ Moves(S, "deleted")
    /\ UNCHANGED <<object, attached>>

Next ==
    \/ \E a \in Att : Reserve(a) \/ Write(a) \/ Finalise(a) \/ Remove(a)
    \/ \E S \in SUBSET Att : Delete(S) \/ \E m \in Message : Bind(m, S)

Spec == Init /\ [][Next]_vars
=============================================================================
