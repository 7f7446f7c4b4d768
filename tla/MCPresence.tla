------------------------------ MODULE MCPresence ------------------------------
(* Small instances of Presence for TLC.                                    *)
EXTENDS Presence, TLC

CONSTANTS k1, i1    \* a socket and an instance, to break a symmetry by hand

\* Instances are interchangeable, and so are sockets.
Symmetry == Permutations(Instances) \cup Permutations(Sockets)

AnyRoute == Sockets \X Instances

\* TLC checks liveness without symmetry reduction.  Instances are
\* interchangeable, so nothing is lost if socket k1 always reaches i1.
OneRoute == {r \in Sockets \X Instances : r[1] = k1 => r[2] = i1}
=============================================================================
