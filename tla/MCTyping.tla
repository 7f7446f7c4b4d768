-------------------------------- MODULE MCTyping --------------------------------
(* A small instance of Typing for TLC: two devices on two instances, the    *)
(* peer on the first of these.                                              *)
EXTENDS Typing

CONSTANTS i1, i2, d1, d2

MCHome == [d \in {d1, d2} |-> IF d = d1 THEN i1 ELSE i2]

\* Once a stop is lost or a start overtaken no property says any more: what
\* follows is not searched.
Unspoiled == spoiled = {}
=============================================================================
