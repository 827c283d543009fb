------------------------------ MODULE MCSession ------------------------------
(* Two calls that share a token manager, for Session.                       *)
EXTENDS Session

MCExpiresIn == {0}
MCRetryAfter == {2, 5}
MCRetryDelay == [a \in 0..3 |-> 1]
==============================================================================
