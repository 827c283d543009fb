------------------------------- MODULE MCThrottle -------------------------------
(* Goroutines sharing one throttle.                                         *)
EXTENDS Throttle
=================================================================================
