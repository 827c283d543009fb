--------------------------- MODULE MCCircuitBreaker ---------------------------
(* Goroutines sharing the breaker NewClient builds: five failures, fifteen  *)
(* clock units (client.go:81-84).                                           *)
EXTENDS CircuitBreaker
==============================================================================
