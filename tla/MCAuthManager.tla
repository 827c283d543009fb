---------------------------- MODULE MCAuthManager ----------------------------
(* Small sets of goroutines and tokens for AuthManager.                     *)
EXTENDS AuthManager, TLC

\* expires_in absent, or no longer than the margin.
SomeExpiresIn == {0, 1}
Symmetry == Permutations(Callers) \union Permutations(Tokens)
==============================================================================
