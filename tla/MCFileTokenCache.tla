--------------------------- MODULE MCFileTokenCache ---------------------------
(* Goroutines of clients that share one cache file.                         *)
EXTENDS FileTokenCache
===============================================================================
