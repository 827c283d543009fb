--------------------------------- MODULE MCPoll ---------------------------------
(* A poll with short intervals and timeouts, some of them left at zero.     *)
EXTENDS Poll
=================================================================================
