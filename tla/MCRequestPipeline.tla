--------------------------- MODULE MCRequestPipeline ---------------------------
(* A few concurrent calls of the SDK for RequestPipeline.                    *)
EXTENDS RequestPipeline
================================================================================
