----------------------------- MODULE MCPipeline -----------------------------
(***************************************************************************)
(* Instances of Pipeline for TLC: one category that is summarised by       *)
(* itself and one that is not, and the requests and failures of each run.  *)
(***************************************************************************)
EXTENDS Pipeline

MCCategory     == {"meeting", "memo"}
MCAutoCategory == {"meeting"}

NoRequests  == {}
AllRequests == RequestKinds
NoFaults    == {}
=============================================================================
