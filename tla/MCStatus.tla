------------------------------ MODULE MCStatus ------------------------------
(* The instance of MCPipeline with a `status` command beside the runs.      *)
EXTENDS MCPipeline, Status
=============================================================================
