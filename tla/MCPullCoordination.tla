------------------------- MODULE MCPullCoordination -------------------------
(* One project and one account: pulls, local edits and the queue.             *)
EXTENDS PullCoordination, TLC
=============================================================================
