------------------------------ MODULE MCRemoteTree ------------------------------
(* RemoteTree with a folder the other device deletes and another it makes       *)
(* instead; the writer here and the faults of the machine stand still.          *)
EXTENDS RemoteTree
=============================================================================
