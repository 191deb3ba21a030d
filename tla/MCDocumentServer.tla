--------------------------- MODULE MCDocumentServer ---------------------------
(* Model values for checking DocumentServer: two devices on two accounts,   *)
(* the owner's and an invited editor's, share one project.                  *)
EXTENDS DocumentServer, TLC

CONSTANTS desktop, tablet

MCClient == {desktop, tablet}
MCUserOf == (desktop :> "owner") @@ (tablet :> "guest")
MCMemberRole == [u \in Users |-> IF u = "guest" THEN "editor" ELSE "none"]

Symmetry ==
  Permutations(Operation) \cup Permutations(Document) \cup Permutations(Path)
=============================================================================
