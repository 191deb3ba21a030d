---------------------------- MODULE MCDocumentSync ----------------------------
(* Model values for checking DocumentSync: the desktop and the laptop of one  *)
(* writer, and what can be typed on them.                                     *)
EXTENDS DocumentSync, TLC

CONSTANTS desktop, laptop, theProject, theDocument, thePath

Devices == {desktop, laptop}
Account == (desktop :> "writer") @@ (laptop :> "writer")
NoMember == [u \in Users |-> "none"]
Texts == SUBSET Passage
OperationNumber == [x \in Devices \X (1 .. 2 * MaxOps) |->
                      IF x[1] = desktop THEN x[2] ELSE 2 * MaxOps + x[2]]
Operations == 0 .. 4 * MaxOps

Both == {Devices}
OneOrBoth == {{desktop}, Devices}

Symmetry == Permutations(Passage)
=============================================================================
