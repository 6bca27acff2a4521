------------------------- MODULE MCConflictHandler -------------------------
(***************************************************************************)
(* The worlds of MCSync, and conflicts between their two sides.            *)
(***************************************************************************)
EXTENDS ConflictHandler, MCSync

\* Edited on both sides.
BothEdited == {EditRemote(EditLocal(File1, A, "c3"), 1, "c4")}

\* Edited on both sides and renamed on one, or renamed alike on both.
RenamedAndEdited ==
    {EditRemote(ShiftRemote(EditLocal(ShiftLocal(Tree, A, B), B, "c3"),
                            3, Root, "b"), 3, "c4"),
     EditRemote(EditLocal(ShiftLocal(Tree, A, B), B, "c3"), 3, "c4"),
     EditRemote(ShiftRemote(EditLocal(Tree, A, "c3"), 3, Root, "b"), 3, "c4")}

\* Moved apart, another one edited on both sides besides, and created on both
\* sides.
MovedApart == ShiftRemote(ShiftLocal(Tree, A, B), 3, 1, "e")
Divergent ==
    {MovedApart, EditRemote(EditLocal(MovedApart, DX, "c3"), 2, "c4"),
     AddRemote(AddLocal(Tree, B, "c3"), Root, "b", "c4")}

\* One world for each kind of operation and of conflict.
Raced == OneOfEach \cup BothEdited
         \cup {EditRemote(CutLocal(File1, A), 1, "c4")}

Pairs == (PairsOfChanges \cup Divergent) \ RenamedAndEdited
=============================================================================
