--------------------------- MODULE MCLocalWatcher ---------------------------
(* Instances of LocalWatcher for TLC: a folder, a file in it and a file    *)
(* beside it.                                                              *)
EXTENDS LocalWatcher

InFolder == "f"
FolderOfFile(p) == IF p = InFolder THEN CHOOSE d \in Dirs : TRUE ELSE Top

Thing(kind) == [kind |-> kind, ver |-> 0, open |-> TRUE]
Full == [p \in Paths |-> IF p \in Dirs THEN Thing("dir") ELSE Thing("file")]
SmallTrees == {Full, [p \in Paths |-> None]}

=============================================================================
