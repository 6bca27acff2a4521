---------------------------- MODULE MCRemoteFeed ----------------------------
(* Instances of RemoteFeed for TLC: one folder and one file.  The file is  *)
(* in the folder, which is outside the root, or both are not there yet.    *)
EXTENDS RemoteFeed

At(p) == [parent |-> p, rev |-> 0, trashed |-> FALSE]

SmallTrees == {[u \in Uids |-> None],
               [u \in Uids |-> IF u \in Dirs THEN At(Outside) ELSE At(CHOOSE d \in Dirs : TRUE)]}

=============================================================================
