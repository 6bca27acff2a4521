------------------------------ MODULE SyncData ------------------------------
(***************************************************************************)
(* The data every component of the sync engine shares: the local tree, the *)
(* remote tree, the baseline of what was last in sync, and the operations  *)
(* a plan is made of (src/reconcile/types.ts, src/remote/interface.ts,     *)
(* src/state/baseline.ts).                                                 *)
(*                                                                         *)
(* A path is a non-empty sequence of names.  A content stands both for a   *)
(* file's bytes and for their SHA-1.  What stat(2) reports of a file is    *)
(* its inode `ino' and `ver', which stands for size and mtime together;    *)
(* inode, ver, revision and node identifiers are natural numbers that are  *)
(* never reused, and a directory has ver 0.                                *)
(***************************************************************************)
EXTENDS Integers, Sequences, FiniteSets, SequencesExt

CONSTANTS Names,      \* file and folder names
          Contents,   \* file contents, each standing for its own digest
          None        \* an absent optional value (undefined or null)

ASSUME NoneAssumption ==
    None \notin Contents /\ None \notin Nat /\ None \notin Seq(Names)

Path    == Seq(Names) \ {<<>>}
Root    == 0                       \* uid of the remote folder that is synced
Digest  == Contents \cup {None}

\* An item of the local file system.
Item == [dir: BOOLEAN, ino: Nat, ver: Nat, data: Digest]

\* A node of the remote drive; a folder has revision 0 and no digest.
Node == [parent: Nat, name: Names, dir: BOOLEAN, trashed: BOOLEAN,
         rev: Nat, sha: Digest]

\* A baseline row: what both sides were when they were last in sync.
Row  == [dir: BOOLEAN, ino: Nat, ver: Nat, lsha: Digest,
         uid: Nat, rev: Nat, rsha: Digest]

LocalFingerprint  == [ino: Nat, ver: Nat, sha: Digest]
RemoteFingerprint == [rev: Nat, sha: Digest]

TransferKinds == {"upload", "download"}
MoveKinds     == {"move_local", "move_remote"}
Bookkeeping   == {"update_baseline", "remove_baseline"}
Kinds == TransferKinds \cup Bookkeeping \cup
         MoveKinds \cup {"create_remote_folder", "create_local_folder",
                         "recycle_local", "trash_remote"}

\* One operation of a plan.  `path' is relPath (the target of a move), `from'
\* a move's source; an upload without uid makes a new node.
Operation ==
    {op \in [kind: Kinds, path: Path, from: Path \cup {None},
             uid: Nat \cup {None}, dir: BOOLEAN,
             lfp: LocalFingerprint \cup {None},
             rfp: RemoteFingerprint \cup {None}] :
        /\ op.kind \in MoveKinds <=> op.from # None
        /\ op.kind \in {"create_remote_folder", "recycle_local",
                        "remove_baseline"} => op.uid = None
        /\ op.kind \in {"create_local_folder", "download", "trash_remote",
                        "update_baseline"} \cup MoveKinds => op.uid # None
        /\ op.kind \in {"upload", "move_local", "recycle_local",
                        "update_baseline"} => op.lfp # None
        /\ op.kind \in {"download", "move_remote", "trash_remote",
                        "update_baseline"} => op.rfp # None}

-----------------------------------------------------------------------------
(* Trees: functions whose domain is a set of paths.                        *)

Under(d, p)  == IsPrefix(d, p)
Parent(p)    == Front(p)
NameOf(p)    == Last(p)

Put(f, p, x) == [q \in DOMAIN f \cup {p} |-> IF q = p THEN x ELSE f[q]]

RemoveTree(f, p) == [q \in {r \in DOMAIN f : ~ Under(p, r)} |-> f[q]]

MovedPath(q, from, to) ==
    IF Under(from, q) THEN to \o SubSeq(q, Len(from) + 1, Len(q)) ELSE q

MoveTree(f, from, to) ==
    [p \in {MovedPath(q, from, to) : q \in DOMAIN f} |->
        f[CHOOSE q \in DOMAIN f : MovedPath(q, from, to) = p]]

\* No key of f outside the moved tree is in the way of the move.
MoveFits(f, from, to) ==
    \A q \in DOMAIN f : Under(from, q) =>
        MovedPath(q, from, to) \notin {r \in DOMAIN f : ~ Under(from, r)}

\* BaselineRepo.upsert: the path and the node uid are both unique keys.
Upsert(b, p, row) ==
    Put([q \in {r \in DOMAIN b : b[r].uid # row.uid} |-> b[q]], p, row)

Empty == [x \in {} |-> None]

\* u and every folder above it in the remote tree d.
Above(d, u) ==
    LET up[n \in Nat] ==
            IF n = 0 THEN {u}
            ELSE up[n - 1] \cup {d[v].parent : v \in up[n - 1] \cap DOMAIN d}
    IN  up[Cardinality(DOMAIN d)]
=============================================================================
