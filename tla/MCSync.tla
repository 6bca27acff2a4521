------------------------------- MODULE MCSync -------------------------------
(***************************************************************************)
(* Small worlds for model checking Sync.  A world is two sides that were   *)
(* in sync, and the changes their users made before the first plan.        *)
(***************************************************************************)
EXTENDS Sync

A == <<"a">>   B == <<"b">>   D == <<"d">>   E == <<"e">>
DA == <<"d", "a">>   DB == <<"d", "b">>   DX == <<"d", "x">>

\* What was in sync: items [path, uid, up, data], folders without data.
Entity(p, u, up, c) == [path |-> p, uid |-> u, up |-> up, data |-> c]

Was(items, p) == CHOOSE i \in items : i.path = p

\* A folder has ver 0 and rev 0; an item's identifiers are all its uid.
Stat(i) == IF i.data = None THEN 0 ELSE i.uid

Synced(items) ==
    LET paths == {i.path : i \in items} IN
    [fs |-> [p \in paths |->
        LET i == Was(items, p)
        IN [dir |-> i.data = None, ino |-> i.uid, ver |-> Stat(i),
            data |-> i.data]],
     drive |-> [u \in {i.uid : i \in items} |->
        LET i == CHOOSE j \in items : j.uid = u
        IN [parent |-> i.up, name |-> NameOf(i.path), dir |-> i.data = None,
            trashed |-> FALSE, rev |-> Stat(i), sha |-> i.data]],
     base |-> [p \in paths |->
        LET i == Was(items, p)
        IN [dir |-> i.data = None, ino |-> i.uid, ver |-> Stat(i),
            lsha |-> i.data, uid |-> i.uid, rev |-> Stat(i),
            rsha |-> i.data]],
     clock |-> 20]

\* Changes made before the first plan.
EditLocal(w, p, c) == [w EXCEPT !.fs[p].ver = 11, !.fs[p].data = c]
AddLocal(w, p, c) == [w EXCEPT !.fs = Put(@, p,
    [dir |-> c = None, ino |-> 12, ver |-> IF c = None THEN 0 ELSE 12,
     data |-> c])]
CutLocal(w, p) == [w EXCEPT !.fs = RemoveTree(@, p)]
ShiftLocal(w, p, q) == [w EXCEPT !.fs = MoveTree(@, p, q)]
EditRemote(w, u, c) == [w EXCEPT !.drive[u].rev = 13, !.drive[u].sha = c]
AddRemote(w, up, n, c) == [w EXCEPT !.drive = Put(@, 14,
    [parent |-> up, name |-> n, dir |-> c = None, trashed |-> FALSE,
     rev |-> IF c = None THEN 0 ELSE 14, sha |-> c])]
CutRemote(w, u) == [w EXCEPT !.drive[u].trashed = TRUE]
ShiftRemote(w, u, up, n) ==
    [w EXCEPT !.drive[u].parent = up, !.drive[u].name = n]

File1   == Synced({Entity(A, 1, Root, "c1")})
Files   == Synced({Entity(A, 1, Root, "c1"), Entity(B, 2, Root, "c2")})
Folder  == Synced({Entity(D, 1, Root, None), Entity(DA, 2, 1, "c1")})
Apart   == Synced({Entity(D, 1, Root, None), Entity(A, 2, Root, "c1")})

\* One world for each kind of operation, the last two of which are only
\* bookkeeping, and two transfers of one batch.
OneOfEach ==
    {EditLocal(File1, A, "c3"), AddLocal(File1, B, "c3"),
     EditRemote(File1, 1, "c3"), AddRemote(File1, Root, "b", "c3"),
     ShiftLocal(Apart, A, DB), ShiftRemote(Apart, 2, 1, "b"),
     CutLocal(File1, A), CutRemote(File1, 1),
     AddLocal(File1, D, None), AddRemote(File1, Root, "d", None),
     EditRemote(EditLocal(Files, A, "c3"), 2, "c4"),
     EditRemote(EditLocal(File1, A, "c3"), 1, "c3"),
     CutRemote(CutLocal(File1, A), 1)}

\* Every pair of a local and a remote change of one small tree.
Tree == Synced({Entity(D, 1, Root, None), Entity(DX, 2, 1, "c1"),
                Entity(A, 3, Root, "c2")})

LocalChanges(w) ==
    {w, EditLocal(w, A, "c3"), EditLocal(w, DX, "c3"),
     AddLocal(w, B, "c3"), AddLocal(w, DB, "c3"),
     CutLocal(w, A), CutLocal(w, DX), CutLocal(w, D),
     ShiftLocal(w, A, B), ShiftLocal(w, DX, B),
     ShiftLocal(w, D, E),
     EditLocal(ShiftLocal(w, A, B), B, "c3")}

RemoteChanges(w) ==
    {w, EditRemote(w, 3, "c4"), EditRemote(w, 2, "c4"),
     EditRemote(w, 3, "c3"),
     AddRemote(w, Root, "b", "c4"), AddRemote(w, 1, "b", "c4"),
     CutRemote(w, 3), CutRemote(w, 2), CutRemote(w, 1),
     ShiftRemote(w, 3, Root, "b"), ShiftRemote(w, 2, Root, "b"), ShiftRemote(w, 1, Root, "e"),
     EditRemote(ShiftRemote(w, 3, Root, "b"), 3, "c4")}

PairsOfChanges ==
    UNION {RemoteChanges(w) : w \in LocalChanges(Tree)}
    \cup {ShiftLocal(Tree, A, DB), ShiftRemote(Tree, 3, 1, "b")}

Places == {A, B, DB, E}
=============================================================================
