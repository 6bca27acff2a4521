----------------------------- MODULE Reconcile -----------------------------
(***************************************************************************)
(* The decision engine of src/reconcile: a pure function from the          *)
(* baseline, a view of the local tree and a view of the remote tree to a   *)
(* plan.                                                                   *)
(*                                                                         *)
(* An input `in' is a record                                               *)
(*   base                the baseline: path -> Row                         *)
(*   items               the local view: path -> Item, data = None when    *)
(*                       the digest of a file is unknown                   *)
(*   nodes               the remote view: uid -> Node, the root left out   *)
(*   odd                 uids of documents, other types, invalid names     *)
(*   nameless            uids of nodes whose name cannot be decrypted      *)
(*   localOk, remoteOk   local.complete, remote.complete                   *)
(*   rootOk, remoteUp    local.available, remote.available                 *)
(*   hidden              baseline paths on disk but left out of the view   *)
(*   staleLocal, staleRemote   rows synced after the view was taken        *)
(*   quarantined         records [path, uid] the engine refuses to touch   *)
(* Names stand for their collision keys, so two local siblings never       *)
(* collide; remote siblings may.                                           *)
(***************************************************************************)
EXTENDS SyncData

Inside(d, p) == IsStrictPrefix(d, p)

LocalFp(item) == [ino |-> item.ino, ver |-> item.ver, sha |-> item.data]
RemoteFp(node) == [rev |-> node.rev, sha |-> node.sha]

NewOp(kind, path) ==
    [kind |-> kind, path |-> path, from |-> None, uid |-> None,
     dir |-> FALSE, lfp |-> None, rfp |-> None]

-----------------------------------------------------------------------------
(* resolveRemote: the paths of the nodes that can be synced.               *)

Colliding(in, u) ==
    \E v \in DOMAIN in.nodes \ ({u} \cup in.nameless) :
        /\ in.nodes[v].parent = in.nodes[u].parent
        /\ in.nodes[v].name = in.nodes[u].name
        /\ ~ in.nodes[v].trashed

Excluded(in, u) == u \in in.odd \cup in.nameless \/ Colliding(in, u)

\* uid -> path over the nodes reachable from the root.
RemotePaths(in) ==
    LET nodes == in.nodes
        level[n \in Nat] ==
            IF n = 0 THEN [u \in {Root} |-> <<>>]
            ELSE LET up == level[n - 1]
                     kids == {u \in DOMAIN nodes :
                                 /\ ~ nodes[u].trashed /\ ~ Excluded(in, u)
                                 /\ nodes[u].parent \in DOMAIN up
                                 /\ nodes[u].parent = Root
                                    \/ nodes[nodes[u].parent].dir}
                 IN  [u \in {Root} \cup kids |->
                         IF u = Root THEN <<>>
                         ELSE Append(up[nodes[u].parent], nodes[u].name)]
        all == level[Cardinality(DOMAIN nodes)]
    IN  [u \in DOMAIN all \ {Root} |-> all[u]]

\* The nodes left out right below a folder that is synced.
Shunned(in, paths) ==
    {u \in DOMAIN in.nodes :
        /\ ~ in.nodes[u].trashed /\ Excluded(in, u)
        /\ \/ in.nodes[u].parent = Root
           \/ /\ in.nodes[u].parent \in DOMAIN paths
              /\ in.nodes[in.nodes[u].parent].dir}

\* The paths below which nothing is synced.
ExcludedPaths(in, paths) ==
    LET place(u) == IF in.nodes[u].parent = Root THEN <<>>
                    ELSE paths[in.nodes[u].parent]
    IN  {Append(place(u), in.nodes[u].name) :
            u \in Shunned(in, paths) \ in.nameless}

\* A node below a trashed folder is trashed.
EffectivelyTrashed(nodes, u) ==
    \E w \in Above(nodes, u) \cap DOMAIN nodes : nodes[w].trashed

\* Live nodes whose parent the view does not have.
Orphans(in) ==
    {u \in DOMAIN in.nodes :
        /\ ~ EffectivelyTrashed(in.nodes, u)
        /\ in.nodes[u].parent \notin {Root} \cup DOMAIN in.nodes}

-----------------------------------------------------------------------------
(* classify.ts and table.ts                                                *)

\* The path where the item of row r, last at p, is now: by inode, else by path.
FindLocal(items, p, r) ==
    LET atPath == p \in DOMAIN items /\ items[p].dir = r.dir
        byInode == {q \in DOMAIN items : items[q].dir = r.dir
                                         /\ items[q].ino = r.ino}
    IN  IF p \in byInode THEN p
        ELSE IF Cardinality(byInode) = 1 THEN CHOOSE q \in byInode : TRUE
        ELSE IF atPath THEN p ELSE None

SideState(moved, changed) ==
    IF moved THEN IF changed THEN "movedAndModified" ELSE "moved"
             ELSE IF changed THEN "modified" ELSE "unchanged"

LocalState(p, r, q, item) ==
    LET known == item.data # None /\ r.lsha # None
        same  == IF known THEN item.data = r.lsha
                 ELSE r.lsha # None /\ item.ino = r.ino /\ item.ver = r.ver
    IN  SideState(q # p, ~ r.dir /\ ~ same)

\* Mutant: the digest of the node is compared with itself.
RemoteStateUnseen(p, r, q, node) ==
    SideState(q # p, ~ r.dir /\ node.sha # node.sha)

RemoteState(p, r, q, node) ==
    LET same == IF node.sha # None /\ r.rsha # None THEN node.sha = r.rsha
                ELSE node.rev = r.rev
    IN  SideState(q # p, ~ r.dir /\ ~ same)

\* What became of a row: states l and r, and the paths lp and rp (or None).
Classify(in, paths, p) ==
    LET r  == in.base[p]
        lp == IF in.rootOk THEN FindLocal(in.items, p, r) ELSE None
        rp == IF r.uid \in DOMAIN in.nodes
                 /\ ~ EffectivelyTrashed(in.nodes, r.uid)
                 /\ r.uid \in DOMAIN paths
              THEN paths[r.uid] ELSE None
    IN  [lp |-> lp, rp |-> rp,
         l |-> IF lp = None THEN "deleted"
               ELSE LocalState(p, r, lp, in.items[lp]),
         r |-> IF rp = None THEN "deleted"
               ELSE RemoteState(p, r, rp, in.nodes[r.uid])]

MovedStates == {"moved", "movedAndModified"}

\* A move that a parent folder's move implies is not a move of its own.
Implied(base, p, state, place) ==
    LET imply(d) == /\ base[d].dir /\ Inside(d, p)
                    /\ state[d] \in MovedStates
                    /\ place[p] = MovedPath(p, d, place[d])
    IN  IF state[p] \in MovedStates /\ \E d \in DOMAIN base : imply(d)
        THEN IF state[p] = "moved" THEN "unchanged" ELSE "modified"
        ELSE state[p]

Classified(in, paths) ==
    LET base  == in.base
        class == [p \in DOMAIN base |-> Classify(in, paths, p)]
        l  == [p \in DOMAIN base |-> class[p].l]
        r  == [p \in DOMAIN base |-> class[p].r]
        lp == [p \in DOMAIN base |-> class[p].lp]
        rp == [p \in DOMAIN base |-> class[p].rp]
    IN  [p \in DOMAIN base |->
            [lp |-> lp[p], rp |-> rp[p],
             l |-> Implied(base, p, l, lp),
             r |-> Implied(base, p, r, rp)]]

Row5(u, m, v, w, d) == [unchanged |-> u, modified |-> m, moved |-> v,
                        movedAndModified |-> w, deleted |-> d]

\* TABLE[local][remote]
Table ==
    [unchanged |-> Row5("none", "download", "move_local",
                        "move_local_then_download", "recycle_local"),
     modified  |-> Row5("upload", "compare", "move_local_then_upload",
                        "move_local_then_compare", "delete_vs_edit"),
     moved     |-> Row5("move_remote", "move_remote_then_download",
                        "same_none", "same_download", "delete_vs_edit"),
     movedAndModified |->
                  Row5("move_remote_then_upload", "move_remote_then_compare",
                       "same_upload", "same_compare", "delete_vs_edit"),
     deleted   |-> Row5("trash_remote", "delete_vs_edit", "delete_vs_edit",
                        "delete_vs_edit", "remove_baseline")]

-----------------------------------------------------------------------------
(* applyDecision: the operations and conflicts of one row.                 *)

NoPlan == [ops |-> {}, conflicts |-> {}, blocked |-> {}]
Only(op)  == [NoPlan EXCEPT !.ops = {op}]
Both(a, b) == [a EXCEPT !.ops = @ \cup b.ops,
                        !.conflicts = @ \cup b.conflicts]
Conflict(kind, path, uid) ==
    [NoPlan EXCEPT !.conflicts =
        {[kind |-> kind, path |-> path, uid |-> uid,
          local |-> None, remote |-> None]}]

\* The item was moved to two places.
DivergentMove(path, uid, local, remote) ==
    [NoPlan EXCEPT !.conflicts =
        {[kind |-> "divergent_move", path |-> path, uid |-> uid,
          local |-> local, remote |-> remote]}]

Apply(in, p, c) ==
    LET r  == in.base[p]
        li == in.items[c.lp]
        ri == in.nodes[r.uid]
        action == Table[c.l][c.r]
        lpath == IF c.lp # None THEN c.lp ELSE p
        rpath == IF c.rp # None THEN c.rp ELSE p
        final == IF rpath # p THEN rpath ELSE lpath
        moveLocal  == Only([NewOp("move_local", c.rp) EXCEPT
                        !.from = c.lp, !.uid = r.uid, !.lfp = LocalFp(li)])
        moveRemote == Only([NewOp("move_remote", c.lp) EXCEPT
                        !.from = rpath, !.uid = r.uid, !.rfp = RemoteFp(ri)])
        download(q) == IF r.dir THEN NoPlan ELSE
                       Only([NewOp("download", q) EXCEPT
                        !.uid = r.uid, !.lfp = LocalFp(li),
                        !.rfp = RemoteFp(ri)])
        upload(q)  == IF r.dir THEN NoPlan ELSE
                      Only([NewOp("upload", q) EXCEPT
                        !.uid = r.uid, !.lfp = LocalFp(li),
                        !.rfp = RemoteFp(ri)])
        update(q)  == Only([NewOp("update_baseline", q) EXCEPT
                        !.uid = r.uid, !.dir = r.dir, !.lfp = LocalFp(li),
                        !.rfp = RemoteFp(ri)])
        compare(q) == IF r.dir \/ (li.data # None /\ li.data = ri.sha)
                      THEN update(q) ELSE Conflict("content", q, r.uid)
        \* both moved: only the same destination can be agreed on
        agreed(plan) == IF c.lp = c.rp THEN plan
                        ELSE DivergentMove(p, r.uid, c.lp, c.rp)
    IN  CASE action = "none"       -> NoPlan
          [] action = "download"   -> download(final)
          [] action = "upload"     -> upload(final)
          [] action = "compare"    -> compare(final)
          [] action = "move_local" -> moveLocal
          [] action = "move_remote" -> moveRemote
          [] action = "move_local_then_download" -> Both(moveLocal, download(c.rp))
          [] action = "move_local_then_upload" -> Both(moveLocal, upload(c.rp))
          [] action = "move_local_then_compare" -> Both(moveLocal, compare(c.rp))
          [] action = "move_remote_then_download" ->
                 Both(moveRemote, download(c.lp))
          [] action = "move_remote_then_upload" -> Both(moveRemote, upload(c.lp))
          [] action = "move_remote_then_compare" ->
                 Both(moveRemote, compare(c.lp))
          [] action = "same_none"     -> agreed(update(c.lp))
          [] action = "same_download" -> agreed(download(c.lp))
          [] action = "same_upload"   -> agreed(upload(c.lp))
          [] action = "same_compare"  -> agreed(compare(c.lp))
          [] action = "recycle_local" ->
                 Only([NewOp("recycle_local", c.lp) EXCEPT !.lfp = LocalFp(li)])
          [] action = "trash_remote" ->
                 Only([NewOp("trash_remote", rpath) EXCEPT
                        !.uid = r.uid, !.rfp = RemoteFp(ri)])
          [] action = "remove_baseline" -> Only(NewOp("remove_baseline", p))
          [] action = "delete_vs_edit" ->
                 Conflict("delete_vs_edit",
                          IF c.r = "deleted" THEN lpath ELSE rpath, r.uid)

-----------------------------------------------------------------------------
(* The subtree deletion guard: a folder deleted on one side is kept unless *)
(* all of it may go on the other side.                                     *)

Claimed(class)        == {class[p].lp : p \in DOMAIN class} \ {None}
ClaimedRemote(in, class) ==
    {in.base[p].uid : p \in {q \in DOMAIN class : class[q].rp # None}}

NewLocal(in, class)         == DOMAIN in.items \ Claimed(class)
NewRemote(in, paths, class) == DOMAIN paths \ ClaimedRemote(in, class)

\* Mutant: new items below the folder are not looked for.
LocalRowsDeletable(in, class, d) ==
    /\ class[d].l = "unchanged"
    /\ \A p \in {q \in DOMAIN class : Inside(d, q)} :
           /\ class[p].l = "unchanged"
           /\ class[p].r = "deleted" \/ ~ Inside(d, class[p].rp)

\* Folder d is gone remotely but not locally; may the local one be recycled?
LocalTreeDeletable(in, class, d) ==
    /\ class[d].l = "unchanged"
    /\ \A p \in {q \in DOMAIN class : Inside(d, q)} :
           /\ class[p].l = "unchanged"
           /\ \/ class[p].r = "deleted"
              \/ class[p].rp # None /\ ~ Inside(d, class[p].rp)
    /\ \A p \in NewLocal(in, class) : ~ Inside(class[d].lp, p)

RemoteTreeDeletable(in, paths, class, d) ==
    /\ class[d].r = "unchanged"
    /\ \A p \in {q \in DOMAIN class : Inside(d, q)} :
           /\ class[p].r = "unchanged"
           /\ \/ class[p].l = "deleted"
              \/ class[p].lp # None /\ ~ Inside(d, class[p].lp)
    /\ \A u \in NewRemote(in, paths, class) : ~ Inside(class[d].rp, paths[u])

Kept(in, paths, class) ==
    {d \in DOMAIN class :
        /\ in.base[d].dir
        /\ \/ /\ class[d].r = "deleted" /\ class[d].l # "deleted"
              /\ ~ LocalTreeDeletable(in, class, d)
           \/ /\ class[d].l = "deleted" /\ class[d].r # "deleted"
              /\ ~ RemoteTreeDeletable(in, paths, class, d)}

-----------------------------------------------------------------------------
(* The guards of a row, in order, and its decision.                        *)

Block(reason, path, uid) ==
    [NoPlan EXCEPT !.blocked = {[reason |-> reason, path |-> path, uid |-> uid]}]

QuarantinedPath(in, p) == \E q \in in.quarantined : q.path = p
QuarantinedUid(in, u)  == \E q \in in.quarantined : q.uid = u

Shut(excluded, p) == \E e \in excluded : Under(e, p)

PlanRow(in, excluded, class, kept, p) ==
    LET c == class[p]
        r == in.base[p]
        gone == {s \in {"local", "remote"} :
                    IF s = "local" THEN c.l = "deleted" ELSE c.r = "deleted"}
        block(reason) == Block(reason, p, r.uid)
    IN  CASE \E d \in kept : Inside(d, p) -> Only(NewOp("remove_baseline", p))
          [] p \in kept ->
                 Conflict("delete_vs_edit",
                          IF c.lp # None THEN c.lp
                          ELSE IF c.rp # None THEN c.rp ELSE p, r.uid)
          [] \/ \E q \in {p, c.lp, c.rp} \ {None} : QuarantinedPath(in, q)
             \/ QuarantinedUid(in, r.uid) -> block("quarantined")
          [] /\ c.rp = None /\ r.uid \in DOMAIN in.nodes
             /\ ~ EffectivelyTrashed(in.nodes, r.uid) -> block("orphan")
          [] c.rp # None /\ Shut(excluded, c.rp) -> block("case_collision")
          [] /\ c.lp # None /\ c.rp # None
             /\ in.nodes[r.uid].dir # r.dir -> block("kind_mismatch")
          [] \/ "local" \in gone /\ p \in in.staleLocal
             \/ "remote" \in gone /\ p \in in.staleRemote -> block("stale_view")
          [] \/ "local" \in gone /\ (p \in in.hidden \/ ~ in.localOk)
             \/ "remote" \in gone /\ ~ in.remoteOk -> block("orphan")
          [] OTHER -> Apply(in, p, c)

-----------------------------------------------------------------------------
(* Items without a baseline.                                               *)

PlanNewLocal(in, paths, excluded, class, p) ==
    LET item == in.items[p]
        twins == {u \in NewRemote(in, paths, class) :
                     paths[u] = p /\ ~ QuarantinedUid(in, u)}
        u == CHOOSE v \in twins : TRUE
        node == in.nodes[u]
    IN  CASE QuarantinedPath(in, p) -> Block("quarantined", p, None)
          [] twins # {} /\ node.dir # item.dir -> Block("kind_mismatch", p, u)
          [] /\ twins # {} /\ node.dir = item.dir
             /\ item.dir \/ (item.data # None /\ item.data = node.sha) ->
                 Only([NewOp("update_baseline", p) EXCEPT
                        !.uid = u, !.dir = item.dir, !.lfp = LocalFp(item),
                        !.rfp = RemoteFp(node)])
          [] twins # {} /\ node.dir = item.dir -> Conflict("create_create", p, u)
          [] twins = {} /\ Shut(excluded, p) -> Block("case_collision", p, None)
          [] OTHER ->
                 Only([NewOp(IF item.dir THEN "create_remote_folder"
                             ELSE "upload", p) EXCEPT
                        !.lfp = IF item.dir THEN None ELSE LocalFp(item)])

PlanNewRemote(in, paths, class, u) ==
    LET p == paths[u]
        node == in.nodes[u]
    IN  CASE QuarantinedPath(in, p) \/ QuarantinedUid(in, u) ->
                 IF p \in DOMAIN in.items THEN NoPlan
                 ELSE Block("quarantined", p, u)
          [] p \in NewLocal(in, class) -> NoPlan   \* planned with its twin
          [] OTHER ->
                 Only([NewOp(IF node.dir THEN "create_local_folder"
                             ELSE "download", p) EXCEPT
                        !.uid = u,
                        !.rfp = IF node.dir THEN None ELSE RemoteFp(node)])

-----------------------------------------------------------------------------
(* The completeness gate and the protection of the first sync.             *)

RemoteEmptied(in, paths) == paths = Empty /\ in.base # Empty

Withheld(in, paths, op) ==
    \/ op.kind = "recycle_local"
       /\ (~ in.remoteUp \/ ~ in.remoteOk \/ RemoteEmptied(in, paths))
    \/ op.kind = "trash_remote" /\ (~ in.rootOk \/ ~ in.localOk)
    \/ op.kind \in {"recycle_local", "trash_remote"} /\ in.base = Empty
    \/ ~ in.rootOk /\ op.kind \notin Bookkeeping

-----------------------------------------------------------------------------
(* checkOccupancy: nothing is written where an unrelated item is.          *)

Blocking(in, paths, ops, op) ==
    LET leaving(kind) == {o.from : o \in {x \in ops : x.kind = kind}}
        going(kind)   == {o.path : o \in {x \in ops : x.kind = kind}}
        localFree == \/ op.path \notin DOMAIN in.items
                     \/ op.path \in leaving("move_local")
                     \/ op.path \in going("recycle_local")
        remoteFree == \/ op.path \notin {paths[u] : u \in DOMAIN paths}
                      \/ op.path \in leaving("move_remote")
                      \/ op.path \in going("trash_remote")
    IN  CASE op.kind \in {"move_local", "create_local_folder"} -> ~ localFree
          [] op.kind = "download" ->
                 /\ op.path \in DOMAIN in.items
                 /\ op.path \notin leaving("move_local")
                 /\ op.lfp # None => in.items[op.path].ino # op.lfp.ino
          [] op.kind \in {"move_remote", "create_remote_folder"} -> ~ remoteFree
          [] op.kind = "upload" -> op.uid = None /\ ~ remoteFree
          [] OTHER -> FALSE

\* The paths an operation names.
Named(op) == {op.path} \cup IF op.kind \in MoveKinds THEN {op.from} ELSE {}

Unoccupied(in, paths, ops) ==
    LET shut == UNION {Named(op) : op \in {o \in ops : Blocking(in, paths, ops, o)}}
    IN  {op \in ops : \A p \in Named(op) : ~ Shut(shut, p)}

-----------------------------------------------------------------------------
(* orderOperations                                                         *)

\* m is on a chain of moves that comes back on itself.
Cyclic(ops, m) ==
    LET next(k) == {x \in ops : x.kind = m.kind /\ x.from = k.path}
        chain[n \in Nat] ==
            IF n = 0 THEN {m} ELSE UNION {next(k) : k \in chain[n - 1]}
    IN  chain[Cardinality(ops)] # {}

Acyclic(ops) == {op \in ops : op.kind \notin MoveKinds \/ ~ Cyclic(ops, op)}

Phase == [k \in Kinds |->
             CASE k \in Bookkeeping -> 0
               [] k \in {"create_remote_folder", "create_local_folder"} -> 1
               [] k \in MoveKinds -> 2
               [] k \in TransferKinds -> 3
               [] OTHER -> 4]

\* Parents first, but deletes deepest first; the order of names is left open.
NotAfter(a, b) ==
    \/ Phase[a.kind] < Phase[b.kind]
    \/ /\ Phase[a.kind] = Phase[b.kind]
       /\ IF Phase[a.kind] = 4 THEN Len(a.path) >= Len(b.path)
                               ELSE Len(a.path) <= Len(b.path)

Orders(ops) == {s \in SetToSeqs(ops) :
                   \A i \in 1..(Len(s) - 1) : NotAfter(s[i], s[i + 1])}

-----------------------------------------------------------------------------
(* reconcile(): the plan, its operations not ordered yet.                  *)

\* The outermost folders that are kept.
KeptTops(in, paths, class) ==
    LET kept == Kept(in, paths, class)
    IN  {d \in kept : ~ \E e \in kept : Inside(e, d)}

\* What is planned for each row and each new item.
Parts(in, paths, excluded, class, tops) ==
    {PlanRow(in, excluded, class, tops, p) : p \in DOMAIN class}
    \cup {PlanNewLocal(in, paths, excluded, class, p) :
              p \in NewLocal(in, class)}
    \cup {PlanNewRemote(in, paths, class, u) :
              u \in NewRemote(in, paths, class)}

\* The gates, one after the other: what may be done, what finds its place, and
\* what can be put in an order.
Gated(in, paths, ops) ==
    LET allowed == {op \in ops : ~ Withheld(in, paths, op)}
        placed  == Acyclic(Unoccupied(in, paths, allowed))
    IN  [ops |-> placed, withheld |-> ops \ allowed,
         dropped |-> allowed \ placed]

Assembled(in, paths, parts) ==
    LET gated == Gated(in, paths, UNION {x.ops : x \in parts})
        report(reason, nodes) ==
            {[reason |-> reason, path |-> None, uid |-> u] : u \in nodes}
    IN  [ops       |-> gated.ops,
         conflicts |-> UNION {x.conflicts : x \in parts},
         blocked   |-> UNION {x.blocked : x \in parts}
                         \cup report("excluded", Shunned(in, paths))
                         \cup report("orphan", Orphans(in)),
         withheld  |-> gated.withheld,
         dropped   |-> gated.dropped,
         confirm   |-> RemoteEmptied(in, paths) /\ in.remoteUp /\ in.remoteOk]

Planned(in, paths, class) ==
    Assembled(in, paths, Parts(in, paths, ExcludedPaths(in, paths), class,
                               KeptTops(in, paths, class)))

\* In stages, each of which is given what the one before it found.
Reconcile(in) ==
    LET paths == RemotePaths(in)
    IN  Planned(in, paths, Classified(in, paths))
=============================================================================
