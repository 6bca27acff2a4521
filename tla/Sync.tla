-------------------------------- MODULE Sync --------------------------------
(***************************************************************************)
(* The decision engine and the executor together: plans are what           *)
(* Reconcile makes of fresh and complete views of both sides (the inputs   *)
(* of cycleOnce in src/engine/engine.ts, built by src/engine/views.ts),    *)
(* and the Executor runs them while users, faults and crashes interfere.   *)
(***************************************************************************)
EXTENDS Executor, Reconcile

\* localViewFromSnapshot: a digest only where stat differs from the row.
LocalView(f, b) ==
    [p \in DOMAIN f |->
        IF p \in DOMAIN b /\ b[p].ino = f[p].ino /\ b[p].ver = f[p].ver
           /\ b[p].lsha # None
        THEN [f[p] EXCEPT !.data = None] ELSE f[p]]

FreshInput(f, d, b, q) ==
    [base |-> b, items |-> LocalView(f, b), nodes |-> d,
     odd |-> {}, nameless |-> {}, hidden |-> {},
     localOk |-> TRUE, remoteOk |-> TRUE, rootOk |-> TRUE, remoteUp |-> TRUE,
     staleLocal |-> {}, staleRemote |-> {}, quarantined |-> q]

\* gateAndExecute() on a plan that needs no conflict handling.
PlansOf(f, d, b, q) ==
    LET result == Reconcile(FreshInput(f, d, b, q))
    IN  IF result.conflicts = {} THEN Orders(result.ops) ELSE {}

-----------------------------------------------------------------------------
Verdict == Reconcile(FreshInput(fs, drive, base, quarantine))

NothingToDo(v) == /\ v.ops = {} /\ v.conflicts = {} /\ v.blocked = {}
                  /\ v.withheld = {} /\ v.dropped = {}

\* The two sides have the same tree, and the baseline says so.
InSync ==
    LET paths == RemotePaths(FreshInput(fs, drive, base, quarantine)) IN
    /\ DOMAIN fs = {paths[u] : u \in DOMAIN paths}
    /\ \A u \in DOMAIN paths :
           /\ fs[paths[u]].dir = drive[u].dir
           /\ fs[paths[u]].data = drive[u].sha
    /\ \A u \in DOMAIN paths :
           paths[u] \in DOMAIN base /\ base[paths[u]].uid = u
    /\ DOMAIN base \subseteq DOMAIN fs

\* When there is nothing left to do, nothing is left undone: a difference
\* between the sides is always an operation, a conflict or a reported block.
NothingMissed == Idle /\ NothingToDo(Verdict) => InSync

\* Contents in the live trees, and those the baseline has as synced.
LiveContents ==
    LocalContents \cup {drive[u].sha : u \in {v \in DOMAIN drive :
                                          ~ EffectivelyTrashed(drive, v)}}
Agreed == UNION {{base[p].lsha, base[p].rsha} : p \in DOMAIN base}

\* A content that was never in sync and is new locally is neither overwritten
\* nor recycled: execution can check for it again right before it acts
\* (precheck(), atomicDownload(); conflict-handling "Conflicts never overwrite").
LocalNewsKept ==
    [][Toolstep => LocalContents \ Agreed \subseteq LiveContents']_vars

\* A remote node is out of sight only because the program trashes it or a
\* folder it is in: nothing is moved or uploaded into a folder that the other
\* side has trashed (reconcile.ts:129-133, such a folder is kept).
Hidden(d) == {u \in DOMAIN d : EffectivelyTrashed(d, u)}

OnlyTrashTrashes ==
    [][Toolstep => \A u \in Hidden(drive') \ Hidden(drive) :
           \E id \in DOMAIN journal :
               /\ journal[id].op.kind = "trash_remote"
               /\ journal[id].op.uid \in Above(drive, u)]_vars
=============================================================================
