------------------------------ MODULE Executor ------------------------------
(***************************************************************************)
(* Execution of a plan against both sides: the journaled operations of     *)
(* src/execute/executor.ts, the file writes of src/execute/localWrite.ts,  *)
(* the verified transfers of src/remote/transfer.ts, the journal of        *)
(* src/state/journal.ts and the startup recovery of                        *)
(* src/execute/recovery.ts.                                                *)
(*                                                                         *)
(* The program is one event loop: an action is the code that runs between  *)
(* two awaits, so other tasks, the users of both sides and a crash come    *)
(* between any two actions.  A remote call is one action: it takes effect  *)
(* or not, and its reply arrives or is lost.                               *)
(***************************************************************************)
EXTENDS SyncData

CONSTANTS
    Plannable(_, _, _, _), \* plans for (fs, drive, base, quarantine)
    Worlds,              \* the initial [fs, drive, base] of the two sides
    Concurrency,         \* config.concurrency: transfers of one batch
    MaxRetries,          \* config.maxRetries
    Faults,              \* the errors the outside world may raise
    Users,               \* what the users of the two sides may do
    RacyUser,            \* may the local user act inside check-to-use windows?
    MaxEdits, MaxCrashes, MaxPlans, MaxStops,  \* bounds of this model
    UserPaths            \* where users create and move things

ErrorKinds == {"retryable", "auth", "other", "disk_full", "lost"}
UserKinds  == {"edit", "create", "delete", "rename",
               "remote edit", "remote trash", "remote restore", "remote move",
               "remote delete"}

ASSUME ExecutorAssumption ==
    /\ Concurrency \in Nat \ {0} /\ MaxRetries \in Nat
    /\ Faults \subseteq ErrorKinds
    /\ Users \subseteq UserKinds /\ RacyUser \in BOOLEAN
    /\ {MaxEdits, MaxCrashes, MaxPlans, MaxStops} \subseteq Nat
    /\ UserPaths \subseteq Path

VARIABLES
    fs,         \* the local file system under the sync root
    recycled,   \* the local recycle bin: records [path, data]
    drive,      \* the remote drive
    olds,       \* contents of superseded remote revisions
    base,       \* the baseline table
    journal,    \* the unresolved journal entries: id -> [status, op]
    quarantine, \* what the engine refuses to touch: records [path, uid]
    plan,       \* operations of the current plan not begun yet
    tasks,      \* runOne() calls in flight: journal id -> task
    awaited,    \* the ids the current execute() waits for
    made,       \* createdRemoteDirs of the current executor: path -> uid
    ctl,        \* "run", "paused", "cancelled" or "halted" (disk full, auth)
    mode,       \* "up", or "recovering" after a restart
    clock,      \* source of fresh inodes, versions, uids, revisions and ids
    edits, crashes, plans, stops        \* counters of the bounds

sides   == <<fs, recycled, drive, olds>>
store   == <<base, journal, quarantine>>
running == <<plan, tasks, awaited, made, ctl, mode>>
bounds  == <<edits, crashes, plans, stops>>
vars    == <<sides, store, running, clock, bounds>>

NoHold == [ver |-> None, sha |-> None, uid |-> None, rev |-> None]
Hold   == [ver: Nat \cup {None}, sha: Digest,
           uid: Nat \cup {None}, rev: Nat \cup {None}]

\* Where a task awaits: every step past the precheck belongs to a started entry.
Acting == {"hash", "send", "check", "readback",           \* upload
           "fetch", "stream", "place", "swap", "record",  \* download
           "slide", "settle",                             \* move_local
           "locate", "move", "rename", "confirm",         \* move_remote
           "bin", "trash", "verify",            \* recycle_local, trash_remote
           "create", "lookup", "mkdir", "commit"}         \* create_*_folder
Steps  == {"precheck", "retry"} \cup Acting

Task  == [op: Operation, att: Nat \ {0}, pc: Steps, hold: Hold]
Entry == [status: {"planned", "in_progress"}, op: Operation]

ItemsOK(f) == DOMAIN f \subseteq Path /\ \A p \in DOMAIN f : f[p] \in Item
NodesOK(d) == DOMAIN d \subseteq Nat /\ \A u \in DOMAIN d : d[u] \in Node
RowsOK(b)  == DOMAIN b \subseteq Path /\ \A p \in DOMAIN b : b[p] \in Row

\* No identifier beyond the clock is in use, nor the root's.
ASSUME WorldsAssumption ==
    \A w \in Worlds :
        /\ ItemsOK(w.fs) /\ NodesOK(w.drive) /\ RowsOK(w.base)
        /\ Root \notin DOMAIN w.drive
        /\ w.clock \in Nat /\ \A u \in DOMAIN w.drive : u <= w.clock

-----------------------------------------------------------------------------
(* What the code reads of the two sides.                                   *)

\* fingerprintMismatch: the item at p is the one the plan saw (None: nothing).
LocalMatches(p, fp) ==
    IF p \notin DOMAIN fs THEN fp = None
    ELSE /\ fp # None
         /\ fs[p].ino = fp.ino
         /\ fs[p].dir \/ fs[p].ver = fp.ver

\* remoteFingerprintMismatch: place and name are not compared.
RemoteMatches(uid, fp) ==
    /\ uid \in DOMAIN drive
    /\ ~ drive[uid].trashed
    /\ drive[uid].rev = fp.rev
    /\ fp.sha # None /\ drive[uid].sha # None => drive[uid].sha = fp.sha

\* remoteParentUid, from the folders this executor made and from the baseline.
ParentUid(p, folders) ==
    IF Parent(p) = <<>> THEN Root
    ELSE IF Parent(p) \in DOMAIN folders THEN folders[Parent(p)]
    ELSE IF Parent(p) \in DOMAIN base THEN base[Parent(p)].uid
    ELSE None

RemoteParent(p) == ParentUid(p, made)

\* The live children of `parent' called `name' of the wanted type.
Matching(parent, name, dir) ==
    {u \in DOMAIN drive : /\ drive[u].parent = parent
                          /\ drive[u].name = name
                          /\ ~ drive[u].trashed
                          /\ drive[u].dir = dir}

FolderExists(uid) == uid = Root \/ (uid \in DOMAIN drive /\ drive[uid].dir)

\* The drive refuses two live nodes of the same name in a folder.
NameTaken(parent, name, uid) ==
    \E dir \in BOOLEAN : Matching(parent, name, dir) \ {uid} # {}

IsFile(p) == p \in DOMAIN fs /\ ~ fs[p].dir

Ancestors(p) == {SubSeq(p, 1, n) : n \in 1..(Len(p) - 1)}

\* Every ancestor of p is a directory or does not exist.
PathUsable(p) == \A d \in Ancestors(p) \cap DOMAIN fs : fs[d].dir

\* The folder p is in exists.
Housed(p) == PathUsable(p) /\ Ancestors(p) \subseteq DOMAIN fs

\* A local tree is a tree: what is in it is in folders that are in it.
ASSUME TreesAssumption ==
    \A w \in Worlds : \A p \in DOMAIN w.fs : Ancestors(p) \subseteq DOMAIN w.fs

\* mkdirSync(dirname(p), { recursive: true })
WithParents(f, p) ==
    [q \in DOMAIN f \cup Ancestors(p) |->
        IF q \in DOMAIN f THEN f[q]
        ELSE [dir |-> TRUE, ino |-> clock + Len(q), ver |-> 0, data |-> None]]

\* Among the items of a tree a version stands for one content, and nothing is
\* beyond n; a folder has neither version nor content.
VersionsOK(items, n) ==
    /\ \A x \in items : /\ x.ino <= n /\ x.ver <= n
                        /\ IF x.dir THEN x.ver = 0 /\ x.data = None
                                    ELSE x.ver # 0
    /\ \A x, y \in items : x.ver = y.ver => x.data = y.data

\* What row r of a file says is so: the version and the revision it names are
\* of one content, where f and d still have them, and neither is yet to come.
RowTold(r, f, d, n) ==
    ~ r.dir =>
        /\ r.ino <= n /\ r.ver <= n /\ r.uid <= n /\ r.rev <= n
        /\ r.lsha \in {None, r.rsha}
        /\ \A x \in Range(f) :
               x.ino = r.ino /\ x.ver = r.ver => x.data = r.rsha
        /\ r.uid \in DOMAIN d /\ d[r.uid].rev = r.rev => d[r.uid].sha = r.rsha

\* No version or revision beyond the clock is in use, a remote folder has no
\* digest, and the baseline of a world says what is so.
ASSUME BaselinesAssumption ==
    \A w \in Worlds :
        /\ IsFiniteSet(DOMAIN w.drive) /\ VersionsOK(Range(w.fs), w.clock)
        /\ \A u \in DOMAIN w.drive :
               /\ w.drive[u].rev <= w.clock
               /\ w.drive[u].dir => w.drive[u].sha = None
        /\ \A p \in DOMAIN w.base : RowTold(w.base[p], w.fs, w.drive, w.clock)

-----------------------------------------------------------------------------
(* The baseline an operation commits.                                      *)

\* localRow: the row takes what stat(2) says NOW, not what was planned.
LocalRow(p, dir, node, uid, sha) ==
    [dir |-> dir, ino |-> fs[p].ino, ver |-> fs[p].ver, lsha |-> sha,
     uid |-> uid, rev |-> node.rev, rsha |-> node.sha]

\* The digest a move carries over from the row at its source.
CarriedSha(from) == IF from \in DOMAIN base THEN base[from].lsha ELSE None

\* The table after `op', for the node `uid' as the code saw it.
BaseAfter(op, uid, node, sha) ==
    CASE op.kind \in {"recycle_local", "trash_remote"} ->
             RemoveTree(base, op.path)
      [] op.kind \in MoveKinds ->
             LET dir == IF op.kind = "move_local" THEN fs[op.path].dir
                                                  ELSE drive[uid].dir
             IN  Upsert(MoveTree(base, op.from, op.path), op.path,
                        LocalRow(op.path, dir, node, uid, CarriedSha(op.from)))
      [] OTHER ->
             Upsert(base, op.path,
                    LocalRow(op.path, op.kind \notin TransferKinds,
                             node, uid, sha))

\* A renamed row would hit an existing key: the transaction rolls back.
CommitFits(op) == op.kind \in MoveKinds => MoveFits(base, op.from, op.path)

-----------------------------------------------------------------------------
(* The life of a task.                                                     *)

Go(id, pc, hold) == tasks' = [tasks EXCEPT ![id].pc = pc, ![id].hold = hold]

Forget(f, id) == [i \in DOMAIN f \ {id} |-> f[i]]

\* runOne goes on to its next await; the journal entry stays as it is.
Proceed(id, pc, hold) ==
    Go(id, pc, hold) /\ UNCHANGED <<journal, quarantine, plan, awaited, ctl>>

\* Mutant: the completion is missing from the commit's transaction.
FinishUnresolved(id) ==
    /\ tasks' = Forget(tasks, id)
    /\ awaited' = awaited \ {id}
    /\ UNCHANGED <<journal, plan>>

\* runOne returns: the entry is resolved and nobody waits for the task.
Finish(id) ==
    /\ tasks' = Forget(tasks, id)
    /\ awaited' = awaited \ {id}
    /\ journal' = Forget(journal, id)
    /\ UNCHANGED plan

\* completed or skipped
Resolve(id) == Finish(id) /\ UNCHANGED <<quarantine, ctl>>

Suspect(op) == [path |-> op.path, uid |-> op.uid]

\* A lost reply is a retryable error.
CanRetry(id, e) ==
    /\ e \in {"retryable", "lost"}
    /\ ctl # "cancelled"
    /\ tasks[id].att <= MaxRetries

\* The catch block of runOne, for an error of kind e.
Raise(id, e) ==
    \/ CanRetry(id, e) /\ Proceed(id, "retry", tasks[id].hold)
    \/ /\ ~ CanRetry(id, e)
       /\ Finish(id)
       /\ quarantine' = IF e = "integrity"
                        THEN quarantine \cup {Suspect(tasks[id].op)}
                        ELSE quarantine
       /\ ctl' = IF e \in {"auth", "disk_full"} /\ id \in awaited
                 THEN "halted" ELSE ctl

\* Mutant: the batch goes on waiting for a task that is gone.
ThrowUnnoticed(id) ==
    /\ tasks' = Forget(tasks, id)
    /\ UNCHANGED <<journal, quarantine, plan, awaited, ctl>>

\* An exception out of runOne: execute() rejects, the entry stays unresolved
\* and the other tasks of the batch run on with nobody waiting for them.
Throw(id) ==
    /\ tasks' = Forget(tasks, id)
    /\ awaited' = IF id \in awaited THEN {} ELSE awaited
    /\ plan' = IF id \in awaited THEN <<>> ELSE plan
    /\ UNCHANGED <<journal, quarantine, ctl>>

\* The reply of a mutation that took effect arrives, or is lost.
Reply(id, pc, hold) ==
    \/ Proceed(id, pc, hold)
    \/ "lost" \in Faults /\ Raise(id, "lost")

\* What a step of a task leaves alone besides what it says.
StepFrame == UNCHANGED <<mode, bounds>>
Quiet     == UNCHANGED <<sides, base, made, clock>> /\ StepFrame

-----------------------------------------------------------------------------
(* What goes wrong at a step: the errors act() and commit() raise there.   *)

When(condition, e) == IF condition THEN {e} ELSE {}

\* Where an upload goes: the node of a new revision, the folder of a new file.
UploadTarget(op) == IF op.uid = None THEN RemoteParent(op.path) ELSE op.uid

UploadErrors(t) ==
    LET op == t.op
        hold == t.hold
        seen == hold.uid \in DOMAIN drive IN
    CASE t.pc = "hash" ->
             When(~ IsFile(op.path) \/ UploadTarget(op) = None, "other")
      [] t.pc = "send" ->  \* the drive checks what it gets against the digest
             When(~ IsFile(op.path), "other")
             \cup When(IsFile(op.path) /\ fs[op.path].data # hold.sha,
                       "integrity")
             \cup When(IF op.uid # None THEN ~ seen \/ drive[hold.uid].dir
                       ELSE \/ ~ FolderExists(hold.uid)
                            \/ NameTaken(hold.uid, NameOf(op.path), None),
                       "other")
      [] t.pc = "check" ->  \* changed during the upload: retryable
             IF ~ IsFile(op.path) \/ fs[op.path].ver # hold.ver
             THEN {"retryable"}
             ELSE When(~ seen \/ drive[hold.uid].rev # hold.rev
                              \/ drive[hold.uid].sha # hold.sha, "integrity")
      [] t.pc = "readback" ->
             When(~ seen, "integrity")
             \cup When(seen /\ ~ LocalMatches(op.path, op.lfp), "other")

\* Mutant: the target is not looked at again before the temp file is placed.
DownloadErrorsUnchecked(t) ==
    LET op == t.op
        known == op.uid \in DOMAIN drive IN
    CASE t.pc = "fetch" -> When(~ known, "other")
      [] t.pc = "stream" -> When(~ known, "other")
      [] t.pc = "place" -> When(ctl = "cancelled" \/ ~ PathUsable(op.path), "other")
      [] t.pc = "swap" -> When(~ Housed(op.path), "other")
      [] t.pc = "record" -> When(op.path \notin DOMAIN fs, "other")

DownloadErrors(t) ==
    LET op == t.op
        known == op.uid \in DOMAIN drive IN
    CASE t.pc = "fetch" -> When(~ known, "other")
      [] t.pc = "stream" ->
             When(~ known, "other")
             \cup When(known /\ drive[op.uid].sha # t.hold.sha, "integrity")
      [] t.pc = "place" ->
             When(\/ ctl = "cancelled" \/ ~ LocalMatches(op.path, op.lfp)
                  \/ ~ PathUsable(op.path), "other")
      [] t.pc = "swap" ->
             When(~ Housed(op.path) \/ (op.path \in DOMAIN fs
                                        /\ fs[op.path].dir), "other")
      [] t.pc = "record" -> When(op.path \notin DOMAIN fs, "other")

MoveErrors(t) ==
    LET op == t.op
        known == op.uid \in DOMAIN drive
        there == /\ known
                 /\ drive[op.uid].parent = t.hold.uid
                 /\ drive[op.uid].name = NameOf(op.path)
        uncommitted == op.path \notin DOMAIN fs \/ ~ CommitFits(op) IN
    CASE t.pc = "slide" ->
             When(\/ op.from \notin DOMAIN fs \/ Under(op.from, op.path)
                  \/ ~ PathUsable(op.path)
                  \/ op.path \in DOMAIN fs
                     /\ (fs[op.path].dir \/ fs[op.from].dir), "other")
      [] t.pc = "settle" ->
             When(~ known, "integrity") \cup When(known /\ uncommitted, "other")
      [] t.pc = "locate" ->
             When(~ known \/ RemoteParent(op.path) = None, "other")
      [] t.pc = "move" ->
             When(\/ ~ known \/ ~ FolderExists(t.hold.uid)
                  \/ op.uid \in Above(drive, t.hold.uid)
                  \/ NameTaken(t.hold.uid, drive[op.uid].name, op.uid), "other")
      [] t.pc = "rename" ->
             When(\/ ~ known
                  \/ NameTaken(drive[op.uid].parent, NameOf(op.path), op.uid),
                  "other")
      [] t.pc = "confirm" ->
             When(~ there, "integrity") \cup When(there /\ uncommitted, "other")

OtherErrors(t) ==
    LET op == t.op
        parent == RemoteParent(op.path)
        known == op.uid \in DOMAIN drive IN
    CASE t.pc = "bin" -> When(op.path \notin DOMAIN fs, "other")
      [] t.pc = "create" ->
             When(\/ parent = None \/ op.path \notin DOMAIN fs
                  \/ ~ FolderExists(parent)
                  \/ NameTaken(parent, NameOf(op.path), None), "other")
      [] t.pc = "mkdir" ->
             When(op.path \in DOMAIN fs \/ ~ Housed(op.path), "other")
      [] t.pc = "verify" ->
             When(known /\ ~ drive[op.uid].trashed, "integrity")
      [] t.pc \in {"trash", "lookup"} -> When(~ known, "other")
      [] t.pc = "commit" ->
             When(op.kind # "recycle_local" /\ op.path \notin DOMAIN fs,
                  "other")

Errors(t) ==
    CASE t.pc \notin Acting      -> {}
      [] t.op.kind = "upload"    -> UploadErrors(t)
      [] t.op.kind = "download"  -> DownloadErrors(t)
      [] t.op.kind \in MoveKinds -> MoveErrors(t)
      [] OTHER                   -> OtherErrors(t)

StepFails(id) ==
    /\ \E e \in Errors(tasks[id]) : Raise(id, e)
    /\ Quiet

\* The steps that are, or begin with, a call to the drive, which may fail.
RemoteSteps == {"send", "check", "readback", "fetch", "stream", "settle",
                "locate", "move", "rename", "confirm", "trash", "verify",
                "create", "lookup"}

RemoteFails(id) ==
    /\ \/ tasks[id].pc \in RemoteSteps
       \/ tasks[id].pc = "precheck" /\ tasks[id].op.rfp # None
    /\ \E e \in Faults \ {"lost", "disk_full"} : Raise(id, e)
    /\ Quiet

\* cancelAll() aborts the transfers in flight; a temp file may not fit.
TransferFails(id) ==
    /\ \/ ctl = "cancelled" /\ tasks[id].pc \in {"send", "stream"}
          /\ Raise(id, "other")
       \/ "disk_full" \in Faults /\ tasks[id].pc = "stream"
          /\ Raise(id, "disk_full")
    /\ Quiet

-----------------------------------------------------------------------------
(* precheck(), and journal.start() on the first attempt.                   *)

\* Mutant: only the local side is checked again.
PreconditionsLocal(op) ==
    op.kind \in TransferKinds \cup {"recycle_local"} => LocalMatches(op.path, op.lfp)

\* Mutant: deletions are not checked again.
PreconditionsSome(op) ==
    CASE op.kind = "upload" -> LocalMatches(op.path, op.lfp)
      [] op.kind = "download" ->
             LocalMatches(op.path, op.lfp) /\ RemoteMatches(op.uid, op.rfp)
      [] OTHER -> TRUE

Preconditions(op) ==
    CASE op.kind = "upload" ->
             /\ LocalMatches(op.path, op.lfp)
             /\ op.uid # None /\ op.rfp # None => RemoteMatches(op.uid, op.rfp)
      [] op.kind = "download" ->
             LocalMatches(op.path, op.lfp) /\ RemoteMatches(op.uid, op.rfp)
      [] op.kind = "move_local" ->
             LocalMatches(op.from, op.lfp) /\ LocalMatches(op.path, None)
      [] op.kind = "recycle_local" -> LocalMatches(op.path, op.lfp)
      [] op.kind \in {"move_remote", "trash_remote"} ->
             RemoteMatches(op.uid, op.rfp)
      [] OTHER -> TRUE

FirstStep == [upload |-> "hash", download |-> "fetch", move_local |-> "slide",
              move_remote |-> "locate", recycle_local |-> "bin",
              trash_remote |-> "trash", create_remote_folder |-> "create",
              create_local_folder |-> "lookup"]

\* Mutant: the entry is not started.
PrecheckUnjournaled(id) ==
    /\ tasks[id].pc = "precheck" /\ Preconditions(tasks[id].op)
    /\ Proceed(id, FirstStep[tasks[id].op.kind], NoHold) /\ Quiet

PrecheckPasses(id) ==
    /\ tasks[id].pc = "precheck" /\ Preconditions(tasks[id].op)
    /\ journal' = [journal EXCEPT ![id].status = "in_progress"]
    /\ Go(id, FirstStep[tasks[id].op.kind], NoHold)
    /\ UNCHANGED <<quarantine, plan, awaited, ctl>> /\ Quiet

\* The entry is abandoned, planned or in progress, and the item replanned.
PrecheckSkips(id) ==
    /\ tasks[id].pc = "precheck" /\ ~ Preconditions(tasks[id].op)
    /\ Resolve(id) /\ Quiet

-----------------------------------------------------------------------------
(* act(), one action per stretch between two awaits.                       *)

Able(id, pc) == tasks[id].pc = pc /\ Errors(tasks[id]) = {}

\* Steps that only read: stat and hash; the node as it is now; the bytes of
\* the revision that is active now; the place of the node.
Read(id) ==
    LET op   == tasks[id].op
        hold == tasks[id].hold IN
    /\ \/ /\ Able(id, "hash")
          /\ Proceed(id, "send",
                     [ver |-> fs[op.path].ver, sha |-> fs[op.path].data,
                      uid |-> UploadTarget(op), rev |-> None])
       \/ Able(id, "check") /\ Proceed(id, "readback", hold)
       \/ /\ Able(id, "fetch")
          /\ Proceed(id, "stream",
                     [ver |-> None, sha |-> drive[op.uid].sha,
                      uid |-> op.uid, rev |-> drive[op.uid].rev])
       \/ Able(id, "stream") /\ Proceed(id, "place", hold)
       \/ /\ Able(id, "locate")
          /\ Proceed(id,
                     IF drive[op.uid].parent # RemoteParent(op.path)
                     THEN "move"
                     ELSE IF drive[op.uid].name # NameOf(op.path)
                     THEN "rename" ELSE "confirm",
                     [NoHold EXCEPT !.uid = RemoteParent(op.path)])
       \/ Able(id, "lookup") /\ Proceed(id, "mkdir", NoHold)
    /\ Quiet

UploadNewFile(id) ==
    LET op == tasks[id].op
        hold == tasks[id].hold
        uid == clock + 1 IN
    /\ Able(id, "send") /\ op.uid = None
    /\ drive' = Put(drive, uid,
                    [parent |-> hold.uid, name |-> NameOf(op.path),
                     dir |-> FALSE, trashed |-> FALSE,
                     rev |-> uid, sha |-> hold.sha])
    /\ clock' = uid
    /\ Reply(id, "check", [hold EXCEPT !.uid = uid, !.rev = uid])
    /\ UNCHANGED <<fs, recycled, olds, base, made>> /\ StepFrame

UploadNewRevision(id) ==
    LET op == tasks[id].op
        hold == tasks[id].hold
        rev == clock + 1 IN
    /\ Able(id, "send") /\ op.uid # None
    /\ olds' = olds \cup {drive[op.uid].sha}
    /\ drive' = [drive EXCEPT ![op.uid].rev = rev, ![op.uid].sha = hold.sha]
    /\ clock' = rev
    /\ Reply(id, "check", [hold EXCEPT !.rev = rev])
    /\ UNCHANGED <<fs, recycled, base, made>> /\ StepFrame

\* RecycleBin.recycle: the item and all below it go to the bin.
Recycle(p) ==
    /\ fs' = RemoveTree(fs, p)
    /\ recycled' = recycled \cup
           {[path |-> q, data |-> fs[q].data] :
                q \in {r \in DOMAIN fs : Under(p, r)}}

\* The target is as planned: the previous file goes to the bin.
DownloadPlace(id) ==
    LET op == tasks[id].op IN
    /\ Able(id, "place")
    /\ IF op.lfp # None THEN Recycle(op.path)
       ELSE fs' = WithParents(fs, op.path) /\ UNCHANGED recycled
    /\ clock' = clock + Len(op.path)
    /\ Proceed(id, "swap", tasks[id].hold)
    /\ UNCHANGED <<drive, olds, base, made>> /\ StepFrame

\* rename(temp, final) replaces whatever file has come to be at the target.
DownloadSwap(id) ==
    /\ Able(id, "swap")
    /\ fs' = Put(fs, tasks[id].op.path,
                 [dir |-> FALSE, ino |-> clock + 1, ver |-> clock + 1,
                  data |-> tasks[id].hold.sha])
    /\ clock' = clock + 1
    /\ Proceed(id, "record", tasks[id].hold)
    /\ UNCHANGED <<recycled, drive, olds, base, made>> /\ StepFrame

\* The parents are made, then rename(from, to).
MoveLocalAct(id) ==
    LET op == tasks[id].op IN
    /\ Able(id, "slide")
    /\ fs' = MoveTree(RemoveTree(WithParents(fs, op.path), op.path),
                      op.from, op.path)
    /\ clock' = clock + Len(op.path)
    /\ Proceed(id, "settle", NoHold)
    /\ UNCHANGED <<recycled, drive, olds, base, made>> /\ StepFrame

\* drive.move(), then drive.rename(), each only where it is needed.
MoveRemoteAct(id) ==
    LET op == tasks[id].op
        hold == tasks[id].hold
        node == drive[op.uid] IN
    /\ \/ /\ Able(id, "move")
          /\ drive' = [drive EXCEPT ![op.uid].parent = hold.uid]
          /\ Reply(id, IF node.name # NameOf(op.path) THEN "rename"
                                                      ELSE "confirm", hold)
       \/ /\ Able(id, "rename")
          /\ drive' = [drive EXCEPT ![op.uid].name = NameOf(op.path)]
          /\ Reply(id, "confirm", hold)
    /\ UNCHANGED <<fs, recycled, olds, base, made, clock>> /\ StepFrame

RecycleLocalAct(id) ==
    /\ Able(id, "bin")
    /\ Recycle(tasks[id].op.path)
    /\ Proceed(id, "commit", NoHold)
    /\ UNCHANGED <<drive, olds, base, made, clock>> /\ StepFrame

TrashRemoteAct(id) ==
    /\ Able(id, "trash")
    /\ drive' = [drive EXCEPT ![tasks[id].op.uid].trashed = TRUE]
    /\ Reply(id, "verify", NoHold)
    /\ UNCHANGED <<fs, recycled, olds, base, made, clock>> /\ StepFrame

CreateRemoteFolderAct(id) ==
    LET p == tasks[id].op.path
        uid == clock + 1 IN
    /\ Able(id, "create")
    /\ drive' = Put(drive, uid,
                    [parent |-> RemoteParent(p), name |-> NameOf(p),
                     dir |-> TRUE, trashed |-> FALSE, rev |-> 0, sha |-> None])
    /\ clock' = uid
    /\ \/ /\ Proceed(id, "commit", [NoHold EXCEPT !.uid = uid])
          /\ made' = Put(made, p, uid)
       \/ "lost" \in Faults /\ Raise(id, "lost") /\ UNCHANGED made
    /\ UNCHANGED <<fs, recycled, olds, base>> /\ StepFrame

CreateLocalFolderAct(id) ==
    /\ Able(id, "mkdir")
    /\ fs' = Put(fs, tasks[id].op.path,
                 [dir |-> TRUE, ino |-> clock + 1, ver |-> 0, data |-> None])
    /\ clock' = clock + 1
    /\ Proceed(id, "commit", NoHold)
    /\ UNCHANGED <<recycled, drive, olds, base, made>> /\ StepFrame

\* commit(): the baseline and the completion in one transaction.
LastSteps == {"readback", "record", "settle", "confirm", "verify", "commit"}

CommitStep(id) ==
    LET op   == tasks[id].op
        hold == tasks[id].hold
        uid  == IF op.uid # None THEN op.uid ELSE hold.uid
        node == CASE op.kind = "download" -> hold
                  [] op.kind \in {"create_local_folder", "create_remote_folder"} ->
                         [rev |-> 0, sha |-> None]
                  [] OTHER -> drive[uid] IN
    /\ tasks[id].pc \in LastSteps /\ Errors(tasks[id]) = {}
    /\ base' = BaseAfter(op, uid, node, hold.sha)
    /\ Resolve(id)
    /\ UNCHANGED <<sides, made, clock>> /\ StepFrame

Act(id) ==
    \/ Read(id)
    \/ UploadNewFile(id) \/ UploadNewRevision(id)
    \/ DownloadPlace(id) \/ DownloadSwap(id)
    \/ MoveLocalAct(id) \/ MoveRemoteAct(id)
    \/ RecycleLocalAct(id) \/ TrashRemoteAct(id)
    \/ CreateRemoteFolderAct(id) \/ CreateLocalFolderAct(id)
    \/ CommitStep(id)

-----------------------------------------------------------------------------
(* After the backoff: alreadyApplied(), then commit or another attempt.    *)

\* The nodes at the place of an upload or a new folder, given its parent.
AtPlace(op, parent) ==
    Matching(parent, NameOf(op.path), op.kind = "create_remote_folder")

\* The nodes that show that `op' has landed.
LandedNodes(op) ==
    CASE op.kind = "upload" ->
             {u \in IF op.uid # None THEN {op.uid} \cap DOMAIN drive
                    ELSE AtPlace(op, RemoteParent(op.path)) :
                /\ op.lfp.sha # None /\ drive[u].sha = op.lfp.sha
                /\ op.path \in DOMAIN fs}
      [] op.kind = "trash_remote" ->
             IF op.uid \in DOMAIN drive /\ ~ drive[op.uid].trashed THEN {}
             ELSE {op.uid}
      [] op.kind = "move_remote" ->
             {u \in {op.uid} \cap DOMAIN drive :
                /\ drive[u].parent = RemoteParent(op.path)
                /\ drive[u].name = NameOf(op.path)
                /\ op.path \in DOMAIN fs}
      [] op.kind = "create_remote_folder" ->
             {u \in AtPlace(op, RemoteParent(op.path)) : op.path \in DOMAIN fs}
      [] OTHER -> {}

RetryFindsLanded(id) ==
    LET op == tasks[id].op IN
    /\ tasks[id].pc = "retry" /\ journal[id].status = "in_progress"
    /\ CommitFits(op)
    /\ \E u \in LandedNodes(op) :
           /\ made' = IF op.kind = "create_remote_folder"
                      THEN Put(made, op.path, u) ELSE made
           /\ base' = BaseAfter(op, u, drive[u],
                               IF op.kind = "upload" THEN op.lfp.sha ELSE None)
    /\ Resolve(id)
    /\ UNCHANGED <<sides, clock>> /\ StepFrame

\* Mutant: an attempt is not counted.
RetryUncounted(id) ==
    /\ tasks[id].pc = "retry" /\ journal[id].status = "in_progress"
    /\ LandedNodes(tasks[id].op) = {} \/ Faults \ {"lost", "disk_full"} # {}
    /\ Proceed(id, "precheck", tasks[id].hold) /\ Quiet

\* Not landed, or the call that would tell fails too.
RetryAgain(id) ==
    /\ tasks[id].pc = "retry" /\ journal[id].status = "in_progress"
    /\ LandedNodes(tasks[id].op) = {} \/ Faults \ {"lost", "disk_full"} # {}
    /\ tasks' = [tasks EXCEPT ![id].pc = "precheck", ![id].att = @ + 1]
    /\ UNCHANGED <<journal, quarantine, plan, awaited, ctl>> /\ Quiet

\* The journal refuses: recordRetry() and complete() of an entry never
\* started, or a renamed row in the way of a landed move.
RetryThrows(id) ==
    LET op == tasks[id].op IN
    /\ tasks[id].pc = "retry"
    /\ \/ journal[id].status = "planned"
       \/ LandedNodes(op) # {} /\ ~ CommitFits(op)
    /\ Throw(id) /\ Quiet

Retry(id) == RetryFindsLanded(id) \/ RetryAgain(id) \/ RetryThrows(id)

-----------------------------------------------------------------------------
(* execute(): batches of transfers, everything else one at a time.         *)

\* A new executor for a new plan; operations of an earlier one that nobody
\* waits for share its ctl and made from now on.
MakePlan ==
    /\ mode = "up" /\ plan = <<>> /\ awaited = {} /\ plans < MaxPlans
    /\ \E ops \in Plannable(fs, drive, base, quarantine) :
           /\ ops # <<>> /\ ops \in Seq(Operation)
           /\ plan' = ops
    /\ made' = Empty /\ ctl' = "run"
    /\ plans' = plans + 1
    /\ UNCHANGED <<sides, store, tasks, awaited, mode, clock,
                   edits, crashes, stops>>

Ready == mode = "up" /\ plan # <<>> /\ awaited = {} /\ ctl = "run"

\* The next batch is the first n operations.
IsBatch(n) ==
    IF Head(plan).kind \notin TransferKinds THEN n = 1
    ELSE /\ n <= Concurrency
         /\ \A k \in 1..n : plan[k].kind \in TransferKinds
         /\ n < Concurrency /\ n < Len(plan) =>
                plan[n + 1].kind \notin TransferKinds

\* journal.plan() for each operation of the batch.
StartBatch ==
    /\ Ready /\ Head(plan).kind \notin Bookkeeping
    /\ \E n \in 1..Len(plan) :
           LET ids == (clock + 1)..(clock + n) IN
           /\ IsBatch(n)
           /\ journal' = [i \in DOMAIN journal \cup ids |->
                  IF i \in ids
                  THEN [status |-> "planned", op |-> plan[i - clock]]
                  ELSE journal[i]]
           /\ tasks' = [i \in DOMAIN tasks \cup ids |->
                  IF i \in ids
                  THEN [op |-> plan[i - clock], att |-> 1, pc |-> "precheck",
                        hold |-> NoHold]
                  ELSE tasks[i]]
           /\ awaited' = ids
           /\ plan' = SubSeq(plan, n + 1, Len(plan))
           /\ clock' = clock + n
    /\ UNCHANGED <<sides, base, quarantine, made, ctl, mode, bounds>>

\* runBookkeeping(): no journal; the row takes the stat of now.
KeepBooks ==
    LET op == Head(plan) IN
    /\ Ready /\ op.kind \in Bookkeeping
    /\ plan' = Tail(plan)
    /\ base' = IF op.kind = "remove_baseline" THEN RemoveTree(base, op.path)
               ELSE IF op.path \in DOMAIN fs /\ fs[op.path].ino = op.lfp.ino
               THEN Upsert(base, op.path,
                           LocalRow(op.path, op.dir, op.rfp, op.uid,
                                    op.lfp.sha))
               ELSE base
    /\ UNCHANGED <<sides, journal, quarantine, tasks, awaited, made, ctl, mode,
                   clock, bounds>>

\* Paused, cancelled or halted: execute() returns without the rest.
StopEarly ==
    /\ mode = "up" /\ plan # <<>> /\ awaited = {} /\ ctl # "run"
    /\ plan' = <<>>
    /\ UNCHANGED <<sides, store, tasks, awaited, made, ctl, mode, clock,
                   bounds>>

Pause ==
    /\ mode = "up" /\ (plan # <<>> \/ awaited # {}) /\ ctl = "run"
    /\ stops < MaxStops /\ stops' = stops + 1
    /\ ctl' = "paused"
    /\ UNCHANGED <<sides, store, plan, tasks, awaited, made, mode, clock,
                   edits, crashes, plans>>

CancelAll ==
    /\ mode = "up" /\ (plan # <<>> \/ awaited # {})
    /\ ctl \in {"run", "paused"}
    /\ stops < MaxStops /\ stops' = stops + 1
    /\ ctl' = "cancelled"
    /\ UNCHANGED <<sides, store, plan, tasks, awaited, made, mode, clock,
                   edits, crashes, plans>>

-----------------------------------------------------------------------------
(* A crash loses the memory of the process; recoverJournal() then resolves *)
(* the entries in order of their ids before anything is planned.           *)

Crash ==
    /\ plan # <<>> \/ journal # Empty
    /\ crashes < MaxCrashes /\ crashes' = crashes + 1
    /\ tasks' = Empty /\ awaited' = {} /\ plan' = <<>> /\ made' = Empty
    /\ ctl' = "run" /\ mode' = "recovering"
    /\ UNCHANGED <<sides, store, clock, edits, plans, stops>>

\* What recovery finds at the place of an upload or a new folder; nothing is
\* remembered of the folders the executor made.
FoundAtPlace(op) == AtPlace(op, ParentUid(op.path, Empty))

\* Mutants: what is there counts as what the operation would have put there.
UploadPresent(op) ==
    IF ~ IsFile(op.path) THEN "abandoned"
    ELSE IF op.uid \in DOMAIN drive \/ FoundAtPlace(op) # {} THEN "completed"
    ELSE "failed"

DownloadPresent(op) ==
    IF op.uid \in DOMAIN drive /\ IsFile(op.path) THEN "completed" ELSE "failed"

\* inspect(): the outcome of an operation that was in progress, and the node.
UploadOutcome(op) ==
    LET nodes == {u \in IF op.uid # None THEN {op.uid} \cap DOMAIN drive
                        ELSE FoundAtPlace(op) :
                    drive[u].sha = fs[op.path].data}
    IN  IF ~ IsFile(op.path) THEN "abandoned"
        ELSE IF nodes # {} THEN "completed" ELSE "failed"

DownloadOutcome(op) ==
    LET previous == /\ op.lfp # None
                    /\ fs[op.path].ino = op.lfp.ino
                    /\ fs[op.path].ver = op.lfp.ver
    IN  IF op.uid \notin DOMAIN drive \/ ~ IsFile(op.path) \/ previous
        THEN "failed"
        ELSE IF drive[op.uid].sha = fs[op.path].data THEN "completed"
        ELSE "abandoned"

MoveLocalOutcome(op) ==
    IF op.from \in DOMAIN fs /\ op.path \notin DOMAIN fs THEN "failed"
    ELSE IF /\ op.from \notin DOMAIN fs /\ op.path \in DOMAIN fs
            /\ fs[op.path].ino = op.lfp.ino /\ op.uid \in DOMAIN drive
    THEN "completed" ELSE "abandoned"

MoveRemoteOutcome(op) ==
    IF op.uid \notin DOMAIN drive THEN "abandoned"
    ELSE IF \/ drive[op.uid].parent # ParentUid(op.path, Empty)
            \/ drive[op.uid].name # NameOf(op.path) THEN "failed"
    ELSE IF op.path \in DOMAIN fs THEN "completed" ELSE "abandoned"

Outcome(op) ==
    CASE op.kind = "upload"      -> UploadOutcome(op)
      [] op.kind = "download"    -> DownloadOutcome(op)
      [] op.kind = "move_local"  -> MoveLocalOutcome(op)
      [] op.kind = "move_remote" -> MoveRemoteOutcome(op)
      [] op.kind = "recycle_local" ->
             IF op.path \in DOMAIN fs THEN "failed"
             ELSE IF \E r \in recycled : Under(op.path, r.path)
             THEN "completed" ELSE "abandoned"
      [] op.kind = "trash_remote" ->
             IF op.uid \in DOMAIN drive /\ ~ drive[op.uid].trashed
             THEN "failed" ELSE "completed"
      [] op.kind = "create_remote_folder" ->
             IF op.path \in DOMAIN fs /\ FoundAtPlace(op) # {}
             THEN "completed" ELSE "failed"
      [] op.kind = "create_local_folder" ->
             IF op.uid \in DOMAIN drive /\ op.path \in DOMAIN fs
                                        /\ fs[op.path].dir
             THEN "completed" ELSE "failed"
      [] OTHER -> "failed"

NextEntry(id) ==
    /\ mode = "recovering" /\ id \in DOMAIN journal
    /\ \A other \in DOMAIN journal : id <= other

RecoverFrame == UNCHANGED <<sides, running, clock, bounds>>

RecoverUnstarted(id) ==
    /\ NextEntry(id) /\ journal[id].status = "planned"
    /\ journal' = Forget(journal, id)
    /\ UNCHANGED <<base, quarantine>> /\ RecoverFrame

RecoverCompleted(id) ==
    LET op == journal[id].op IN
    /\ NextEntry(id) /\ journal[id].status = "in_progress"
    /\ Outcome(op) = "completed" /\ CommitFits(op)
    /\ LET uid == IF op.uid # None THEN op.uid
                  ELSE CHOOSE u \in FoundAtPlace(op) :
                           op.kind = "upload" => drive[u].sha = fs[op.path].data
       IN  base' = BaseAfter(op, uid, drive[uid],
                             IF op.kind \in TransferKinds
                             THEN fs[op.path].data ELSE None)
    /\ journal' = Forget(journal, id)
    /\ UNCHANGED quarantine /\ RecoverFrame

RecoverFailed(id) ==
    /\ NextEntry(id) /\ journal[id].status = "in_progress"
    /\ Outcome(journal[id].op) = "failed"
    /\ journal' = Forget(journal, id)
    /\ UNCHANGED <<base, quarantine>> /\ RecoverFrame

\* Undecidable, or the inspection itself failed.
RecoverAbandoned(id) ==
    LET op == journal[id].op IN
    /\ NextEntry(id) /\ journal[id].status = "in_progress"
    /\ \/ Outcome(op) = "abandoned"
       \/ op.kind # "recycle_local" /\ Faults \ {"lost", "disk_full"} # {}
    /\ journal' = Forget(journal, id)
    /\ quarantine' = quarantine \cup {Suspect(op)}
    /\ UNCHANGED base /\ RecoverFrame

RecoveryDone ==
    /\ mode = "recovering" /\ journal = Empty
    /\ mode' = "up"
    /\ UNCHANGED <<sides, store, plan, tasks, awaited, made, ctl, clock,
                   bounds>>

-----------------------------------------------------------------------------
(* The users of the two sides.  Every edit makes a content seen nowhere.   *)

LocalContents  == {fs[p].data : p \in DOMAIN fs}
RemoteContents == {drive[u].sha : u \in DOMAIN drive}

\* Every place a byte of user content can rest (assertNoUserContentLost.ts).
Reachable == LocalContents \cup RemoteContents \cup olds
                 \cup {r.data : r \in recycled}

\* Between these steps and the check before them no other code runs: unless
\* RacyUser, the local user is not fast enough to come in between.
Windows == {"slide", "bin", "swap", "record", "commit"}

UserMay(kind) ==
    /\ kind \in Users /\ edits < MaxEdits /\ edits' = edits + 1
    /\ UNCHANGED <<store, running, crashes, plans, stops>>

LocalUserMay(kind) ==
    /\ UserMay(kind)
    /\ RacyUser \/ \A id \in DOMAIN tasks : tasks[id].pc \notin Windows
    /\ UNCHANGED <<recycled, drive, olds>>

UserEdits(p) ==
    /\ LocalUserMay("edit") /\ IsFile(p)
    /\ \E c \in Contents \ Reachable :
           fs' = [fs EXCEPT ![p].ver = clock + 1, ![p].data = c]
    /\ clock' = clock + 1

UserCreates(p) ==
    /\ LocalUserMay("create") /\ p \notin DOMAIN fs /\ PathUsable(p)
    /\ Len(p) > 1 => Parent(p) \in DOMAIN fs
    /\ \E c \in Contents \ Reachable :
           fs' = Put(fs, p, [dir |-> FALSE, ino |-> clock + 1,
                             ver |-> clock + 1, data |-> c])
    /\ clock' = clock + 1

UserDeletes(p) ==
    /\ LocalUserMay("delete") /\ p \in DOMAIN fs
    /\ fs' = RemoveTree(fs, p)
    /\ UNCHANGED clock

UserRenames(p, q) ==
    /\ LocalUserMay("rename") /\ p \in DOMAIN fs /\ q \notin DOMAIN fs
    /\ ~ Under(p, q) /\ PathUsable(q)
    /\ Len(q) > 1 => Parent(q) \in DOMAIN fs
    /\ fs' = MoveTree(fs, p, q)
    /\ UNCHANGED clock

LocalUser ==
    \E p \in DOMAIN fs \cup UserPaths :
        \/ UserEdits(p) \/ UserDeletes(p) \/ UserCreates(p)
        \/ \E q \in UserPaths : UserRenames(p, q)

RemoteEdits(u) ==
    /\ UserMay("remote edit")
    /\ ~ drive[u].dir /\ ~ drive[u].trashed
    /\ \E c \in Contents \ Reachable :
           drive' = [drive EXCEPT ![u].rev = clock + 1, ![u].sha = c]
    /\ olds' = olds \cup {drive[u].sha}
    /\ clock' = clock + 1
    /\ UNCHANGED <<fs, recycled>>

RemoteTrashes(u) ==
    /\ UserMay("remote trash") /\ ~ drive[u].trashed
    /\ drive' = [drive EXCEPT ![u].trashed = TRUE]
    /\ UNCHANGED <<fs, recycled, olds, clock>>

RemoteRestores(u) ==
    /\ UserMay("remote restore") /\ drive[u].trashed
    /\ ~ NameTaken(drive[u].parent, drive[u].name, u)
    /\ drive' = [drive EXCEPT ![u].trashed = FALSE]
    /\ UNCHANGED <<fs, recycled, olds, clock>>

\* Emptied from the trash of the drive.
RemoteDeletes(u) ==
    /\ UserMay("remote delete") /\ drive[u].trashed
    /\ drive' = [v \in {w \in DOMAIN drive : u \notin Above(drive, w)} |->
                    drive[v]]
    /\ UNCHANGED <<fs, recycled, olds, clock>>

RemoteMoves(u, parent, name) ==
    /\ UserMay("remote move") /\ ~ drive[u].trashed
    /\ FolderExists(parent) /\ u \notin Above(drive, parent)
    /\ ~ NameTaken(parent, name, u)
    /\ drive' = [drive EXCEPT ![u].parent = parent, ![u].name = name]
    /\ UNCHANGED <<fs, recycled, olds, clock>>

RemoteUser ==
    \E u \in DOMAIN drive :
        \/ RemoteEdits(u) \/ RemoteTrashes(u)
        \/ RemoteRestores(u) \/ RemoteDeletes(u)
        \/ \E parent \in DOMAIN drive \cup {Root}, name \in Names :
               RemoteMoves(u, parent, name)

-----------------------------------------------------------------------------
Init ==
    /\ \E w \in Worlds : fs = w.fs /\ drive = w.drive /\ base = w.base
                         /\ clock = w.clock
    /\ recycled = {} /\ olds = {} /\ quarantine = {}
    /\ journal = Empty /\ plan = <<>> /\ tasks = Empty /\ awaited = {}
    /\ made = Empty /\ ctl = "run" /\ mode = "recovering"
    /\ edits = 0 /\ crashes = 0 /\ plans = 0 /\ stops = 0

TaskStep(id) ==
    \/ StepFails(id) \/ RemoteFails(id) \/ TransferFails(id)
    \/ PrecheckPasses(id) \/ PrecheckSkips(id)
    \/ Act(id) \/ Retry(id)

Recover(id) ==
    \/ RecoverUnstarted(id) \/ RecoverCompleted(id)
    \/ RecoverFailed(id) \/ RecoverAbandoned(id)

\* What the process does without being told to.
Program ==
    \/ \E id \in DOMAIN tasks : TaskStep(id)
    \/ \E id \in DOMAIN journal : Recover(id)
    \/ RecoveryDone \/ StartBatch \/ KeepBooks \/ StopEarly

Next ==
    \/ Program \/ MakePlan
    \/ Pause \/ CancelAll \/ Crash
    \/ LocalUser \/ RemoteUser

\* The event loop runs what is ready to run.
Fairness == WF_vars(Program)

Spec == Init /\ [][Next]_vars /\ Fairness

-----------------------------------------------------------------------------
DataOK ==
    /\ ItemsOK(fs) /\ NodesOK(drive) /\ RowsOK(base)
    /\ \A r \in recycled : r \in [path: Path, data: Digest]
    /\ olds \subseteq Digest
    /\ DOMAIN made \subseteq Path /\ \A p \in DOMAIN made : made[p] \in Nat
    /\ clock \in Nat

ControlOK ==
    /\ DOMAIN journal \subseteq Nat
    /\ \A id \in DOMAIN journal : journal[id] \in Entry
    /\ DOMAIN tasks \subseteq Nat /\ \A id \in DOMAIN tasks : tasks[id] \in Task
    /\ \A q \in quarantine : q \in [path: Path, uid: Nat \cup {None}]
    /\ plan \in Seq(Operation)
    /\ awaited \subseteq DOMAIN tasks
    /\ ctl \in {"run", "paused", "cancelled", "halted"}
    /\ mode \in {"up", "recovering"}

BoundsOK == edits \in Nat /\ crashes \in Nat /\ plans \in Nat /\ stops \in Nat

TypeOK == DataOK /\ ControlOK /\ BoundsOK

-----------------------------------------------------------------------------
(* Safety.                                                                 *)

Toolstep == edits' = edits

\* No step of the program loses a content: it stays in the local tree, in the
\* recycle bin, in a remote node (trashed or not) or in a remote revision
\* (ARCHITECTURE.md invariant 1, testing/assertNoUserContentLost.ts).
NothingLost == [][Toolstep => Reachable \subseteq Reachable']_vars

\* A started task and its journal entry agree, so that what a crash interrupts
\* is known to recovery (runOne between journal.start() and commit()).
TasksJournaled ==
    \A id \in DOMAIN tasks :
        /\ id \in DOMAIN journal /\ journal[id].op = tasks[id].op
        /\ tasks[id].pc \in Acting => journal[id].status = "in_progress"

Changed(f, g) == {x \in DOMAIN f \cup DOMAIN g :
                     ~ (x \in DOMAIN f /\ x \in DOMAIN g /\ f[x] = g[x])}

\* Does operation op speak of the local path p, or make a folder above it?
Speaks(op, p) ==
    \/ Under(op.path, p) \/ Under(p, op.path)
    \/ op.from # None /\ Under(op.from, p)

\* The operations in progress, as the journal has them.
Begun == {journal[id].op : id \in
             {i \in DOMAIN journal : journal[i].status = "in_progress"}}

Announced ==
    /\ \A p \in Changed(fs, fs') : \E op \in Begun : Speaks(op, p)
    /\ \A u \in Changed(drive, drive') : \E op \in Begun :
           op.uid = u \/ (op.uid = None /\ u \notin DOMAIN drive)

\* Every change the program makes to either side is one that an in-progress
\* journal entry announces (ARCHITECTURE.md invariant 3; sync-execution
\* "Write-ahead journaling of every mutation").
WriteAhead == [][Toolstep => Announced]_vars

\* A started operation is not forgotten while the process runs: its entry has
\* a task, or recovery is about to look at it (runOne resolves what it starts).
NoneStranded ==
    mode = "up" => \A id \in DOMAIN journal :
        journal[id].status = "in_progress" => id \in DOMAIN tasks

\* The attempts of one plan do not make a revision that landed a second time,
\* whatever reply is lost and whatever call fails (alreadyApplied() and
\* precheck(); sync-execution "Retry with idempotency").  It is a property of one
\* plan, MaxPlans = 1: a transfer that runs on after recordRetry() threw is
\* waited for by nobody, and the next plan may make it again (executor.ts:261).
NoRepeatedRevision ==
    [][Toolstep =>
        \A u \in Changed(drive, drive') : u \in DOMAIN drive =>
            drive'[u].rev = drive[u].rev \/ drive'[u].sha # drive[u].sha]_vars

\* A row of a file whose two sides have not changed since names one content,
\* and both sides have it (localRow() and commit(); ARCHITECTURE.md
\* invariant 2).
RowTruthful(p) ==
    LET r == base[p] IN
    /\ p \in DOMAIN fs /\ ~ r.dir /\ fs[p].ino = r.ino /\ fs[p].ver = r.ver
    /\ r.uid \in DOMAIN drive /\ drive[r.uid].rev = r.rev
    => fs[p].data = drive[r.uid].sha

BaselineTruthful == \A p \in DOMAIN base : RowTruthful(p)

\* What execute() and recoverJournal() begin ends: retries are bounded, nothing
\* waits for itself (sync-execution "Retry limit reached").
Idle == mode = "up" /\ plan = <<>> /\ tasks = Empty

ComesToRest == []<>Idle
=============================================================================
