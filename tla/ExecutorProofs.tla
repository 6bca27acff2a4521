--------------------------- MODULE ExecutorProofs ---------------------------
(***************************************************************************)
(* Proofs about Executor, for all values of its constants: every state is  *)
(* well typed, and every running task is journaled.                        *)
(***************************************************************************)
EXTENDS Executor, TLAPS

-----------------------------------------------------------------------------
(* Paths and trees.                                                        *)

LEMMA PathFacts ==
    ASSUME NEW p \in Path
    PROVE  Len(p) \in Nat /\ NameOf(p) \in Names /\ Ancestors(p) \subseteq Path
  BY DEF Path, NameOf, Ancestors, Last

LEMMA MovedPathType ==
    ASSUME NEW q \in Path, NEW from \in Path, NEW to \in Path
    PROVE  MovedPath(q, from, to) \in Path
<1>1. CASE ~ Under(from, q)
  BY <1>1 DEF MovedPath
<1>2. CASE Under(from, q)
  <2> DEFINE tail == SubSeq(q, Len(from) + 1, Len(q))
  <2>1. tail \in Seq(Names)
    BY DEF Path
  <2>2. to \o tail \in Seq(Names) /\ to \o tail # <<>>
    BY <2>1 DEF Path
  <2> QED BY <1>2, <2>2 DEF MovedPath, Path
<1> QED BY <1>1, <1>2

LEMMA EmptyFacts == DOMAIN Empty = {}
  BY DEF Empty

-----------------------------------------------------------------------------
(* The operators on trees keep them well typed.                            *)

\* What holds of every value of f holds of every value of the moved tree.
LEMMA PutInto ==
    ASSUME NEW S, NEW f, \A q \in DOMAIN f : f[q] \in S, NEW p, NEW x \in S
    PROVE  \A q \in DOMAIN Put(f, p, x) : Put(f, p, x)[q] \in S
  BY DEF Put

LEMMA MoveTreeInto ==
    ASSUME NEW S, NEW f, \A q \in DOMAIN f : f[q] \in S, DOMAIN f \subseteq Path,
           NEW from \in Path, NEW to \in Path
    PROVE  /\ DOMAIN MoveTree(f, from, to) \subseteq Path
           /\ \A p \in DOMAIN MoveTree(f, from, to) :
                  MoveTree(f, from, to)[p] \in S
<1>1. \A q \in DOMAIN f : MovedPath(q, from, to) \in Path
  BY MovedPathType
<1>2. DOMAIN MoveTree(f, from, to) = {MovedPath(q, from, to) : q \in DOMAIN f}
  BY DEF MoveTree
<1>3. ASSUME NEW p \in DOMAIN MoveTree(f, from, to)
      PROVE  MoveTree(f, from, to)[p] \in S
  <2> DEFINE c == CHOOSE q \in DOMAIN f : MovedPath(q, from, to) = p
  <2>1. c \in DOMAIN f
    BY <1>2, <1>3
  <2>2. MoveTree(f, from, to)[p] = f[c]
    BY <1>2, <1>3 DEF MoveTree
  <2> QED BY <2>1, <2>2
<1> QED BY <1>1, <1>2, <1>3

LEMMA ItemsKept ==
    ASSUME NEW f, ItemsOK(f), NEW p \in Path
    PROVE  /\ \A x \in Item : ItemsOK(Put(f, p, x))
           /\ ItemsOK(RemoveTree(f, p))
           /\ \A q \in Path : ItemsOK(MoveTree(f, p, q))
           /\ clock \in Nat => ItemsOK(WithParents(f, p))
<1>1. ASSUME NEW x \in Item PROVE ItemsOK(Put(f, p, x))
  <2>1. DOMAIN Put(f, p, x) \subseteq Path
    BY DEF Put, ItemsOK
  <2>2. \A q \in DOMAIN Put(f, p, x) : Put(f, p, x)[q] \in Item
    BY PutInto DEF ItemsOK
  <2> QED BY <2>1, <2>2 DEF ItemsOK
<1>2. ItemsOK(RemoveTree(f, p))
  BY DEF RemoveTree, ItemsOK
<1>3. \A q \in Path : ItemsOK(MoveTree(f, p, q))
  BY MoveTreeInto DEF ItemsOK
<1>4. clock \in Nat => ItemsOK(WithParents(f, p))
  <2> SUFFICES ASSUME clock \in Nat PROVE ItemsOK(WithParents(f, p))
    OBVIOUS
  <2>1. DOMAIN WithParents(f, p) = DOMAIN f \cup Ancestors(p)
    BY DEF WithParents
  <2>2. DOMAIN WithParents(f, p) \subseteq Path
    BY <2>1, PathFacts DEF ItemsOK
  <2>3. ASSUME NEW q \in DOMAIN WithParents(f, p)
        PROVE  WithParents(f, p)[q] \in Item
    <3>1. q \in Path /\ Len(q) \in Nat
      BY <2>2, <2>3, PathFacts
    <3>2. [dir |-> TRUE, ino |-> clock + Len(q), ver |-> 0, data |-> None]
              \in Item
      BY <3>1 DEF Item, Digest
    <3> QED BY <2>1, <2>3, <3>2 DEF WithParents, ItemsOK
  <2> QED BY <2>2, <2>3 DEF ItemsOK
<1> QED BY <1>1, <1>2, <1>3, <1>4

LEMMA RowsKept ==
    ASSUME NEW b, RowsOK(b), NEW p \in Path
    PROVE  /\ \A row \in Row : RowsOK(Upsert(b, p, row))
           /\ RowsOK(RemoveTree(b, p))
           /\ \A q \in Path : RowsOK(MoveTree(b, p, q))
<1>1. ASSUME NEW row \in Row PROVE RowsOK(Upsert(b, p, row))
  <2> DEFINE others == [q \in {r \in DOMAIN b : b[r].uid # row.uid} |-> b[q]]
  <2>1. RowsOK(others)
    BY DEF RowsOK
  <2>2. DOMAIN Put(others, p, row) \subseteq Path
    BY <2>1 DEF Put, RowsOK
  <2>3. \A q \in DOMAIN Put(others, p, row) : Put(others, p, row)[q] \in Row
    BY <2>1, PutInto DEF RowsOK
  <2> QED BY <2>2, <2>3 DEF Upsert, RowsOK
<1>2. RowsOK(RemoveTree(b, p))
  BY DEF RemoveTree, RowsOK
<1>3. \A q \in Path : RowsOK(MoveTree(b, p, q))
  BY MoveTreeInto DEF RowsOK
<1> QED BY <1>1, <1>2, <1>3
-----------------------------------------------------------------------------
(* The inductive invariant.                                                *)

\* Where an operation of each kind awaits.
Fits(kind, pc) ==
    /\ kind \notin Bookkeeping
    /\ pc \in {"hash", "send", "check", "readback"} => kind = "upload"
    /\ pc \in {"fetch", "stream", "place", "swap", "record"} => kind = "download"
    /\ pc \in {"slide", "settle"} => kind = "move_local"
    /\ pc \in {"locate", "move", "rename", "confirm"} => kind = "move_remote"
    /\ pc = "bin" => kind = "recycle_local"
    /\ pc \in {"trash", "verify"} => kind = "trash_remote"
    /\ pc = "create" => kind = "create_remote_folder"
    /\ pc \in {"lookup", "mkdir"} => kind = "create_local_folder"
    /\ pc = "commit" => kind \in {"create_remote_folder", "create_local_folder",
                                "recycle_local"}

\* What a task has read by the time it needs it.
Held(op, pc, hold) ==
    /\ pc \in {"send", "check", "readback"} =>
           hold.uid # None /\ (op.uid # None => hold.uid = op.uid)
    /\ pc \in {"stream", "place", "swap", "record"} => hold.rev # None
    /\ pc = "commit" /\ op.kind = "create_remote_folder" => hold.uid # None

TasksFit ==
    \A id \in DOMAIN tasks :
        /\ Fits(tasks[id].op.kind, tasks[id].pc)
        /\ Held(tasks[id].op, tasks[id].pc, tasks[id].hold)

\* Recovery has the journal to itself.
RecoveryAlone == mode = "recovering" => DOMAIN tasks = {}

\* No node identifier beyond the clock is in use.
Fresh == \A u \in DOMAIN drive : u <= clock

ControlInv == ControlOK /\ TasksJournaled /\ TasksFit /\ RecoveryAlone
DataInv    == DataOK /\ Fresh
Inv        == DataInv /\ ControlInv /\ BoundsOK

-----------------------------------------------------------------------------
(* The ways a step ends keep the control part of the invariant.            *)

LEMMA ProceedKeeps ==
    ASSUME ControlInv, NEW id \in DOMAIN tasks, NEW pc \in Steps,
           NEW hold \in Hold, Proceed(id, pc, hold), mode' = mode,
           Fits(tasks[id].op.kind, pc), Held(tasks[id].op, pc, hold),
           pc \in Acting => tasks[id].pc \in Acting
    PROVE  ControlInv'
<1>1. /\ DOMAIN tasks' = DOMAIN tasks
      /\ \A i \in DOMAIN tasks : i # id => tasks'[i] = tasks[i]
      /\ tasks'[id] \in Task
      /\ tasks'[id].op = tasks[id].op
      /\ tasks'[id].pc = pc /\ tasks'[id].hold = hold
  BY DEF Proceed, Go, ControlInv, ControlOK, Task
<1>2. ControlOK'
  BY <1>1 DEF Proceed, ControlInv, ControlOK
<1>3. TasksJournaled'
  BY <1>1 DEF Proceed, ControlInv, TasksJournaled
<1>4. TasksFit'
  BY <1>1 DEF ControlInv, TasksFit
<1>5. RecoveryAlone'
  BY <1>1 DEF ControlInv, RecoveryAlone
<1> QED BY <1>2, <1>3, <1>4, <1>5 DEF ControlInv

LEMMA FinishKeeps ==
    ASSUME ControlInv, NEW id \in DOMAIN tasks, Finish(id), mode' = mode,
           quarantine' \in {quarantine, quarantine \cup {Suspect(tasks[id].op)}},
           ctl' \in {ctl, "halted"}
    PROVE  ControlInv'
<1>1. /\ DOMAIN tasks' = DOMAIN tasks \ {id}
      /\ \A i \in DOMAIN tasks' : tasks'[i] = tasks[i]
      /\ DOMAIN journal' = DOMAIN journal \ {id}
      /\ \A i \in DOMAIN journal' : journal'[i] = journal[i]
  BY DEF Finish, Forget
<1>2. Suspect(tasks[id].op) \in [path: Path, uid: Nat \cup {None}]
  BY DEF ControlInv, ControlOK, Task, Operation, Suspect
<1>3. ControlOK'
  BY <1>1, <1>2 DEF Finish, ControlInv, ControlOK
<1>4. TasksJournaled'
  BY <1>1 DEF ControlInv, TasksJournaled
<1>5. TasksFit'
  BY <1>1 DEF ControlInv, TasksFit
<1>6. RecoveryAlone'
  BY <1>1 DEF ControlInv, RecoveryAlone
<1> QED BY <1>3, <1>4, <1>5, <1>6 DEF ControlInv

LEMMA ThrowKeeps ==
    ASSUME ControlInv, NEW id \in DOMAIN tasks, Throw(id), mode' = mode
    PROVE  ControlInv'
<1>1. /\ DOMAIN tasks' = DOMAIN tasks \ {id}
      /\ \A i \in DOMAIN tasks' : tasks'[i] = tasks[i]
  BY DEF Throw, Forget
<1>2. ControlOK'
  BY <1>1 DEF Throw, ControlInv, ControlOK
<1>3. TasksJournaled'
  BY <1>1 DEF Throw, ControlInv, TasksJournaled
<1>4. TasksFit'
  BY <1>1 DEF ControlInv, TasksFit
<1>5. RecoveryAlone'
  BY <1>1 DEF ControlInv, RecoveryAlone
<1> QED BY <1>2, <1>3, <1>4, <1>5 DEF ControlInv

LEMMA RaiseKeeps ==
    ASSUME ControlInv, NEW id \in DOMAIN tasks, NEW e, Raise(id, e),
           mode' = mode
    PROVE  ControlInv'
<1>1. CASE CanRetry(id, e) /\ Proceed(id, "retry", tasks[id].hold)
  <2>1. "retry" \in Steps /\ "retry" \notin Acting
    BY DEF Steps, Acting
  <2>2. tasks[id].hold \in Hold
    BY DEF ControlInv, ControlOK, Task
  <2>3. /\ Fits(tasks[id].op.kind, "retry")
        /\ Held(tasks[id].op, "retry", tasks[id].hold)
    BY DEF ControlInv, TasksFit, Fits, Held
  <2> QED BY <1>1, <2>1, <2>2, <2>3, ProceedKeeps
<1>2. CASE Finish(id) /\ ~ CanRetry(id, e)
  <2>1. /\ quarantine' \in {quarantine, quarantine \cup {Suspect(tasks[id].op)}}
        /\ ctl' \in {ctl, "halted"}
    BY <1>2 DEF Raise
  <2> QED BY <1>2, <2>1, FinishKeeps
<1> QED BY <1>1, <1>2 DEF Raise

LEMMA ReplyKeeps ==
    ASSUME ControlInv, NEW id \in DOMAIN tasks, NEW pc \in Steps,
           NEW hold \in Hold, Reply(id, pc, hold), mode' = mode,
           Fits(tasks[id].op.kind, pc), Held(tasks[id].op, pc, hold),
           pc \in Acting => tasks[id].pc \in Acting
    PROVE  ControlInv'
  BY ProceedKeeps, RaiseKeeps DEF Reply

-----------------------------------------------------------------------------
(* The steps of act(): the control part.                                   *)

LEMMA TaskFacts ==
    ASSUME ControlInv, NEW id \in DOMAIN tasks
    PROVE  /\ tasks[id].op \in Operation /\ tasks[id].op.path \in Path
           /\ tasks[id].op.kind \in Kinds \ Bookkeeping
           /\ tasks[id].op.uid \in Nat \cup {None}
           /\ tasks[id].hold \in Hold /\ tasks[id].pc \in Steps
           /\ Fits(tasks[id].op.kind, tasks[id].pc)
           /\ Held(tasks[id].op, tasks[id].pc, tasks[id].hold)
  BY DEF ControlInv, ControlOK, TasksFit, Task, Operation, Fits

LEMMA ParentType ==
    ASSUME DataInv, NEW p, NEW folders, \A q \in DOMAIN folders : folders[q] \in Nat
    PROVE  ParentUid(p, folders) \in Nat \cup {None}
  BY DEF DataInv, DataOK, ParentUid, RowsOK, Row, Root

LEMMA TargetType ==
    ASSUME DataInv, NEW op \in Operation
    PROVE  RemoteParent(op.path) \in Nat \cup {None} /\ UploadTarget(op) \in Nat \cup {None}
<1>1. RemoteParent(op.path) \in Nat \cup {None}
  BY ParentType DEF RemoteParent, DataInv, DataOK
<1> QED BY <1>1 DEF UploadTarget, Operation

\* What the absence of errors says, kind by kind.
LEMMA UploadClear ==
    ASSUME NEW t, t.op.kind = "upload", Errors(t) = {}, t.pc \in Acting
    PROVE  /\ t.pc = "hash" => IsFile(t.op.path) /\ UploadTarget(t.op) # None
           /\ t.pc = "send" =>
                  /\ IsFile(t.op.path)
                  /\ t.op.uid # None => /\ t.hold.uid \in DOMAIN drive
                                        /\ ~ drive[t.hold.uid].dir
                  /\ t.op.uid = None => FolderExists(t.hold.uid)
           /\ t.pc = "readback" => /\ t.hold.uid \in DOMAIN drive
                                  /\ LocalMatches(t.op.path, t.op.lfp)
<1>1. UploadErrors(t) = {}
  BY DEF Errors, MoveKinds
<1>2. CASE t.pc = "hash"
  BY <1>1, <1>2 DEF UploadErrors, When
<1>3. CASE t.pc = "send"
  BY <1>1, <1>3 DEF UploadErrors, When
<1>4. CASE t.pc = "readback"
  BY <1>1, <1>4 DEF UploadErrors, When
<1> QED BY <1>2, <1>3, <1>4

LEMMA DownloadClear ==
    ASSUME NEW t, t.op.kind = "download", Errors(t) = {}, t.pc \in Acting
    PROVE  /\ t.pc \in {"fetch", "stream"} => t.op.uid \in DOMAIN drive
           /\ t.pc = "place" => LocalMatches(t.op.path, t.op.lfp)
           /\ t.pc = "record" => t.op.path \in DOMAIN fs
<1>1. DownloadErrors(t) = {}
  BY DEF Errors, MoveKinds
<1>2. CASE t.pc = "fetch"
  BY <1>1, <1>2 DEF DownloadErrors, When
<1>3. CASE t.pc = "stream"
  BY <1>1, <1>3 DEF DownloadErrors, When
<1>4. CASE t.pc = "place"
  BY <1>1, <1>4 DEF DownloadErrors, When
<1>5. CASE t.pc = "record"
  BY <1>1, <1>5 DEF DownloadErrors, When
<1> QED BY <1>2, <1>3, <1>4, <1>5

LEMMA MoveClear ==
    ASSUME NEW t, t.op.kind \in MoveKinds, Errors(t) = {}, t.pc \in Acting
    PROVE  /\ t.pc \in {"settle", "locate", "move", "rename", "confirm"} =>
                  t.op.uid \in DOMAIN drive
           /\ t.pc \in {"settle", "confirm"} => t.op.path \in DOMAIN fs
           /\ t.pc = "slide" => t.op.from \in DOMAIN fs
           /\ t.pc = "move" => FolderExists(t.hold.uid)
<1>1. MoveErrors(t) = {}
  BY DEF Errors, MoveKinds
<1>2. CASE t.pc = "slide"
  BY <1>1, <1>2 DEF MoveErrors, When
<1>3. CASE t.pc = "settle"
  BY <1>1, <1>3 DEF MoveErrors, When
<1>4. CASE t.pc = "locate"
  BY <1>1, <1>4 DEF MoveErrors, When
<1>5. CASE t.pc = "move"
  BY <1>1, <1>5 DEF MoveErrors, When
<1>6. CASE t.pc = "rename"
  BY <1>1, <1>6 DEF MoveErrors, When
<1>7. CASE t.pc = "confirm"
  BY <1>1, <1>7 DEF MoveErrors, When
<1> QED BY <1>2, <1>3, <1>4, <1>5, <1>6, <1>7

LEMMA OtherClear ==
    ASSUME NEW t, t.op.kind \notin MoveKinds \cup TransferKinds, Errors(t) = {},
           t.pc \in Acting
    PROVE  /\ t.pc \in {"trash", "lookup"} => t.op.uid \in DOMAIN drive
           /\ t.pc = "create" => RemoteParent(t.op.path) # None
           /\ t.pc = "commit" /\ t.op.kind # "recycle_local" =>
                  t.op.path \in DOMAIN fs
<1>1. OtherErrors(t) = {}
  BY DEF Errors, MoveKinds, TransferKinds
<1>2. CASE t.pc \in {"trash", "lookup"}
  BY <1>1, <1>2 DEF OtherErrors, When
<1>3. CASE t.pc = "create"
  BY <1>1, <1>3 DEF OtherErrors, When
<1>4. CASE t.pc = "commit"
  BY <1>1, <1>4 DEF OtherErrors, When
<1> QED BY <1>2, <1>3, <1>4

\* A task whose step succeeds has its entry in progress.
LEMMA ReadControl ==
    ASSUME DataInv, ControlInv, NEW id \in DOMAIN tasks, Read(id)
    PROVE  ControlInv'
<1> DEFINE op == tasks[id].op
           hold == tasks[id].hold
<1> USE TaskFacts
<1>0. mode' = mode
  BY DEF Read, Quiet, StepFrame
<1>1. CASE Able(id, "hash") /\ Proceed(id, "send",
               [ver |-> fs[op.path].ver, sha |-> fs[op.path].data,
                uid |-> UploadTarget(op), rev |-> None])
  <2> DEFINE h == [ver |-> fs[op.path].ver, sha |-> fs[op.path].data,
                   uid |-> UploadTarget(op), rev |-> None]
  <2>1. op.kind = "upload" /\ "hash" \in Acting
    BY <1>1 DEF Able, Fits, Acting
  <2>2. IsFile(op.path) /\ UploadTarget(op) # None
    BY <1>1, <2>1, UploadClear DEF Able
  <2>3. fs[op.path] \in Item
    BY <2>2 DEF IsFile, DataInv, DataOK, ItemsOK
  <2>4. h \in Hold
    BY <2>3, TargetType DEF Hold, Item
  <2>5. Held(op, "send", h)
    BY <2>2 DEF Held, UploadTarget
  <2>6. Fits(op.kind, "send")
    BY <2>1 DEF Fits, Bookkeeping
  <2>7. "send" \in Steps
    BY DEF Steps, Acting
  <2> HIDE DEF h
  <2>8. Proceed(id, "send", h)
    BY <1>1 DEF h
  <2> QED BY <1>0, <1>1, <2>1, <2>4, <2>5, <2>6, <2>7, <2>8, ProceedKeeps DEF Able
<1>2. CASE Able(id, "check") /\ Proceed(id, "readback", hold)
  <2>1. "check" \in Acting /\ "readback" \in Steps /\ tasks[id].pc = "check"
    BY <1>2 DEF Able, Steps, Acting
  <2>2. Fits(op.kind, "readback") /\ Held(op, "readback", hold)
    BY <2>1 DEF Fits, Held, Bookkeeping
  <2> QED BY <1>0, <1>2, <2>1, <2>2, ProceedKeeps
<1>3. CASE Able(id, "fetch") /\ Proceed(id, "stream",
               [ver |-> None, sha |-> drive[op.uid].sha,
                uid |-> op.uid, rev |-> drive[op.uid].rev])
  <2> DEFINE h == [ver |-> None, sha |-> drive[op.uid].sha,
                   uid |-> op.uid, rev |-> drive[op.uid].rev]
  <2>1. op.kind = "download" /\ "fetch" \in Acting /\ "stream" \in Steps
    BY <1>3 DEF Able, Fits, Acting, Steps
  <2>2. op.uid \in DOMAIN drive
    BY <1>3, <2>1, DownloadClear DEF Able
  <2>3. drive[op.uid] \in Node
    BY <2>2 DEF DataInv, DataOK, NodesOK
  <2>4. h \in Hold
    BY <2>3 DEF Hold, Node
  <2>5. Fits(op.kind, "stream")
    BY <2>1 DEF Fits, Bookkeeping
  <2>6. Held(op, "stream", h)
    BY <2>1, <2>3, NoneAssumption DEF Held, Node
  <2> HIDE DEF h
  <2>7. Proceed(id, "stream", h)
    BY <1>3 DEF h
  <2> QED BY <1>0, <1>3, <2>1, <2>4, <2>5, <2>6, <2>7, ProceedKeeps DEF Able
<1>4. CASE Able(id, "stream") /\ Proceed(id, "place", hold)
  <2>1. "stream" \in Acting /\ "place" \in Steps /\ tasks[id].pc = "stream"
    BY <1>4 DEF Able, Steps, Acting
  <2>2. Fits(op.kind, "place") /\ Held(op, "place", hold)
    BY <2>1 DEF Fits, Held, Bookkeeping
  <2> QED BY <1>0, <1>4, <2>1, <2>2, ProceedKeeps
<1>5. CASE Able(id, "locate") /\
           \E pc \in {"move", "rename", "confirm"} :
               Proceed(id, pc, [NoHold EXCEPT !.uid = RemoteParent(op.path)])
  <2> DEFINE h == [NoHold EXCEPT !.uid = RemoteParent(op.path)]
  <2>1. PICK pc \in {"move", "rename", "confirm"} : Proceed(id, pc, h)
    BY <1>5
  <2>2. op.kind = "move_remote" /\ "locate" \in Acting /\ pc \in Steps
    BY <1>5 DEF Able, Fits, Acting, Steps
  <2>3. h \in Hold
    BY TargetType DEF Hold, NoHold, Digest
  <2>4. Fits(op.kind, pc)
    BY <2>2 DEF Fits, Bookkeeping
  <2>5. Held(op, pc, h)
    BY <2>2 DEF Held
  <2> HIDE DEF h
  <2> QED BY <1>0, <1>5, <2>1, <2>2, <2>3, <2>4, <2>5, ProceedKeeps DEF Able
<1>6. CASE Able(id, "lookup") /\ Proceed(id, "mkdir", NoHold)
  <2>1. "lookup" \in Acting /\ "mkdir" \in Steps /\ tasks[id].pc = "lookup"
    BY <1>6 DEF Able, Steps, Acting
  <2>2. Fits(op.kind, "mkdir") /\ Held(op, "mkdir", NoHold) /\ NoHold \in Hold
    BY <2>1 DEF Fits, Held, Bookkeeping, NoHold, Hold, Digest
  <2> QED BY <1>0, <1>6, <2>1, <2>2, ProceedKeeps
<1> QED BY <1>1, <1>2, <1>3, <1>4, <1>5, <1>6 DEF Read

LEMMA UploadControl ==
    ASSUME DataInv, ControlInv, NEW id \in DOMAIN tasks,
           UploadNewFile(id) \/ UploadNewRevision(id)
    PROVE  ControlInv'
<1> DEFINE op == tasks[id].op
           hold == tasks[id].hold
<1>1. /\ mode' = mode /\ Able(id, "send")
      /\ clock + 1 \in Nat
  BY DEF UploadNewFile, UploadNewRevision, StepFrame, DataInv, DataOK
<1>2. op.kind = "upload" /\ "send" \in Acting /\ "check" \in Steps
  BY <1>1, TaskFacts DEF Able, Fits, Acting, Steps
<1>3. Held(op, "send", hold) /\ hold \in Hold
  BY <1>1, TaskFacts DEF Able
<1>4. Fits(op.kind, "check")
  BY <1>2 DEF Fits, Bookkeeping
<1>5. CASE UploadNewFile(id)
  <2> DEFINE h == [hold EXCEPT !.uid = clock + 1, !.rev = clock + 1]
  <2>1. h \in Hold /\ h.uid = clock + 1
    BY <1>1, <1>3 DEF Hold
  <2>2. Held(op, "check", h)
    BY <1>1, <1>5, <2>1, NoneAssumption DEF Held, UploadNewFile
  <2>3. Reply(id, "check", h)
    BY <1>5 DEF UploadNewFile
  <2> HIDE DEF h
  <2> QED BY <1>1, <1>2, <1>4, <2>1, <2>2, <2>3, ReplyKeeps DEF Able
<1>6. CASE UploadNewRevision(id)
  <2> DEFINE h == [hold EXCEPT !.rev = clock + 1]
  <2>1. h \in Hold /\ h.uid = hold.uid
    BY <1>1, <1>3 DEF Hold
  <2>2. Held(op, "check", h)
    BY <1>3, <2>1 DEF Held
  <2>3. Reply(id, "check", h)
    BY <1>6 DEF UploadNewRevision
  <2> HIDE DEF h
  <2> QED BY <1>1, <1>2, <1>4, <2>1, <2>2, <2>3, ReplyKeeps DEF Able
<1> QED BY <1>5, <1>6

LEMMA DownloadControl ==
    ASSUME ControlInv, NEW id \in DOMAIN tasks,
           DownloadPlace(id) \/ DownloadSwap(id)
    PROVE  ControlInv'
<1> DEFINE op == tasks[id].op
           hold == tasks[id].hold
<1>0. mode' = mode /\ hold \in Hold
  BY TaskFacts DEF DownloadPlace, DownloadSwap, StepFrame
<1>1. CASE DownloadPlace(id)
  <2>1. tasks[id].pc = "place" /\ Proceed(id, "swap", hold)
    BY <1>1 DEF DownloadPlace, Able
  <2>2. "place" \in Acting /\ "swap" \in Steps
    BY DEF Acting, Steps
  <2>3. Fits(op.kind, "swap") /\ Held(op, "swap", hold)
    BY <2>1, TaskFacts DEF Fits, Held, Bookkeeping
  <2> QED BY <1>0, <2>1, <2>2, <2>3, ProceedKeeps
<1>2. CASE DownloadSwap(id)
  <2>1. tasks[id].pc = "swap" /\ Proceed(id, "record", hold)
    BY <1>2 DEF DownloadSwap, Able
  <2>2. "swap" \in Acting /\ "record" \in Steps
    BY DEF Acting, Steps
  <2>3. Fits(op.kind, "record") /\ Held(op, "record", hold)
    BY <2>1, TaskFacts DEF Fits, Held, Bookkeeping
  <2> QED BY <1>0, <2>1, <2>2, <2>3, ProceedKeeps
<1> QED BY <1>1, <1>2

LEMMA NoHoldFacts == NoHold \in Hold
  BY DEF NoHold, Hold, Digest

LEMMA MoveControl ==
    ASSUME ControlInv, NEW id \in DOMAIN tasks,
           MoveLocalAct(id) \/ MoveRemoteAct(id)
    PROVE  ControlInv'
<1> DEFINE op == tasks[id].op
           hold == tasks[id].hold
<1>0. mode' = mode /\ hold \in Hold
  BY TaskFacts DEF MoveLocalAct, MoveRemoteAct, StepFrame
<1>1. CASE MoveLocalAct(id)
  <2>1. tasks[id].pc = "slide" /\ Proceed(id, "settle", NoHold)
    BY <1>1 DEF MoveLocalAct, Able
  <2>2. "slide" \in Acting /\ "settle" \in Steps
    BY DEF Acting, Steps
  <2>3. Fits(op.kind, "settle") /\ Held(op, "settle", NoHold)
    BY <2>1, TaskFacts DEF Fits, Held, Bookkeeping
  <2> QED BY <1>0, <2>1, <2>2, <2>3, NoHoldFacts, ProceedKeeps
<1>2. CASE MoveRemoteAct(id)
  <2>1. /\ tasks[id].pc \in {"move", "rename"}
        /\ \E pc \in {"rename", "confirm"} : Reply(id, pc, hold)
    BY <1>2 DEF MoveRemoteAct, Able
  <2>2. PICK pc \in {"rename", "confirm"} : Reply(id, pc, hold)
    BY <2>1
  <2>3. tasks[id].pc \in Acting /\ pc \in Steps
    BY <2>1, <2>2 DEF Acting, Steps
  <2>4. Fits(op.kind, pc) /\ Held(op, pc, hold)
    BY <2>1, <2>2, TaskFacts DEF Fits, Held, Bookkeeping
  <2> QED BY <1>0, <2>2, <2>3, <2>4, ReplyKeeps
<1> QED BY <1>1, <1>2

LEMMA DeleteControl ==
    ASSUME ControlInv, NEW id \in DOMAIN tasks,
           RecycleLocalAct(id) \/ TrashRemoteAct(id)
    PROVE  ControlInv'
<1> DEFINE op == tasks[id].op
<1>0. mode' = mode
  BY DEF RecycleLocalAct, TrashRemoteAct, StepFrame
<1>1. CASE RecycleLocalAct(id)
  <2>1. tasks[id].pc = "bin" /\ Proceed(id, "commit", NoHold)
    BY <1>1 DEF RecycleLocalAct, Able
  <2>2. "bin" \in Acting /\ "commit" \in Steps
    BY DEF Acting, Steps
  <2>3. Fits(op.kind, "commit") /\ Held(op, "commit", NoHold)
    BY <2>1, TaskFacts DEF Fits, Held, Bookkeeping
  <2> QED BY <1>0, <2>1, <2>2, <2>3, NoHoldFacts, ProceedKeeps
<1>2. CASE TrashRemoteAct(id)
  <2>1. tasks[id].pc = "trash" /\ Reply(id, "verify", NoHold)
    BY <1>2 DEF TrashRemoteAct, Able
  <2>2. "trash" \in Acting /\ "verify" \in Steps
    BY DEF Acting, Steps
  <2>3. Fits(op.kind, "verify") /\ Held(op, "verify", NoHold)
    BY <2>1, TaskFacts DEF Fits, Held, Bookkeeping
  <2> QED BY <1>0, <2>1, <2>2, <2>3, NoHoldFacts, ReplyKeeps
<1> QED BY <1>1, <1>2

LEMMA CreateControl ==
    ASSUME DataInv, ControlInv, NEW id \in DOMAIN tasks,
           CreateRemoteFolderAct(id) \/ CreateLocalFolderAct(id)
    PROVE  ControlInv'
<1> DEFINE op == tasks[id].op
<1>0. mode' = mode
  BY DEF CreateRemoteFolderAct, CreateLocalFolderAct, StepFrame
<1>1. CASE CreateRemoteFolderAct(id)
  <2> DEFINE h == [NoHold EXCEPT !.uid = clock + 1]
  <2>1. tasks[id].pc = "create" /\ (Proceed(id, "commit", h) \/ Raise(id, "lost"))
    BY <1>1 DEF CreateRemoteFolderAct, Able
  <2>2. "create" \in Acting /\ "commit" \in Steps
    BY DEF Acting, Steps
  <2>3. h \in Hold /\ h.uid \in Nat
    BY DEF Hold, NoHold, Digest, DataInv, DataOK
  <2>4. Fits(op.kind, "commit") /\ Held(op, "commit", h)
    BY <2>1, <2>3, TaskFacts, NoneAssumption DEF Fits, Held, Bookkeeping
  <2> HIDE DEF h
  <2>5. CASE Proceed(id, "commit", h)
    BY <1>0, <2>1, <2>2, <2>3, <2>4, <2>5, ProceedKeeps
  <2>6. CASE Raise(id, "lost")
    BY <1>0, <2>6, RaiseKeeps
  <2> QED BY <2>1, <2>5, <2>6
<1>2. CASE CreateLocalFolderAct(id)
  <2>1. tasks[id].pc = "mkdir" /\ Proceed(id, "commit", NoHold)
    BY <1>2 DEF CreateLocalFolderAct, Able
  <2>2. "mkdir" \in Acting /\ "commit" \in Steps
    BY DEF Acting, Steps
  <2>3. Fits(op.kind, "commit") /\ Held(op, "commit", NoHold)
    BY <2>1, TaskFacts DEF Fits, Held, Bookkeeping
  <2> QED BY <1>0, <2>1, <2>2, <2>3, NoHoldFacts, ProceedKeeps
<1> QED BY <1>1, <1>2

LEMMA ResolveKeeps ==
    ASSUME ControlInv, NEW id \in DOMAIN tasks, Resolve(id), mode' = mode
    PROVE  ControlInv'
  BY FinishKeeps DEF Resolve

LEMMA ActControl ==
    ASSUME DataInv, ControlInv, NEW id \in DOMAIN tasks, Act(id)
    PROVE  ControlInv'
<1>1. CASE CommitStep(id)
  BY <1>1, ResolveKeeps DEF CommitStep, StepFrame
<1> QED BY <1>1, ReadControl, UploadControl, DownloadControl, MoveControl,
           DeleteControl, CreateControl DEF Act

-----------------------------------------------------------------------------
(* The other steps: the control part.                                      *)

LEMMA PrecheckControl ==
    ASSUME ControlInv, NEW id \in DOMAIN tasks, PrecheckPasses(id)
    PROVE  ControlInv'
<1> DEFINE op == tasks[id].op
           pc == FirstStep[op.kind]
<1>0. mode' = mode
  BY DEF PrecheckPasses, Quiet, StepFrame
<1>1. /\ id \in DOMAIN journal /\ journal[id].op = op
      /\ journal[id] \in Entry
  BY DEF ControlInv, ControlOK, TasksJournaled
<1>2. /\ pc \in {"hash", "fetch", "slide", "locate", "bin", "trash", "create", "lookup"}
      /\ Fits(op.kind, pc)
  BY TaskFacts DEF Fits, FirstStep, Kinds, Bookkeeping, TransferKinds, MoveKinds
<1>3. pc \in Steps /\ Held(op, pc, NoHold)
  BY <1>2 DEF Steps, Acting, Held
<1> HIDE DEF pc
<1>4. /\ DOMAIN tasks' = DOMAIN tasks
      /\ \A i \in DOMAIN tasks : i # id => tasks'[i] = tasks[i]
      /\ tasks'[id] \in Task
      /\ tasks'[id].op = op /\ tasks'[id].pc = pc /\ tasks'[id].hold = NoHold
  BY <1>3, NoHoldFacts DEF PrecheckPasses, Go, ControlInv, ControlOK, Task, pc
<1>5. /\ DOMAIN journal' = DOMAIN journal
      /\ \A i \in DOMAIN journal : i # id => journal'[i] = journal[i]
      /\ journal'[id] \in Entry
      /\ journal'[id].op = op /\ journal'[id].status = "in_progress"
  BY <1>1 DEF PrecheckPasses, Entry
<1>6. ControlOK'
  BY <1>0, <1>4, <1>5 DEF PrecheckPasses, ControlInv, ControlOK
<1>7. TasksJournaled'
  BY <1>4, <1>5 DEF ControlInv, TasksJournaled
<1>8. TasksFit'
  BY <1>2, <1>3, <1>4 DEF ControlInv, TasksFit
<1>9. RecoveryAlone'
  BY <1>0, <1>4 DEF ControlInv, RecoveryAlone
<1> QED BY <1>6, <1>7, <1>8, <1>9 DEF ControlInv

LEMMA RetryControl ==
    ASSUME ControlInv, NEW id \in DOMAIN tasks, Retry(id)
    PROVE  ControlInv'
<1>1. CASE RetryFindsLanded(id)
  BY <1>1, ResolveKeeps DEF RetryFindsLanded, StepFrame
<1>2. CASE RetryThrows(id)
  BY <1>2, ThrowKeeps DEF RetryThrows, Quiet, StepFrame
<1>3. CASE RetryAgain(id)
  <2>1. /\ "precheck" \in Steps /\ "precheck" \notin Acting
        /\ mode' = mode /\ UNCHANGED <<journal, quarantine, plan, awaited, ctl>>
    BY <1>3 DEF Steps, Acting, RetryAgain, Quiet, StepFrame
  <2>2. /\ DOMAIN tasks' = DOMAIN tasks
        /\ \A i \in DOMAIN tasks : i # id => tasks'[i] = tasks[i]
        /\ tasks'[id] \in Task
        /\ tasks'[id].op = tasks[id].op /\ tasks'[id].pc = "precheck"
        /\ tasks'[id].hold = tasks[id].hold
    BY <1>3, <2>1 DEF RetryAgain, ControlInv, ControlOK, Task
  <2>3. /\ Fits(tasks[id].op.kind, "precheck")
        /\ Held(tasks[id].op, "precheck", tasks[id].hold)
    BY TaskFacts DEF Fits, Held
  <2>4. ControlOK'
    BY <2>1, <2>2 DEF ControlInv, ControlOK
  <2>5. TasksJournaled'
    BY <2>1, <2>2 DEF ControlInv, TasksJournaled
  <2>6. TasksFit'
    BY <2>2, <2>3 DEF ControlInv, TasksFit
  <2>7. RecoveryAlone'
    BY <2>1, <2>2 DEF ControlInv, RecoveryAlone
  <2> QED BY <2>4, <2>5, <2>6, <2>7 DEF ControlInv
<1> QED BY <1>1, <1>2, <1>3 DEF Retry

LEMMA TaskStepControl ==
    ASSUME DataInv, ControlInv, NEW id \in DOMAIN tasks, TaskStep(id)
    PROVE  ControlInv'
<1>1. CASE StepFails(id) \/ RemoteFails(id) \/ TransferFails(id)
  <2>1. (\E e : Raise(id, e)) /\ mode' = mode
    BY <1>1 DEF StepFails, RemoteFails, TransferFails, Quiet, StepFrame
  <2> QED BY <2>1, RaiseKeeps
<1>2. CASE PrecheckSkips(id)
  BY <1>2, ResolveKeeps DEF PrecheckSkips, Quiet, StepFrame
<1> QED BY <1>1, <1>2, PrecheckControl, ActControl, RetryControl DEF TaskStep

LEMMA BatchControl ==
    ASSUME DataInv, ControlInv, StartBatch
    PROVE  ControlInv'
<1>1. PICK n \in 1..Len(plan) :
          /\ IsBatch(n)
          /\ journal' = [i \in DOMAIN journal \cup ((clock + 1)..(clock + n)) |->
                  IF i \in (clock + 1)..(clock + n)
                  THEN [status |-> "planned", op |-> plan[i - clock]]
                  ELSE journal[i]]
          /\ tasks' = [i \in DOMAIN tasks \cup ((clock + 1)..(clock + n)) |->
                  IF i \in (clock + 1)..(clock + n)
                  THEN [op |-> plan[i - clock], att |-> 1, pc |-> "precheck",
                        hold |-> NoHold]
                  ELSE tasks[i]]
          /\ awaited' = (clock + 1)..(clock + n)
          /\ plan' = SubSeq(plan, n + 1, Len(plan))
          /\ Head(plan).kind \notin Bookkeeping
          /\ mode = "up" /\ UNCHANGED <<quarantine, ctl, mode>>
  BY DEF StartBatch, Ready
<1> DEFINE ids == (clock + 1)..(clock + n)
<1>2. plan \in Seq(Operation) /\ clock \in Nat
  BY DEF ControlInv, ControlOK, DataInv, DataOK
<1>3. \A i \in ids : i \in Nat /\ plan[i - clock] \in Operation
  <2> TAKE i \in ids
  <2>1. i \in Nat /\ i - clock \in 1..Len(plan)
    BY <1>2
  <2> QED BY <1>2, <2>1
<1>4. \A i \in ids : plan[i - clock].kind \notin Bookkeeping
  <2> TAKE i \in ids
  <2>1. i - clock \in 1..n
    BY <1>2
  <2>2. CASE Head(plan).kind \notin TransferKinds
    <3>1. n = 1
      BY <1>1, <2>2 DEF IsBatch
    <3>2. plan[i - clock] = Head(plan)
      BY <1>2, <2>1, <3>1
    <3> QED BY <1>1, <3>2
  <2>3. CASE Head(plan).kind \in TransferKinds
    <3>1. plan[i - clock].kind \in TransferKinds
      BY <1>1, <2>1, <2>3 DEF IsBatch
    <3> QED BY <3>1 DEF TransferKinds, Bookkeeping
  <2> QED BY <2>2, <2>3
<1>5. \A i \in ids : /\ i \in DOMAIN tasks' /\ i \in DOMAIN journal'
                      /\ tasks'[i] \in Task /\ journal'[i] \in Entry
                      /\ tasks'[i].op = plan[i - clock]
                      /\ journal'[i].op = plan[i - clock]
                      /\ tasks'[i].pc = "precheck"
                      /\ tasks'[i].hold = NoHold
  BY <1>1, <1>3, NoHoldFacts DEF Task, Entry, Steps
<1>6. /\ DOMAIN tasks' = DOMAIN tasks \cup ids
      /\ DOMAIN journal' = DOMAIN journal \cup ids
      /\ \A i \in DOMAIN tasks \ ids : tasks'[i] = tasks[i]
      /\ \A i \in DOMAIN journal \ ids : journal'[i] = journal[i]
  BY <1>1
<1>7. plan' \in Seq(Operation)
  BY <1>1, <1>2
<1> HIDE DEF ids
<1>8. ControlOK'
  <2>1. \A i \in DOMAIN journal' : i \in Nat /\ journal'[i] \in Entry
    BY <1>3, <1>5, <1>6 DEF ControlInv, ControlOK
  <2>2. \A i \in DOMAIN tasks' : i \in Nat /\ tasks'[i] \in Task
    BY <1>3, <1>5, <1>6 DEF ControlInv, ControlOK
  <2>3. awaited' \subseteq DOMAIN tasks'
    BY <1>1, <1>6 DEF ids
  <2> QED BY <1>1, <1>7, <2>1, <2>2, <2>3 DEF ControlInv, ControlOK
<1>9. TasksJournaled'
  <2>1. "precheck" \notin Acting
    BY DEF Acting
  <2> QED BY <1>5, <1>6, <2>1 DEF ControlInv, TasksJournaled
<1>10. TasksFit'
  <2>1. \A i \in ids : /\ Fits(tasks'[i].op.kind, tasks'[i].pc)
                        /\ Held(tasks'[i].op, tasks'[i].pc, tasks'[i].hold)
    BY <1>4, <1>5 DEF Fits, Held
  <2> QED BY <1>6, <2>1 DEF ControlInv, TasksFit
<1>11. RecoveryAlone'
  BY <1>1 DEF RecoveryAlone
<1> QED BY <1>8, <1>9, <1>10, <1>11 DEF ControlInv

LEMMA RecoverControl ==
    ASSUME ControlInv, NEW id \in DOMAIN journal, Recover(id)
    PROVE  ControlInv'
<1>1. /\ mode = "recovering" /\ journal' = Forget(journal, id)
      /\ UNCHANGED <<plan, tasks, awaited, ctl, mode>>
      /\ quarantine' \in {quarantine, quarantine \cup {Suspect(journal[id].op)}}
  BY DEF Recover, RecoverUnstarted, RecoverCompleted, RecoverFailed,
         RecoverAbandoned, NextEntry, RecoverFrame, running
<1>2. DOMAIN tasks = {} /\ DOMAIN tasks' = {}
  BY <1>1 DEF ControlInv, RecoveryAlone
<1>3. /\ DOMAIN journal' = DOMAIN journal \ {id}
      /\ \A i \in DOMAIN journal' : journal'[i] = journal[i]
  BY <1>1 DEF Forget
<1>4. Suspect(journal[id].op) \in [path: Path, uid: Nat \cup {None}]
  BY DEF ControlInv, ControlOK, Entry, Operation, Suspect
<1>5. ControlOK'
  BY <1>1, <1>3, <1>4 DEF ControlInv, ControlOK
<1> QED BY <1>2, <1>5 DEF ControlInv, TasksJournaled, TasksFit, RecoveryAlone

LEMMA CrashControl ==
    ASSUME ControlInv, Crash
    PROVE  ControlInv'
<1>1. /\ DOMAIN tasks' = {} /\ awaited' = {} /\ plan' = <<>>
      /\ ctl' = "run" /\ mode' = "recovering"
      /\ UNCHANGED <<journal, quarantine>>
  BY DEF Crash, Empty, store
<1>2. ControlOK'
  BY <1>1 DEF ControlInv, ControlOK
<1> QED BY <1>1, <1>2 DEF ControlInv, TasksJournaled, TasksFit, RecoveryAlone

\* Whatever leaves the journal, the quarantine and the tasks alone.
LEMMA IdleControl ==
    ASSUME ControlInv, UNCHANGED <<journal, quarantine, tasks, awaited>>,
           plan' \in Seq(Operation), mode' \in {mode, "up"},
           ctl' \in {"run", "paused", "cancelled", "halted"}
    PROVE  ControlInv'
<1>1. ControlOK'
  BY DEF ControlInv, ControlOK
<1> QED BY <1>1 DEF ControlInv, TasksJournaled, TasksFit, RecoveryAlone

LEMMA NextControl ==
    ASSUME DataInv, ControlInv, [Next]_vars
    PROVE  ControlInv'
<1> USE DEF store, running, bounds, vars
<1>0. plan \in Seq(Operation) /\ ctl \in {"run", "paused", "cancelled", "halted"}
  BY DEF ControlInv, ControlOK
<1>1. CASE \E id \in DOMAIN tasks : TaskStep(id)
  BY <1>1, TaskStepControl
<1>2. CASE \E id \in DOMAIN journal : Recover(id)
  BY <1>2, RecoverControl
<1>3. CASE StartBatch
  BY <1>3, BatchControl
<1>4. CASE Crash
  BY <1>4, CrashControl
<1>5. CASE RecoveryDone
  BY <1>0, <1>5, IdleControl DEF RecoveryDone
<1>6. CASE StopEarly
  <2>1. plan' \in Seq(Operation)
    BY <1>6 DEF StopEarly
  <2> QED BY <1>0, <1>6, <2>1, IdleControl DEF StopEarly
<1>7. CASE KeepBooks
  <2>1. plan' \in Seq(Operation)
    BY <1>0, <1>7 DEF KeepBooks, Ready
  <2> QED BY <1>0, <1>7, <2>1, IdleControl DEF KeepBooks
<1>8. CASE MakePlan
  <2>1. plan' \in Seq(Operation)
    BY <1>8 DEF MakePlan
  <2> QED BY <1>8, <2>1, IdleControl DEF MakePlan
<1>9. CASE Pause \/ CancelAll
  BY <1>0, <1>9, IdleControl DEF Pause, CancelAll
<1>10. CASE LocalUser \/ RemoteUser
  <2>1. UNCHANGED <<store, running>>
    BY <1>10 DEF LocalUser, RemoteUser, UserEdits, UserDeletes, UserCreates,
           UserRenames, RemoteEdits, RemoteTrashes, RemoteRestores,
           RemoteDeletes, RemoteMoves, LocalUserMay, UserMay
  <2> QED BY <1>0, <2>1, IdleControl
<1>11. CASE UNCHANGED vars
  BY <1>0, <1>11, IdleControl
<1> QED BY <1>1, <1>2, <1>3, <1>4, <1>5, <1>6, <1>7, <1>8, <1>9, <1>10, <1>11
        DEF Next, Program

-----------------------------------------------------------------------------
(* The baseline that operations commit.                                    *)

LEMMA RowType ==
    ASSUME DataInv, NEW p \in DOMAIN fs, NEW dir \in BOOLEAN, NEW uid \in Nat,
           NEW node, node.rev \in Nat, node.sha \in Digest, NEW sha \in Digest
    PROVE  LocalRow(p, dir, node, uid, sha) \in Row
<1>1. fs[p] \in Item
  BY DEF DataInv, DataOK, ItemsOK
<1> QED BY <1>1 DEF LocalRow, Row, Item

LEMMA BaseAfterDelete ==
    ASSUME DataInv, NEW op \in Operation, NEW uid, NEW node, NEW sha,
           op.kind \in {"recycle_local", "trash_remote"}
    PROVE  RowsOK(BaseAfter(op, uid, node, sha))
<1>1. BaseAfter(op, uid, node, sha) = RemoveTree(base, op.path)
  BY DEF BaseAfter, MoveKinds
<1>2. op.path \in Path
  BY DEF Operation
<1> QED BY <1>1, <1>2, RowsKept DEF DataInv, DataOK

LEMMA BaseAfterMove ==
    ASSUME DataInv, NEW op \in Operation, op.kind \in MoveKinds,
           NEW uid \in DOMAIN drive, NEW sha, op.path \in DOMAIN fs
    PROVE  RowsOK(BaseAfter(op, uid, drive[uid], sha))
<1> DEFINE dir == IF op.kind = "move_local" THEN fs[op.path].dir ELSE drive[uid].dir
           row == LocalRow(op.path, dir, drive[uid], uid, CarriedSha(op.from))
<1>1. op.path \in Path /\ op.from \in Path
  BY DEF Operation
<1>2. drive[uid] \in Node /\ fs[op.path] \in Item /\ uid \in Nat
  BY DEF DataInv, DataOK, NodesOK, ItemsOK
<1>3. dir \in BOOLEAN /\ drive[uid].rev \in Nat /\ drive[uid].sha \in Digest
  BY <1>2 DEF Node, Item
<1>4. CarriedSha(op.from) \in Digest
  BY DEF CarriedSha, DataInv, DataOK, RowsOK, Row, Digest
<1>5. row \in Row
  <2> HIDE DEF dir
  <2> QED BY <1>2, <1>3, <1>4, RowType
<1>6. RowsOK(MoveTree(base, op.from, op.path))
  BY <1>1, RowsKept DEF DataInv, DataOK
<1>7. BaseAfter(op, uid, drive[uid], sha) =
          Upsert(MoveTree(base, op.from, op.path), op.path, row)
  BY DEF BaseAfter, MoveKinds
<1> HIDE DEF row
<1> QED BY <1>1, <1>5, <1>6, <1>7, RowsKept

LEMMA BaseAfterOther ==
    ASSUME DataInv, NEW op \in Operation,
           op.kind \in TransferKinds \cup {"create_remote_folder",
                                          "create_local_folder"},
           NEW uid \in Nat, NEW node, node.rev \in Nat, node.sha \in Digest,
           NEW sha \in Digest, op.path \in DOMAIN fs
    PROVE  RowsOK(BaseAfter(op, uid, node, sha))
<1> DEFINE row == LocalRow(op.path, op.kind \notin TransferKinds, node, uid, sha)
<1>1. op.path \in Path /\ (op.kind \notin TransferKinds) \in BOOLEAN
  BY DEF Operation
<1>2. row \in Row
  BY <1>1, RowType
<1>3. BaseAfter(op, uid, node, sha) = Upsert(base, op.path, row)
  BY DEF BaseAfter, MoveKinds, TransferKinds
<1> HIDE DEF row
<1> QED BY <1>1, <1>2, <1>3, RowsKept DEF DataInv, DataOK

LEMMA CommitRows ==
    ASSUME DataInv, ControlInv, NEW id \in DOMAIN tasks, CommitStep(id)
    PROVE  RowsOK(base')
<1> DEFINE t    == tasks[id]
           op   == t.op
           hold == t.hold
           uid  == IF op.uid # None THEN op.uid ELSE hold.uid
           folder == [rev |-> 0, sha |-> None]
<1>1. /\ t.pc \in LastSteps /\ t.pc \in Acting /\ Errors(t) = {}
      /\ op \in Operation /\ hold \in Hold
      /\ Fits(op.kind, t.pc) /\ Held(op, t.pc, hold)
  BY TaskFacts DEF CommitStep, LastSteps, Acting
<1>2. /\ hold.sha \in Digest /\ hold.uid \in Nat \cup {None}
      /\ hold.rev \in Nat \cup {None} /\ op.uid \in Nat \cup {None}
  BY <1>1 DEF Hold, Operation
<1>3. CASE t.pc = "readback"
  <2>1. op.kind = "upload"
    BY <1>1, <1>3 DEF Fits
  <2>2. hold.uid \in DOMAIN drive /\ LocalMatches(op.path, op.lfp)
    BY <1>1, <1>3, <2>1, UploadClear
  <2>3. uid = hold.uid
    BY <1>1, <1>3 DEF Held
  <2>4. op.path \in DOMAIN fs
    BY <1>1, <2>1, <2>2 DEF LocalMatches, Operation
  <2>5. uid \in Nat /\ drive[uid].rev \in Nat /\ drive[uid].sha \in Digest
    BY <2>2, <2>3 DEF DataInv, DataOK, NodesOK, Node
  <2>6. base' = BaseAfter(op, uid, drive[uid], hold.sha)
    BY <2>1 DEF CommitStep
  <2> HIDE DEF uid
  <2> QED BY <1>1, <1>2, <2>1, <2>4, <2>5, <2>6, BaseAfterOther DEF TransferKinds
<1>4. CASE t.pc = "record"
  <2>1. op.kind = "download"
    BY <1>1, <1>4 DEF Fits
  <2>2. op.path \in DOMAIN fs
    BY <1>1, <1>4, <2>1, DownloadClear
  <2>3. hold.rev \in Nat
    BY <1>1, <1>2, <1>4 DEF Held
  <2>4. uid \in Nat
    BY <1>1, <1>2, <2>1 DEF Operation
  <2>5. base' = BaseAfter(op, uid, hold, hold.sha)
    BY <2>1 DEF CommitStep
  <2> HIDE DEF uid
  <2> QED BY <1>1, <1>2, <2>1, <2>2, <2>3, <2>4, <2>5, BaseAfterOther
          DEF TransferKinds
<1>5. CASE t.pc \in {"settle", "confirm"}
  <2>1. op.kind \in MoveKinds
    BY <1>1, <1>5 DEF Fits, MoveKinds
  <2>2. op.uid \in DOMAIN drive /\ op.path \in DOMAIN fs
    BY <1>1, <1>5, <2>1, MoveClear
  <2>3. uid = op.uid
    BY <1>1, <2>1 DEF Operation
  <2>4. base' = BaseAfter(op, uid, drive[uid], hold.sha)
    BY <2>1 DEF CommitStep, MoveKinds
  <2> HIDE DEF uid
  <2> QED BY <1>1, <2>1, <2>2, <2>3, <2>4, BaseAfterMove
<1>6. CASE op.kind \in {"recycle_local", "trash_remote"}
  <2>1. \E u, node : base' = BaseAfter(op, u, node, hold.sha)
    BY DEF CommitStep
  <2> QED BY <1>1, <1>6, <2>1, BaseAfterDelete
<1>7. CASE t.pc = "commit" /\ op.kind # "recycle_local"
  <2>1. op.kind \in {"create_remote_folder", "create_local_folder"}
    BY <1>1, <1>7 DEF Fits
  <2>2. op.path \in DOMAIN fs
    BY <1>1, <1>7, <2>1, OtherClear DEF MoveKinds, TransferKinds
  <2>3. uid \in Nat
    BY <1>1, <1>2, <1>7, <2>1 DEF Held, Operation
  <2>4. folder.rev \in Nat /\ folder.sha \in Digest
    BY DEF Digest
  <2>5. base' = BaseAfter(op, uid, folder, hold.sha)
    BY <2>1 DEF CommitStep
  <2> HIDE DEF uid, folder
  <2> QED BY <1>1, <1>2, <2>1, <2>2, <2>3, <2>4, <2>5, BaseAfterOther
<1>8. t.pc = "verify" => op.kind = "trash_remote"
  BY <1>1 DEF Fits
<1> QED BY <1>1, <1>3, <1>4, <1>5, <1>6, <1>7, <1>8 DEF LastSteps

LEMMA NodeFacts ==
    ASSUME DataInv, NEW u \in DOMAIN drive
    PROVE  u \in Nat /\ drive[u].rev \in Nat /\ drive[u].sha \in Digest
  BY DEF DataInv, DataOK, NodesOK, Node

LEMMA RetryRows ==
    ASSUME DataInv, NEW op \in Operation, NEW u \in LandedNodes(op)
    PROVE  /\ RowsOK(BaseAfter(op, u, drive[u],
                       IF op.kind = "upload" THEN op.lfp.sha ELSE None))
           /\ op.kind = "create_remote_folder" => u \in Nat
<1> DEFINE sha == IF op.kind = "upload" THEN op.lfp.sha ELSE None
<1>1. CASE op.kind = "upload"
  <2>1. u \in DOMAIN drive /\ op.path \in DOMAIN fs
    BY <1>1 DEF LandedNodes, AtPlace, Matching
  <2>2. sha \in Digest
    BY <1>1 DEF Operation, LocalFingerprint
  <2> HIDE DEF sha
  <2>3. RowsOK(BaseAfter(op, u, drive[u], sha))
    BY <1>1, <2>1, <2>2, NodeFacts, BaseAfterOther DEF TransferKinds
  <2> QED BY <1>1, <2>3 DEF sha
<1>2. CASE op.kind = "trash_remote"
  BY <1>2, BaseAfterDelete
<1>3. CASE op.kind = "move_remote"
  <2>1. u \in DOMAIN drive /\ op.path \in DOMAIN fs
    BY <1>3 DEF LandedNodes
  <2> QED BY <1>3, <2>1, BaseAfterMove DEF MoveKinds
<1>4. CASE op.kind = "create_remote_folder"
  <2>1. u \in DOMAIN drive /\ op.path \in DOMAIN fs
    BY <1>4 DEF LandedNodes, AtPlace, Matching
  <2>2. sha \in Digest
    BY <1>4 DEF Digest
  <2> HIDE DEF sha
  <2>3. RowsOK(BaseAfter(op, u, drive[u], sha))
    BY <1>4, <2>1, <2>2, NodeFacts, BaseAfterOther
  <2> QED BY <1>4, <2>1, <2>3, NodeFacts DEF sha
<1> QED BY <1>1, <1>2, <1>3, <1>4 DEF LandedNodes

LEMMA RecoverRows ==
    ASSUME DataInv, ControlInv, NEW id \in DOMAIN journal, RecoverCompleted(id)
    PROVE  RowsOK(base')
<1> DEFINE op  == journal[id].op
           uid == IF op.uid # None THEN op.uid
                  ELSE CHOOSE u \in FoundAtPlace(op) :
                           op.kind = "upload" => drive[u].sha = fs[op.path].data
           sha == IF op.kind \in TransferKinds THEN fs[op.path].data ELSE None
<1>1. /\ op \in Operation /\ Outcome(op) = "completed"
      /\ base' = BaseAfter(op, uid, drive[uid], sha)
  BY DEF RecoverCompleted, ControlInv, ControlOK, Entry
<1>2. op.path \in DOMAIN fs => sha \in Digest
  BY DEF DataInv, DataOK, ItemsOK, Item, Digest
<1>3. FoundAtPlace(op) \subseteq DOMAIN drive
  BY DEF FoundAtPlace, AtPlace, Matching
<1>4. CASE op.kind = "upload"
  <2>1. UploadOutcome(op) = "completed"
    BY <1>1, <1>4 DEF Outcome
  <2>2. op.path \in DOMAIN fs
    BY <2>1 DEF UploadOutcome, IsFile
  <2>3. uid \in DOMAIN drive
    <3>1. CASE op.uid # None
      BY <2>1, <3>1 DEF UploadOutcome
    <3>2. CASE op.uid = None
      <4>1. \E u \in FoundAtPlace(op) : drive[u].sha = fs[op.path].data
        BY <2>1, <3>2 DEF UploadOutcome
      <4> QED BY <1>3, <1>4, <3>2, <4>1
    <3> QED BY <3>1, <3>2
  <2> HIDE DEF uid, sha
  <2> QED BY <1>1, <1>2, <1>4, <2>2, <2>3, NodeFacts, BaseAfterOther
          DEF TransferKinds
<1>5. CASE op.kind = "download"
  <2>1. DownloadOutcome(op) = "completed"
    BY <1>1, <1>5 DEF Outcome
  <2>2. op.path \in DOMAIN fs /\ op.uid \in DOMAIN drive
    BY <2>1 DEF DownloadOutcome, IsFile
  <2>3. uid = op.uid
    BY <1>1, <1>5 DEF Operation
  <2> HIDE DEF uid, sha
  <2> QED BY <1>1, <1>2, <1>5, <2>2, <2>3, NodeFacts, BaseAfterOther
          DEF TransferKinds
<1>6. CASE op.kind \in MoveKinds
  <2>1. op.kind = "move_local" => MoveLocalOutcome(op) = "completed"
    BY <1>1 DEF Outcome
  <2>2. op.kind = "move_remote" => MoveRemoteOutcome(op) = "completed"
    BY <1>1 DEF Outcome
  <2>3. op.path \in DOMAIN fs /\ op.uid \in DOMAIN drive
    BY <1>6, <2>1, <2>2 DEF MoveLocalOutcome, MoveRemoteOutcome, MoveKinds
  <2>4. uid = op.uid
    BY <1>1, <1>6 DEF Operation
  <2> HIDE DEF uid, sha
  <2> QED BY <1>1, <1>6, <2>3, <2>4, BaseAfterMove
<1>7. CASE op.kind \in {"recycle_local", "trash_remote"}
  <2> HIDE DEF uid, sha
  <2> QED BY <1>1, <1>7, BaseAfterDelete
<1>8. CASE op.kind = "create_remote_folder"
  <2>1. op.path \in DOMAIN fs /\ FoundAtPlace(op) # {} /\ op.uid = None
    BY <1>1, <1>8 DEF Outcome, Operation
  <2>2. uid \in DOMAIN drive
    BY <1>3, <1>8, <2>1
  <2> HIDE DEF uid, sha
  <2> QED BY <1>1, <1>2, <1>8, <2>1, <2>2, NodeFacts, BaseAfterOther
<1>9. CASE op.kind = "create_local_folder"
  <2>1. op.path \in DOMAIN fs /\ op.uid \in DOMAIN drive
    BY <1>1, <1>9 DEF Outcome
  <2>2. uid = op.uid
    BY <1>1, <1>9 DEF Operation
  <2> HIDE DEF uid, sha
  <2> QED BY <1>1, <1>2, <1>9, <2>1, <2>2, NodeFacts, BaseAfterOther
<1>10. op.kind \in Kinds /\ (op.kind \in Bookkeeping => Outcome(op) = "failed")
  BY <1>1 DEF Operation, Outcome, Bookkeeping
<1> HIDE DEF uid, sha
<1> QED BY <1>1, <1>4, <1>5, <1>6, <1>7, <1>8, <1>9, <1>10
        DEF Kinds, TransferKinds, MoveKinds

LEMMA KeepBooksRows ==
    ASSUME DataInv, ControlInv, KeepBooks
    PROVE  RowsOK(base')
<1> DEFINE op == Head(plan)
<1>1. op \in Operation
  BY DEF KeepBooks, Ready, ControlInv, ControlOK
<1>2. op.path \in Path /\ RowsOK(base)
  BY <1>1 DEF Operation, DataInv, DataOK
<1>3. CASE op.kind = "remove_baseline"
  <2>1. base' = RemoveTree(base, op.path)
    BY <1>3 DEF KeepBooks
  <2> QED BY <1>2, <2>1, RowsKept
<1>4. CASE op.kind # "remove_baseline" /\ op.path \in DOMAIN fs
           /\ fs[op.path].ino = op.lfp.ino
  <2> DEFINE row == LocalRow(op.path, op.dir, op.rfp, op.uid, op.lfp.sha)
  <2>1. op.kind = "update_baseline"
    BY <1>4 DEF KeepBooks, Bookkeeping
  <2>2. /\ op.uid \in Nat /\ op.dir \in BOOLEAN
        /\ op.rfp \in RemoteFingerprint /\ op.lfp \in LocalFingerprint
    BY <1>1, <2>1 DEF Operation
  <2>3. row \in Row
    BY <1>4, <2>2, RowType DEF RemoteFingerprint, LocalFingerprint
  <2>4. base' = Upsert(base, op.path, row)
    BY <1>4 DEF KeepBooks
  <2> HIDE DEF row
  <2> QED BY <1>2, <2>3, <2>4, RowsKept
<1>5. base' = base \/ op.kind = "remove_baseline"
        \/ (op.path \in DOMAIN fs /\ fs[op.path].ino = op.lfp.ino)
  BY DEF KeepBooks
<1> QED BY <1>2, <1>3, <1>4, <1>5

-----------------------------------------------------------------------------
(* The data part: each step that changes the sides.                        *)

\* A step that leaves the drive alone needs only the local side typed.
LEMMA LocalData ==
    ASSUME DataInv, UNCHANGED <<drive, olds, base, made>>, ItemsOK(fs'),
           \A r \in recycled' : r \in [path: Path, data: Digest],
           clock' \in Nat, clock <= clock'
    PROVE  DataInv'
<1>1. DataOK'
  BY DEF DataInv, DataOK, NodesOK, RowsOK, ItemsOK
<1>2. Fresh'
  BY DEF DataInv, DataOK, NodesOK, Fresh
<1> QED BY <1>1, <1>2 DEF DataInv

\* A step that leaves the local side alone needs only the drive typed.
LEMMA DriveData ==
    ASSUME DataInv, UNCHANGED <<fs, recycled, base>>, NodesOK(drive'),
           olds' \subseteq Digest, Fresh', clock' \in Nat,
           DOMAIN made' \subseteq Path, \A p \in DOMAIN made' : made'[p] \in Nat
    PROVE  DataInv'
  BY DEF DataInv, DataOK, NodesOK, RowsOK, ItemsOK

\* A node with a fresh identifier, and a change of a node.
LEMMA NewNode ==
    ASSUME DataInv, NEW node \in Node, drive' = Put(drive, clock + 1, node),
           clock' = clock + 1
    PROVE  NodesOK(drive') /\ Fresh' /\ clock' \in Nat
<1>1. clock \in Nat /\ NodesOK(drive)
  BY DEF DataInv, DataOK
<1>2. NodesOK(drive')
  BY <1>1 DEF NodesOK, Put
<1>3. \A u \in DOMAIN drive : u \in Nat /\ u <= clock
  BY <1>1 DEF DataInv, Fresh, NodesOK
<1>4. DOMAIN drive' = DOMAIN drive \cup {clock + 1}
  BY DEF Put
<1>5. Fresh'
  BY <1>1, <1>3, <1>4 DEF Fresh
<1> QED BY <1>1, <1>2, <1>5

LEMMA OldNode ==
    ASSUME DataInv, DOMAIN drive' \subseteq DOMAIN drive,
           \A u \in DOMAIN drive' : drive'[u] \in Node,
           clock' \in {clock, clock + 1}
    PROVE  NodesOK(drive') /\ Fresh' /\ clock' \in Nat
<1>1. clock \in Nat /\ clock' \in Nat /\ clock <= clock'
  BY DEF DataInv, DataOK
<1>2. \A u \in DOMAIN drive' : u \in Nat /\ u <= clock
  BY DEF DataInv, DataOK, Fresh, NodesOK
<1>3. \A u \in DOMAIN drive' : u <= clock'
  BY <1>1, <1>2
<1> QED BY <1>1, <1>2, <1>3 DEF NodesOK, Fresh

LEMMA UploadData ==
    ASSUME DataInv, ControlInv, NEW id \in DOMAIN tasks,
           UploadNewFile(id) \/ UploadNewRevision(id)
    PROVE  DataInv'
<1> DEFINE t == tasks[id]
           op == t.op
           hold == t.hold
<1>1. /\ t.pc = "send" /\ Errors(t) = {} /\ op.kind = "upload" /\ t.pc \in Acting
      /\ hold \in Hold /\ op.path \in Path /\ Held(op, t.pc, hold)
      /\ UNCHANGED <<fs, recycled, base, made>>
  BY TaskFacts DEF UploadNewFile, UploadNewRevision, Able, Fits, Acting
<1>2. hold.sha \in Digest /\ clock \in Nat /\ olds \subseteq Digest
      /\ DOMAIN made \subseteq Path /\ \A p \in DOMAIN made : made[p] \in Nat
  BY <1>1 DEF Hold, DataInv, DataOK
<1>3. CASE UploadNewFile(id)
  <2> DEFINE node == [parent |-> hold.uid, name |-> NameOf(op.path),
                      dir |-> FALSE, trashed |-> FALSE,
                      rev |-> clock + 1, sha |-> hold.sha]
  <2>1. FolderExists(hold.uid)
    BY <1>1, <1>3, UploadClear DEF UploadNewFile
  <2>2. hold.uid \in Nat /\ NameOf(op.path) \in Names
    BY <1>1, <2>1, PathFacts DEF FolderExists, Root, DataInv, DataOK, NodesOK
  <2>3. node \in Node
    BY <1>2, <2>2 DEF Node
  <2>4. drive' = Put(drive, clock + 1, node) /\ clock' = clock + 1 /\ olds' = olds
    BY <1>3 DEF UploadNewFile
  <2> HIDE DEF node
  <2>5. NodesOK(drive') /\ Fresh' /\ clock' \in Nat
    BY <2>3, <2>4, NewNode
  <2> QED BY <1>1, <1>2, <2>4, <2>5, DriveData
<1>4. CASE UploadNewRevision(id)
  <2>1. op.uid \in DOMAIN drive
    BY <1>1, <1>4, UploadClear DEF Held, UploadNewRevision
  <2>2. drive[op.uid] \in Node /\ \A u \in DOMAIN drive : drive[u] \in Node
    BY <2>1 DEF DataInv, DataOK, NodesOK
  <2>3. /\ drive' = [drive EXCEPT ![op.uid].rev = clock + 1, ![op.uid].sha = hold.sha]
        /\ clock' = clock + 1 /\ olds' = olds \cup {drive[op.uid].sha}
    BY <1>4 DEF UploadNewRevision
  <2>4. DOMAIN drive' = DOMAIN drive /\ \A u \in DOMAIN drive' : drive'[u] \in Node
    BY <1>2, <2>2, <2>3 DEF Node
  <2>5. NodesOK(drive') /\ Fresh' /\ clock' \in Nat
    BY <2>3, <2>4, OldNode
  <2>6. olds' \subseteq Digest
    BY <1>2, <2>2, <2>3 DEF Node
  <2> QED BY <1>1, <1>2, <2>5, <2>6, DriveData
<1> QED BY <1>3, <1>4

LEMMA RecycleData ==
    ASSUME DataInv, NEW p \in Path, Recycle(p)
    PROVE  ItemsOK(fs') /\ \A r \in recycled' : r \in [path: Path, data: Digest]
<1>1. ItemsOK(fs) /\ \A r \in recycled : r \in [path: Path, data: Digest]
  BY DEF DataInv, DataOK
<1>2. ItemsOK(fs')
  BY <1>1, ItemsKept DEF Recycle
<1>3. \A q \in DOMAIN fs : [path |-> q, data |-> fs[q].data] \in [path: Path, data: Digest]
  BY <1>1 DEF ItemsOK, Item
<1> QED BY <1>1, <1>2, <1>3 DEF Recycle

LEMMA DownloadData ==
    ASSUME DataInv, ControlInv, NEW id \in DOMAIN tasks,
           DownloadPlace(id) \/ DownloadSwap(id)
    PROVE  DataInv'
<1> DEFINE op == tasks[id].op
           hold == tasks[id].hold
<1>1. /\ op.path \in Path /\ Len(op.path) \in Nat /\ hold.sha \in Digest
      /\ clock \in Nat /\ ItemsOK(fs)
      /\ \A r \in recycled : r \in [path: Path, data: Digest]
  BY TaskFacts, PathFacts DEF DataInv, DataOK, Hold
<1>2. CASE DownloadPlace(id)
  <2>1. clock' \in Nat /\ clock <= clock'
    BY <1>1, <1>2 DEF DownloadPlace
  <2>2. ItemsOK(fs') /\ \A r \in recycled' : r \in [path: Path, data: Digest]
    <3>1. CASE op.lfp # None
      BY <1>1, <1>2, <3>1, RecycleData DEF DownloadPlace
    <3>2. CASE op.lfp = None
      BY <1>1, <1>2, <3>2, ItemsKept DEF DownloadPlace
    <3> QED BY <3>1, <3>2
  <2> QED BY <1>2, <2>1, <2>2, LocalData DEF DownloadPlace
<1>3. CASE DownloadSwap(id)
  <2> DEFINE item == [dir |-> FALSE, ino |-> clock + 1, ver |-> clock + 1,
                      data |-> hold.sha]
  <2>1. item \in Item /\ fs' = Put(fs, op.path, item)
    BY <1>1, <1>3 DEF Item, DownloadSwap
  <2> HIDE DEF item
  <2>2. ItemsOK(fs')
    BY <1>1, <2>1, ItemsKept
  <2>3. clock' \in Nat /\ clock <= clock'
    BY <1>1, <1>3 DEF DownloadSwap
  <2> QED BY <1>1, <1>3, <2>2, <2>3, LocalData DEF DownloadSwap
<1> QED BY <1>2, <1>3

LEMMA MoveData ==
    ASSUME DataInv, ControlInv, NEW id \in DOMAIN tasks,
           MoveLocalAct(id) \/ MoveRemoteAct(id)
    PROVE  DataInv'
<1> DEFINE t == tasks[id]
           op == t.op
           hold == t.hold
<1>1. /\ op \in Operation /\ op.path \in Path /\ Len(op.path) \in Nat
      /\ clock \in Nat /\ ItemsOK(fs) /\ olds \subseteq Digest
      /\ \A r \in recycled : r \in [path: Path, data: Digest]
      /\ DOMAIN made \subseteq Path /\ \A p \in DOMAIN made : made[p] \in Nat
  BY TaskFacts, PathFacts DEF DataInv, DataOK
<1>2. CASE MoveLocalAct(id)
  <2>1. op.kind = "move_local"
    BY <1>2, TaskFacts DEF MoveLocalAct, Able, Fits
  <2>2. op.from \in Path
    BY <1>1, <2>1 DEF Operation, MoveKinds
  <2>3. ItemsOK(WithParents(fs, op.path))
    BY <1>1, ItemsKept
  <2>4. ItemsOK(RemoveTree(WithParents(fs, op.path), op.path))
    BY <1>1, <2>3, ItemsKept
  <2>5. ItemsOK(fs')
    BY <1>1, <1>2, <2>2, <2>4, ItemsKept DEF MoveLocalAct
  <2>6. clock' \in Nat /\ clock <= clock'
    BY <1>1, <1>2 DEF MoveLocalAct
  <2> QED BY <1>1, <1>2, <2>5, <2>6, LocalData DEF MoveLocalAct
<1>3. CASE MoveRemoteAct(id)
  <2>1. /\ t.pc \in {"move", "rename"} /\ Errors(t) = {} /\ t.pc \in Acting
        /\ op.kind \in MoveKinds
    BY <1>3, TaskFacts DEF MoveRemoteAct, Able, Fits, Acting, MoveKinds
  <2>2. op.uid \in DOMAIN drive /\ \A u \in DOMAIN drive : drive[u] \in Node
    BY <2>1, MoveClear DEF DataInv, DataOK, NodesOK
  <2>3. DOMAIN drive' = DOMAIN drive /\ \A u \in DOMAIN drive' : drive'[u] \in Node
    <3>1. CASE t.pc = "move"
      <4>1. hold.uid \in Nat
        BY <2>1, <3>1, MoveClear DEF FolderExists, Root, DataInv, DataOK, NodesOK
      <4>2. drive' = [drive EXCEPT ![op.uid].parent = hold.uid]
        BY <1>3, <3>1 DEF MoveRemoteAct, Able
      <4> QED BY <2>2, <4>1, <4>2 DEF Node
    <3>2. CASE t.pc = "rename"
      <4>1. drive' = [drive EXCEPT ![op.uid].name = NameOf(op.path)]
        BY <1>3, <3>2 DEF MoveRemoteAct, Able
      <4> QED BY <1>1, <2>2, <4>1, PathFacts DEF Node
    <3> QED BY <2>1, <3>1, <3>2
  <2>4. NodesOK(drive') /\ Fresh' /\ clock' \in Nat
    BY <1>3, <2>3, OldNode DEF MoveRemoteAct
  <2> QED BY <1>1, <1>3, <2>4, DriveData DEF MoveRemoteAct
<1> QED BY <1>2, <1>3

LEMMA DeleteData ==
    ASSUME DataInv, ControlInv, NEW id \in DOMAIN tasks,
           RecycleLocalAct(id) \/ TrashRemoteAct(id)
    PROVE  DataInv'
<1> DEFINE t == tasks[id]
           op == t.op
<1>1. /\ op.path \in Path /\ clock \in Nat /\ olds \subseteq Digest
      /\ DOMAIN made \subseteq Path /\ \A p \in DOMAIN made : made[p] \in Nat
  BY TaskFacts DEF DataInv, DataOK
<1>2. CASE RecycleLocalAct(id)
  <2>1. ItemsOK(fs') /\ \A r \in recycled' : r \in [path: Path, data: Digest]
    BY <1>1, <1>2, RecycleData DEF RecycleLocalAct
  <2> QED BY <1>1, <1>2, <2>1, LocalData DEF RecycleLocalAct
<1>3. CASE TrashRemoteAct(id)
  <2>1. t.pc = "trash" /\ Errors(t) = {} /\ t.pc \in Acting /\ op.kind = "trash_remote"
    BY <1>3, TaskFacts DEF TrashRemoteAct, Able, Fits, Acting
  <2>2. op.uid \in DOMAIN drive /\ \A u \in DOMAIN drive : drive[u] \in Node
    BY <2>1, OtherClear DEF MoveKinds, TransferKinds, DataInv, DataOK, NodesOK
  <2>3. drive' = [drive EXCEPT ![op.uid].trashed = TRUE]
    BY <1>3 DEF TrashRemoteAct
  <2>4. DOMAIN drive' = DOMAIN drive /\ \A u \in DOMAIN drive' : drive'[u] \in Node
    BY <2>2, <2>3 DEF Node
  <2>5. NodesOK(drive') /\ Fresh' /\ clock' \in Nat
    BY <1>3, <2>4, OldNode DEF TrashRemoteAct
  <2> QED BY <1>1, <1>3, <2>5, DriveData DEF TrashRemoteAct
<1> QED BY <1>2, <1>3

LEMMA CreateData ==
    ASSUME DataInv, ControlInv, NEW id \in DOMAIN tasks,
           CreateRemoteFolderAct(id) \/ CreateLocalFolderAct(id)
    PROVE  DataInv'
<1> DEFINE t == tasks[id]
           op == t.op
<1>1. /\ op \in Operation /\ op.path \in Path /\ NameOf(op.path) \in Names
      /\ clock \in Nat /\ olds \subseteq Digest
      /\ ItemsOK(fs) /\ \A r \in recycled : r \in [path: Path, data: Digest]
      /\ DOMAIN made \subseteq Path /\ \A p \in DOMAIN made : made[p] \in Nat
  BY TaskFacts, PathFacts DEF DataInv, DataOK
<1>2. CASE CreateRemoteFolderAct(id)
  <2> DEFINE node == [parent |-> RemoteParent(op.path), name |-> NameOf(op.path),
                      dir |-> TRUE, trashed |-> FALSE, rev |-> 0, sha |-> None]
  <2>1. /\ t.pc = "create" /\ Errors(t) = {} /\ t.pc \in Acting
        /\ op.kind = "create_remote_folder"
    BY <1>2, TaskFacts DEF CreateRemoteFolderAct, Able, Fits, Acting
  <2>2. RemoteParent(op.path) \in Nat
    BY <1>1, <2>1, OtherClear, TargetType DEF MoveKinds, TransferKinds
  <2>3. node \in Node
    BY <1>1, <2>2 DEF Node, Digest
  <2>4. drive' = Put(drive, clock + 1, node) /\ clock' = clock + 1
    BY <1>2 DEF CreateRemoteFolderAct
  <2> HIDE DEF node
  <2>5. NodesOK(drive') /\ Fresh' /\ clock' \in Nat
    BY <2>3, <2>4, NewNode
  <2>6. DOMAIN made' \subseteq Path /\ \A p \in DOMAIN made' : made'[p] \in Nat
    <3>1. made' = made \/ made' = Put(made, op.path, clock + 1)
      BY <1>2 DEF CreateRemoteFolderAct
    <3>2. clock + 1 \in Nat
      BY <1>1
    <3> QED BY <1>1, <3>1, <3>2 DEF Put
  <2> QED BY <1>1, <1>2, <2>5, <2>6, DriveData DEF CreateRemoteFolderAct
<1>3. CASE CreateLocalFolderAct(id)
  <2> DEFINE item == [dir |-> TRUE, ino |-> clock + 1, ver |-> 0, data |-> None]
  <2>1. item \in Item /\ fs' = Put(fs, op.path, item)
    BY <1>1, <1>3 DEF Item, Digest, CreateLocalFolderAct
  <2> HIDE DEF item
  <2>2. ItemsOK(fs')
    BY <1>1, <2>1, ItemsKept
  <2>3. clock' \in Nat /\ clock <= clock'
    BY <1>1, <1>3 DEF CreateLocalFolderAct
  <2> QED BY <1>1, <1>3, <2>2, <2>3, LocalData DEF CreateLocalFolderAct
<1> QED BY <1>2, <1>3

-----------------------------------------------------------------------------
(* The data part: the other steps.                                         *)

LEMMA RowsData ==
    ASSUME DataInv, RowsOK(base'), UNCHANGED <<sides, clock>>,
           DOMAIN made' \subseteq Path, \A p \in DOMAIN made' : made'[p] \in Nat
    PROVE  DataInv'
  BY DEF DataInv, DataOK, Fresh, ItemsOK, NodesOK, sides

LEMMA SameData ==
    ASSUME DataInv, UNCHANGED <<sides, base, made>>, clock' \in Nat,
           clock <= clock'
    PROVE  DataInv'
<1>1. DataOK'
  BY DEF DataInv, DataOK, ItemsOK, NodesOK, RowsOK, sides
<1>2. Fresh'
  BY DEF DataInv, DataOK, NodesOK, Fresh, sides
<1> QED BY <1>1, <1>2 DEF DataInv

LEMMA QuietData ==
    ASSUME DataInv, Quiet
    PROVE  DataInv'
<1>1. clock' \in Nat /\ clock <= clock'
  BY DEF Quiet, DataInv, DataOK
<1> QED BY <1>1, SameData DEF Quiet

LEMMA ActData ==
    ASSUME DataInv, ControlInv, NEW id \in DOMAIN tasks, Act(id)
    PROVE  DataInv'
<1>1. CASE Read(id)
  BY <1>1, QuietData DEF Read
<1>2. CASE CommitStep(id)
  <2>1. RowsOK(base')
    BY <1>2, CommitRows
  <2>2. DOMAIN made' \subseteq Path /\ \A p \in DOMAIN made' : made'[p] \in Nat
    BY <1>2 DEF CommitStep, DataInv, DataOK
  <2> QED BY <1>2, <2>1, <2>2, RowsData DEF CommitStep
<1> QED BY <1>1, <1>2, UploadData, DownloadData, MoveData, DeleteData, CreateData
        DEF Act

LEMMA RetryData ==
    ASSUME DataInv, ControlInv, NEW id \in DOMAIN tasks, Retry(id)
    PROVE  DataInv'
<1>1. CASE RetryFindsLanded(id)
  <2> DEFINE op == tasks[id].op
  <2>1. op \in Operation /\ op.path \in Path
    BY TaskFacts
  <2>2. PICK u \in LandedNodes(op) :
            /\ made' = IF op.kind = "create_remote_folder"
                       THEN Put(made, op.path, u) ELSE made
            /\ base' = BaseAfter(op, u, drive[u],
                                IF op.kind = "upload" THEN op.lfp.sha ELSE None)
    BY <1>1 DEF RetryFindsLanded
  <2>3. RowsOK(base') /\ (op.kind = "create_remote_folder" => u \in Nat)
    BY <2>1, <2>2, RetryRows
  <2>4. DOMAIN made' \subseteq Path /\ \A p \in DOMAIN made' : made'[p] \in Nat
    <3>1. CASE op.kind = "create_remote_folder"
      BY <2>1, <2>2, <2>3, <3>1 DEF DataInv, DataOK, Put
    <3>2. CASE op.kind # "create_remote_folder"
      BY <2>2, <3>2 DEF DataInv, DataOK
    <3> QED BY <3>1, <3>2
  <2> QED BY <1>1, <2>3, <2>4, RowsData DEF RetryFindsLanded
<1> QED BY <1>1, QuietData DEF Retry, RetryAgain, RetryThrows

LEMMA RecoverData ==
    ASSUME DataInv, ControlInv, NEW id \in DOMAIN journal, Recover(id)
    PROVE  DataInv'
<1>1. /\ UNCHANGED <<sides, made, clock>>
      /\ RecoverCompleted(id) \/ base' = base
  BY DEF Recover, RecoverUnstarted, RecoverCompleted, RecoverFailed,
         RecoverAbandoned, RecoverFrame, running
<1>2. RowsOK(base')
  BY <1>1, RecoverRows DEF DataInv, DataOK
<1>3. DOMAIN made' \subseteq Path /\ \A p \in DOMAIN made' : made'[p] \in Nat
  BY <1>1 DEF DataInv, DataOK
<1> QED BY <1>1, <1>2, <1>3, RowsData

\* What the local user makes of the local side.
LEMMA LocalUserData ==
    ASSUME DataInv, LocalUser
    PROVE  DataInv'
<1> USE ExecutorAssumption
<1>1. clock \in Nat /\ ItemsOK(fs)
      /\ \A r \in recycled : r \in [path: Path, data: Digest]
  BY DEF DataInv, DataOK
<1>2. /\ UNCHANGED <<recycled, drive, olds, base, made>>
      /\ clock' \in Nat /\ clock <= clock'
  <2>1. UNCHANGED <<recycled, drive, olds, base, made>>
    BY DEF LocalUser, UserEdits, UserDeletes, UserCreates, UserRenames,
       LocalUserMay, UserMay, store, running
  <2>2. clock' \in {clock, clock + 1}
    BY DEF LocalUser, UserEdits, UserDeletes, UserCreates, UserRenames
  <2> QED BY <1>1, <2>1, <2>2
<1>3. ItemsOK(fs')
  <2>1. ASSUME NEW p \in DOMAIN fs, UserEdits(p) PROVE ItemsOK(fs')
    <3>1. PICK c \in Contents : fs' = [fs EXCEPT ![p].ver = clock + 1, ![p].data = c]
      BY <2>1 DEF UserEdits
    <3> QED BY <1>1, <3>1 DEF ItemsOK, Item, Digest
  <2>2. ASSUME NEW p \in DOMAIN fs, UserDeletes(p) PROVE ItemsOK(fs')
    BY <1>1, <2>2, ItemsKept DEF UserDeletes, ItemsOK
  <2>3. ASSUME NEW p \in UserPaths, UserCreates(p) PROVE ItemsOK(fs')
    <3>1. PICK c \in Contents :
              fs' = Put(fs, p, [dir |-> FALSE, ino |-> clock + 1,
                                ver |-> clock + 1, data |-> c])
      BY <2>3 DEF UserCreates
    <3> DEFINE item == [dir |-> FALSE, ino |-> clock + 1, ver |-> clock + 1, data |-> c]
    <3>2. item \in Item /\ p \in Path
      BY <1>1 DEF Item, Digest
    <3>3. fs' = Put(fs, p, item)
      BY <3>1
    <3> HIDE DEF item
    <3> QED BY <1>1, <3>2, <3>3, ItemsKept
  <2>4. ASSUME NEW p \in DOMAIN fs, NEW q \in UserPaths, UserRenames(p, q)
        PROVE  ItemsOK(fs')
    <3>1. p \in Path /\ q \in Path
      BY <1>1 DEF ItemsOK
    <3> QED BY <1>1, <2>4, <3>1, ItemsKept DEF UserRenames
  <2>5. PICK p \in DOMAIN fs \cup UserPaths :
            \/ UserEdits(p) \/ UserDeletes(p) \/ UserCreates(p)
            \/ \E q \in UserPaths : UserRenames(p, q)
    BY DEF LocalUser
  <2>6. CASE UserEdits(p) \/ UserDeletes(p)
    <3>1. p \in DOMAIN fs
      BY <2>6 DEF UserEdits, UserDeletes, IsFile
    <3> QED BY <2>1, <2>2, <2>6, <3>1
  <2>7. CASE UserCreates(p)
    <3>1. p \in UserPaths
      BY <2>5, <2>7 DEF UserCreates
    <3> QED BY <2>3, <2>7, <3>1
  <2>8. CASE \E q \in UserPaths : UserRenames(p, q)
    <3>1. p \in DOMAIN fs
      BY <2>8 DEF UserRenames
    <3> QED BY <2>4, <2>8, <3>1
  <2> QED BY <2>5, <2>6, <2>7, <2>8
<1> QED BY <1>1, <1>2, <1>3, LocalData

LEMMA RemoteUserData ==
    ASSUME DataInv, RemoteUser
    PROVE  DataInv'
<1>1. /\ clock \in Nat /\ olds \subseteq Digest
      /\ \A v \in DOMAIN drive : v \in Nat /\ drive[v] \in Node
      /\ DOMAIN made \subseteq Path /\ \A p \in DOMAIN made : made[p] \in Nat
  BY DEF DataInv, DataOK, NodesOK
<1>2. UNCHANGED <<fs, recycled, base, made>> /\ clock' \in {clock, clock + 1}
  BY DEF RemoteUser, RemoteEdits, RemoteTrashes, RemoteRestores, RemoteDeletes,
         RemoteMoves, UserMay, store, running
<1>3. /\ DOMAIN drive' \subseteq DOMAIN drive
      /\ \A v \in DOMAIN drive' : drive'[v] \in Node
      /\ olds' \subseteq Digest
  <2>1. PICK u \in DOMAIN drive :
            \/ RemoteEdits(u) \/ RemoteTrashes(u)
            \/ RemoteRestores(u) \/ RemoteDeletes(u)
            \/ \E parent \in DOMAIN drive \cup {Root}, name \in Names :
                   RemoteMoves(u, parent, name)
    BY DEF RemoteUser
  <2>2. CASE RemoteEdits(u)
    <3>1. PICK c \in Contents :
              drive' = [drive EXCEPT ![u].rev = clock + 1, ![u].sha = c]
      BY <2>2 DEF RemoteEdits
    <3>2. olds' = olds \cup {drive[u].sha}
      BY <2>2 DEF RemoteEdits
    <3> QED BY <1>1, <3>1, <3>2 DEF Node, Digest
  <2>3. CASE RemoteTrashes(u) \/ RemoteRestores(u)
    <3>1. PICK b \in BOOLEAN : drive' = [drive EXCEPT ![u].trashed = b]
      BY <2>3 DEF RemoteTrashes, RemoteRestores
    <3>2. olds' = olds
      BY <2>3 DEF RemoteTrashes, RemoteRestores
    <3> QED BY <1>1, <3>1, <3>2 DEF Node
  <2>4. CASE RemoteDeletes(u)
    BY <1>1, <2>4 DEF RemoteDeletes
  <2>5. ASSUME NEW parent \in DOMAIN drive \cup {Root}, NEW name \in Names,
               RemoteMoves(u, parent, name)
        PROVE  /\ DOMAIN drive' \subseteq DOMAIN drive
               /\ \A v \in DOMAIN drive' : drive'[v] \in Node
               /\ olds' \subseteq Digest
    <3>1. parent \in Nat
      BY <1>1 DEF Root
    <3>2. /\ drive' = [drive EXCEPT ![u].parent = parent, ![u].name = name]
          /\ olds' = olds
      BY <2>5 DEF RemoteMoves
    <3> QED BY <1>1, <3>1, <3>2 DEF Node
  <2> QED BY <2>1, <2>2, <2>3, <2>4, <2>5
<1>4. NodesOK(drive') /\ Fresh' /\ clock' \in Nat
  BY <1>2, <1>3, OldNode
<1> QED BY <1>1, <1>2, <1>3, <1>4, DriveData

LEMMA NextData ==
    ASSUME DataInv, ControlInv, [Next]_vars
    PROVE  DataInv'
<1> USE DEF store, running, bounds
<1>0. /\ clock \in Nat /\ RowsOK(base)
      /\ DOMAIN made \subseteq Path /\ \A p \in DOMAIN made : made[p] \in Nat
  BY DEF DataInv, DataOK
<1>1. CASE \E id \in DOMAIN tasks : TaskStep(id)
  <2>1. PICK id \in DOMAIN tasks : TaskStep(id)
    BY <1>1
  <2>2. CASE Act(id)
    BY <2>2, ActData
  <2>3. CASE Retry(id)
    BY <2>3, RetryData
  <2>4. CASE ~ Act(id) /\ ~ Retry(id)
    BY <2>1, <2>4, QuietData DEF TaskStep, StepFails, RemoteFails, TransferFails,
       PrecheckPasses, PrecheckSkips
  <2> QED BY <2>2, <2>3, <2>4
<1>2. CASE \E id \in DOMAIN journal : Recover(id)
  BY <1>2, RecoverData
<1>3. CASE StartBatch
  <2>1. PICK n \in 1..Len(plan) : clock' = clock + n
    BY <1>3 DEF StartBatch
  <2>2. clock' \in Nat /\ clock <= clock'
    BY <1>0, <2>1
  <2> QED BY <1>3, <2>2, SameData DEF StartBatch
<1>4. CASE KeepBooks
  <2>1. RowsOK(base')
    BY <1>4, KeepBooksRows
  <2> QED BY <1>0, <1>4, <2>1, RowsData DEF KeepBooks
<1>5. CASE MakePlan \/ Crash
  <2>1. DOMAIN made' \subseteq Path /\ \A p \in DOMAIN made' : made'[p] \in Nat
    BY <1>5, EmptyFacts DEF MakePlan, Crash
  <2> QED BY <1>0, <1>5, <2>1, RowsData DEF MakePlan, Crash
<1>6. CASE RecoveryDone \/ StopEarly \/ Pause \/ CancelAll \/ UNCHANGED vars
  <2>1. UNCHANGED <<sides, base, made, clock>>
    BY <1>6 DEF RecoveryDone, StopEarly, Pause, CancelAll, vars
  <2> QED BY <1>0, <2>1, SameData
<1> QED BY <1>1, <1>2, <1>3, <1>4, <1>5, <1>6, LocalUserData, RemoteUserData
        DEF Next, Program

-----------------------------------------------------------------------------
(* The theorems.                                                           *)

LEMMA NextBounds ==
    ASSUME BoundsOK, [Next]_vars
    PROVE  BoundsOK'
<1>1. CASE UNCHANGED bounds
  BY <1>1 DEF bounds, BoundsOK
<1>2. CASE LocalUser \/ RemoteUser
  <2>1. edits' = edits + 1 /\ UNCHANGED <<crashes, plans, stops>>
    BY <1>2 DEF LocalUser, RemoteUser, UserEdits, UserDeletes, UserCreates,
       UserRenames, RemoteEdits, RemoteTrashes, RemoteRestores, RemoteDeletes,
       RemoteMoves, LocalUserMay, UserMay
  <2> QED BY <2>1 DEF BoundsOK
<1>3. CASE MakePlan \/ Pause \/ CancelAll \/ Crash
  BY <1>3 DEF MakePlan, Pause, CancelAll, Crash, BoundsOK
<1>4. CASE \E id \in DOMAIN tasks : TaskStep(id)
  <2>1. UNCHANGED bounds
    <3> SUFFICES ASSUME NEW id, TaskStep(id) PROVE UNCHANGED bounds
      BY <1>4
    <3>1. CASE StepFails(id) \/ RemoteFails(id) \/ TransferFails(id)
      BY <3>1 DEF StepFails, RemoteFails, TransferFails, Quiet, StepFrame
    <3>2. CASE PrecheckPasses(id) \/ PrecheckSkips(id)
      BY <3>2 DEF PrecheckPasses, PrecheckSkips, Quiet, StepFrame
    <3>3. CASE Retry(id)
      BY <3>3 DEF Retry, RetryFindsLanded, RetryAgain, RetryThrows, Quiet,
         StepFrame
    <3>4. CASE Read(id) \/ CommitStep(id)
      BY <3>4 DEF Read, CommitStep, Quiet, StepFrame
    <3>5. CASE UploadNewFile(id) \/ UploadNewRevision(id)
      BY <3>5 DEF UploadNewFile, UploadNewRevision, Quiet, StepFrame
    <3>6. CASE DownloadPlace(id) \/ DownloadSwap(id)
      BY <3>6 DEF DownloadPlace, DownloadSwap, Quiet, StepFrame
    <3>7. CASE MoveLocalAct(id) \/ MoveRemoteAct(id)
      BY <3>7 DEF MoveLocalAct, MoveRemoteAct, Quiet, StepFrame
    <3>8. CASE RecycleLocalAct(id) \/ TrashRemoteAct(id)
      BY <3>8 DEF RecycleLocalAct, TrashRemoteAct, Quiet, StepFrame
    <3>9. CASE CreateRemoteFolderAct(id) \/ CreateLocalFolderAct(id)
      BY <3>9 DEF CreateRemoteFolderAct, CreateLocalFolderAct, Quiet, StepFrame
    <3> QED BY <3>1, <3>2, <3>3, <3>4, <3>5, <3>6, <3>7, <3>8, <3>9
            DEF TaskStep, Act
  <2> QED BY <1>1, <2>1
<1>5. CASE \E id \in DOMAIN journal : Recover(id)
  <2>1. UNCHANGED bounds
    BY <1>5 DEF Recover, RecoverUnstarted, RecoverCompleted, RecoverFailed,
       RecoverAbandoned, RecoverFrame
  <2> QED BY <1>1, <2>1
<1>6. CASE RecoveryDone \/ StartBatch \/ KeepBooks \/ StopEarly \/ UNCHANGED vars
  <2>1. UNCHANGED bounds
    BY <1>6 DEF RecoveryDone, StartBatch, KeepBooks, StopEarly, vars
  <2> QED BY <1>1, <2>1
<1> QED BY <1>2, <1>3, <1>4, <1>5, <1>6 DEF Next, Program

LEMMA InitInv == Init => Inv
<1> SUFFICES ASSUME Init PROVE Inv
  OBVIOUS
<1>1. PICK w \in Worlds : fs = w.fs /\ drive = w.drive /\ base = w.base
                          /\ clock = w.clock
  BY DEF Init
<1>2. DataInv
  BY <1>1, EmptyFacts, WorldsAssumption DEF Init, DataInv, DataOK, Fresh
<1>3. ControlInv
  BY EmptyFacts DEF Init, ControlInv, ControlOK, TasksJournaled, TasksFit,
     RecoveryAlone
<1>4. BoundsOK
  BY DEF Init, BoundsOK
<1> QED BY <1>2, <1>3, <1>4 DEF Inv

LEMMA NextInv == Inv /\ [Next]_vars => Inv'
<1> SUFFICES ASSUME Inv, [Next]_vars PROVE Inv'
  OBVIOUS
<1>1. DataInv' /\ ControlInv'
  BY NextData, NextControl DEF Inv
<1>2. BoundsOK'
  BY NextBounds DEF Inv
<1> QED BY <1>1, <1>2 DEF Inv

LEMMA SpecInv == Spec => []Inv
<1>1. Init => Inv
  BY InitInv
<1>2. Inv /\ [Next]_vars => Inv'
  BY NextInv
<1> QED BY <1>1, <1>2, PTL DEF Spec

\* Every state is well typed.
THEOREM TypeCorrect == Spec => []TypeOK
<1>1. Inv => TypeOK
  BY DEF Inv, DataInv, ControlInv, TypeOK
<1> QED BY <1>1, SpecInv, PTL

\* A running task always has a journal entry of its operation, and one that is
\* past its precheck has it in progress, whatever faults, crashes, users and
\* plans come in between.
THEOREM TasksAreJournaled == Spec => []TasksJournaled
<1>1. Inv => TasksJournaled
  BY DEF Inv, ControlInv
<1> QED BY <1>1, SpecInv, PTL
=============================================================================
