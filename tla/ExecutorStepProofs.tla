------------------------- MODULE ExecutorStepProofs -------------------------
(***************************************************************************)
(* What a step of Executor may do, for all values of its constants: every  *)
(* change that the program makes to the local tree or to the drive is      *)
(* announced by an entry in progress of the journal, and no change loses a *)
(* content.                                                                *)
(***************************************************************************)
EXTENDS ExecutorProofs

-----------------------------------------------------------------------------
(* What the operators on trees leave alone.                                *)

LEMMA UnderSelf ==
    ASSUME NEW p \in Path
    PROVE  Under(p, p)
  BY DEF Under, IsPrefix, Path

LEMMA UnderAncestor ==
    ASSUME NEW p \in Path, NEW a \in Ancestors(p)
    PROVE  Under(a, p)
<1>1. PICK n \in 1..(Len(p) - 1) : a = SubSeq(p, 1, n)
  BY DEF Ancestors
<1>2. p \in Seq(Names) /\ Len(p) \in Nat /\ n \in Nat /\ n <= Len(p)
  BY <1>1 DEF Path
<1>3. Len(a) = n /\ SubSeq(a, 1, n) = a
  BY <1>1, <1>2
<1> QED BY <1>1, <1>2, <1>3 DEF Under, IsPrefix

LEMMA MovedUnder ==
    ASSUME NEW q \in Path, NEW from \in Path, NEW to \in Path, Under(from, q)
    PROVE  Under(to, MovedPath(q, from, to))
<1> DEFINE tail == SubSeq(q, Len(from) + 1, Len(q))
<1>1. tail \in Seq(Names) /\ to \in Seq(Names)
  BY DEF Path
<1>2. MovedPath(q, from, to) = to \o tail
  BY DEF MovedPath
<1> HIDE DEF tail
<1>3. /\ Len(to) <= Len(to \o tail)
      /\ SubSeq(to \o tail, 1, Len(to)) = to /\ SubSeq(to, 1, Len(to)) = to
  BY <1>1
<1> QED BY <1>2, <1>3 DEF Under, IsPrefix

LEMMA ChangedByRemoval ==
    ASSUME NEW f, NEW p, NEW q \in Changed(f, RemoveTree(f, p))
    PROVE  Under(p, q)
  BY DEF Changed, RemoveTree

LEMMA ChangedByParents ==
    ASSUME NEW f, NEW p, NEW q \in Changed(f, WithParents(f, p))
    PROVE  q \in Ancestors(p)
  BY DEF Changed, WithParents

LEMMA ChangedByPut ==
    ASSUME NEW f, NEW p, NEW x, NEW q \in Changed(f, Put(f, p, x))
    PROVE  q = p
  BY DEF Changed, Put

LEMMA ChangedByMove ==
    ASSUME NEW f, DOMAIN f \subseteq Path, NEW from \in Path, NEW to \in Path,
           NEW p \in Changed(f, MoveTree(f, from, to)), p \in Path
    PROVE  Under(from, p) \/ Under(to, p)
<1> DEFINE g == MoveTree(f, from, to)
<1> SUFFICES ASSUME ~ Under(from, p), ~ Under(to, p) PROVE FALSE
  OBVIOUS
<1>1. \A q \in DOMAIN f : MovedPath(q, from, to) = p <=> q = p
  <2>1. MovedPath(p, from, to) = p
    BY DEF MovedPath
  <2>2. ASSUME NEW q \in DOMAIN f, MovedPath(q, from, to) = p PROVE q = p
    <3>1. ~ Under(from, q)
      BY <2>2, MovedUnder
    <3> QED BY <2>2, <3>1 DEF MovedPath
  <2> QED BY <2>1, <2>2
<1>2. DOMAIN g = {MovedPath(q, from, to) : q \in DOMAIN f}
  BY DEF MoveTree
<1>3. p \in DOMAIN g <=> p \in DOMAIN f
  BY <1>1, <1>2
<1>4. ASSUME p \in DOMAIN f PROVE g[p] = f[p]
  <2>1. p \in DOMAIN g
    BY <1>3, <1>4
  <2>2. g[p] = f[CHOOSE q \in DOMAIN f : MovedPath(q, from, to) = p]
    BY <1>2, <2>1 DEF MoveTree
  <2>3. (CHOOSE q \in DOMAIN f : MovedPath(q, from, to) = p) = p
    BY <1>1, <1>4
  <2> QED BY <2>2, <2>3
<1> QED BY <1>3, <1>4 DEF Changed

LEMMA ChangedInSteps ==
    ASSUME NEW f, NEW g, NEW h, NEW p \in Changed(f, h)
    PROVE  p \in Changed(f, g) \/ p \in Changed(g, h)
  BY DEF Changed

LEMMA Unchanged == \A f : Changed(f, f) = {}
  BY DEF Changed

-----------------------------------------------------------------------------
(* Every step that changes a side does what a begun operation says.        *)

LEMMA ActingBegun ==
    ASSUME ControlInv, NEW id \in DOMAIN tasks, tasks[id].pc \in Acting
    PROVE  tasks[id].op \in Begun
  BY DEF ControlInv, TasksJournaled, Begun

\* A step that changes the local tree only where its operation speaks of.
LEMMA LocallyAnnounced ==
    ASSUME NEW op \in Begun, drive' = drive,
           \A p \in Changed(fs, fs') : Speaks(op, p)
    PROVE  Announced
  BY Unchanged DEF Announced

\* A step that changes the node of its operation, or makes a new one.
LEMMA RemotelyAnnounced ==
    ASSUME NEW op \in Begun, fs' = fs,
           \A u \in Changed(drive, drive') :
               op.uid = u \/ (op.uid = None /\ u \notin DOMAIN drive)
    PROVE  Announced
  BY Unchanged DEF Announced

LEMMA NothingChanged ==
    ASSUME UNCHANGED <<fs, drive>>
    PROVE  Announced
  BY Unchanged DEF Announced

LEMMA RecycleSpeaks ==
    ASSUME NEW op, Recycle(op.path), NEW p \in Changed(fs, fs')
    PROVE  Speaks(op, p)
  BY ChangedByRemoval DEF Recycle, Speaks

LEMMA DownloadAnnounced ==
    ASSUME ControlInv, NEW id \in DOMAIN tasks,
           DownloadPlace(id) \/ DownloadSwap(id)
    PROVE  Announced
<1> DEFINE op == tasks[id].op
<1>1. op \in Begun /\ op.path \in Path /\ drive' = drive
  BY ActingBegun, TaskFacts DEF DownloadPlace, DownloadSwap, Able, Acting
<1>2. ASSUME NEW p \in Changed(fs, fs') PROVE Speaks(op, p)
  <2>1. CASE DownloadPlace(id) /\ op.lfp # None
    BY <1>2, <2>1, RecycleSpeaks DEF DownloadPlace
  <2>2. CASE DownloadPlace(id) /\ op.lfp = None
    <3>1. p \in Ancestors(op.path)
      BY <1>2, <2>2, ChangedByParents DEF DownloadPlace
    <3> QED BY <1>1, <3>1, UnderAncestor DEF Speaks
  <2>3. CASE DownloadSwap(id)
    <3>1. p = op.path
      BY <1>2, <2>3, ChangedByPut DEF DownloadSwap
    <3> QED BY <1>1, <3>1, UnderSelf DEF Speaks
  <2> QED BY <2>1, <2>2, <2>3
<1> QED BY <1>1, <1>2, LocallyAnnounced

LEMMA MoveLocalAnnounced ==
    ASSUME DataInv, ControlInv, NEW id \in DOMAIN tasks, MoveLocalAct(id)
    PROVE  Announced
<1> DEFINE op == tasks[id].op
           f == WithParents(fs, op.path)
           g == RemoveTree(f, op.path)
<1>1. /\ op \in Begun /\ op.path \in Path /\ drive' = drive
      /\ op \in Operation /\ op.kind = "move_local"
  BY ActingBegun, TaskFacts DEF MoveLocalAct, Able, Acting, Fits
<1>2. op.from \in Path /\ op.from # None
  BY <1>1 DEF Operation, MoveKinds
<1>3. fs' = MoveTree(g, op.from, op.path)
  BY DEF MoveLocalAct
<1>4. ItemsOK(fs) /\ clock \in Nat
  BY DEF DataInv, DataOK
<1>5. ItemsOK(f)
  BY <1>1, <1>4, ItemsKept
<1>6. ItemsOK(g)
  BY <1>1, <1>5, ItemsKept
<1>7. ItemsOK(fs')
  BY <1>1, <1>2, <1>3, <1>6, ItemsKept
<1>8. ASSUME NEW p \in Changed(fs, fs') PROVE Speaks(op, p)
  <2>1. p \in Path
    BY <1>4, <1>7, <1>8 DEF Changed, ItemsOK
  <2>2. p \in Changed(fs, f) \/ p \in Changed(f, g) \/ p \in Changed(g, fs')
    BY <1>8, ChangedInSteps
  <2>3. CASE p \in Changed(fs, f)
    <3>1. p \in Ancestors(op.path)
      BY <2>3, ChangedByParents
    <3> QED BY <1>1, <3>1, UnderAncestor DEF Speaks
  <2>4. CASE p \in Changed(f, g)
    BY <2>4, ChangedByRemoval DEF Speaks
  <2>5. CASE p \in Changed(g, fs')
    <3>1. Under(op.from, p) \/ Under(op.path, p)
      BY <1>1, <1>2, <1>3, <1>6, <2>1, <2>5, ChangedByMove DEF ItemsOK
    <3> QED BY <1>2, <3>1 DEF Speaks
  <2> QED BY <2>2, <2>3, <2>4, <2>5
<1> QED BY <1>1, <1>8, LocallyAnnounced

LEMMA RecycleAnnounced ==
    ASSUME ControlInv, NEW id \in DOMAIN tasks, RecycleLocalAct(id)
    PROVE  Announced
<1> DEFINE op == tasks[id].op
<1>1. op \in Begun /\ drive' = drive /\ Recycle(op.path)
  BY ActingBegun DEF RecycleLocalAct, Able, Acting
<1> QED BY <1>1, RecycleSpeaks, LocallyAnnounced

LEMMA LocalFolderAnnounced ==
    ASSUME ControlInv, NEW id \in DOMAIN tasks, CreateLocalFolderAct(id)
    PROVE  Announced
<1> DEFINE op == tasks[id].op
<1>1. op \in Begun /\ drive' = drive /\ op.path \in Path
  BY ActingBegun, TaskFacts DEF CreateLocalFolderAct, Able, Acting
<1>2. ASSUME NEW p \in Changed(fs, fs') PROVE p = op.path
  BY <1>2, ChangedByPut DEF CreateLocalFolderAct
<1>3. \A p \in Changed(fs, fs') : Speaks(op, p)
  BY <1>1, <1>2, UnderSelf DEF Speaks
<1> QED BY <1>1, <1>3, LocallyAnnounced

LEMMA NewNodeAnnounced ==
    ASSUME DataInv, ControlInv, NEW id \in DOMAIN tasks,
           UploadNewFile(id) \/ CreateRemoteFolderAct(id)
    PROVE  Announced
<1> DEFINE op == tasks[id].op
<1>1. /\ op \in Begun /\ op \in Operation /\ fs' = fs
      /\ Fits(op.kind, tasks[id].pc) /\ op.kind \in Kinds
  BY ActingBegun, TaskFacts DEF UploadNewFile, CreateRemoteFolderAct, Able, Acting
<1>2. op.uid = None
  <2>1. CASE UploadNewFile(id)
    BY <2>1 DEF UploadNewFile
  <2>2. CASE CreateRemoteFolderAct(id)
    BY <1>1, <2>2 DEF CreateRemoteFolderAct, Able, Fits, Operation
  <2> QED BY <2>1, <2>2
<1>3. clock + 1 \notin DOMAIN drive
  BY DEF DataInv, DataOK, Fresh
<1>4. ASSUME NEW u \in Changed(drive, drive') PROVE u = clock + 1
  BY <1>4, ChangedByPut DEF UploadNewFile, CreateRemoteFolderAct
<1> QED BY <1>1, <1>2, <1>3, <1>4, RemotelyAnnounced

LEMMA OldNodeAnnounced ==
    ASSUME DataInv, ControlInv, NEW id \in DOMAIN tasks,
           UploadNewRevision(id) \/ MoveRemoteAct(id) \/ TrashRemoteAct(id)
    PROVE  Announced
<1> DEFINE op == tasks[id].op
<1>1. op \in Begun /\ fs' = fs
  BY ActingBegun DEF UploadNewRevision, MoveRemoteAct, TrashRemoteAct, Able, Acting
<1>2. \A u \in Changed(drive, drive') : u = op.uid
  BY DEF UploadNewRevision, MoveRemoteAct, TrashRemoteAct, Changed
<1> QED BY <1>1, <1>2, RemotelyAnnounced

-----------------------------------------------------------------------------
LEMMA ActAnnounced ==
    ASSUME DataInv, ControlInv, NEW id \in DOMAIN tasks, Act(id)
    PROVE  Announced
<1>1. CASE Read(id) \/ CommitStep(id)
  BY <1>1, NothingChanged DEF Read, CommitStep, Quiet, sides
<1> QED BY <1>1, DownloadAnnounced, MoveLocalAnnounced, RecycleAnnounced,
           LocalFolderAnnounced, NewNodeAnnounced, OldNodeAnnounced DEF Act

LEMMA StepAnnounced ==
    ASSUME Inv, [Next]_vars, Toolstep
    PROVE  Announced
<1>1. CASE \E id \in DOMAIN tasks : TaskStep(id)
  <2>1. PICK id \in DOMAIN tasks : TaskStep(id)
    BY <1>1
  <2>2. CASE Act(id)
    BY <2>2, ActAnnounced DEF Inv
  <2>3. CASE ~ Act(id)
    BY <2>1, <2>3, NothingChanged DEF TaskStep, StepFails, RemoteFails,
       TransferFails, PrecheckPasses, PrecheckSkips, Retry, RetryFindsLanded,
       RetryAgain, RetryThrows, Quiet, sides
  <2> QED BY <2>2, <2>3
<1>2. CASE \E id \in DOMAIN journal : Recover(id)
  BY <1>2, NothingChanged DEF Recover, RecoverUnstarted, RecoverCompleted,
     RecoverFailed, RecoverAbandoned, RecoverFrame, sides
<1>3. CASE RecoveryDone \/ StartBatch \/ KeepBooks \/ StopEarly \/ MakePlan
           \/ Pause \/ CancelAll \/ Crash \/ UNCHANGED vars
  BY <1>3, NothingChanged DEF RecoveryDone, StartBatch, KeepBooks, StopEarly,
     MakePlan, Pause, CancelAll, Crash, vars, sides
<1>4. CASE LocalUser \/ RemoteUser
  <2>1. edits' = edits + 1 /\ edits \in Nat
    BY <1>4 DEF Inv, BoundsOK, LocalUser, RemoteUser, UserEdits, UserDeletes,
       UserCreates, UserRenames, RemoteEdits, RemoteTrashes, RemoteRestores,
       RemoteDeletes, RemoteMoves, LocalUserMay, UserMay
  <2> QED BY <2>1 DEF Toolstep
<1> QED BY <1>1, <1>2, <1>3, <1>4 DEF Next, Program

\* Whatever a step of the program changes on either side, an entry in progress
\* of the journal announces: with any faults, users, crashes and plans, a
\* restart knows of every mutation that may have been made (execute() of
\* executor.ts; ARCHITECTURE.md invariant 3).
THEOREM JournalIsWrittenAhead == Spec => WriteAhead
<1>1. Inv /\ [Next]_vars => [Toolstep => Announced]_vars
  BY StepAnnounced
<1> QED BY <1>1, SpecInv, PTL DEF Spec, WriteAhead

-----------------------------------------------------------------------------
(* Prefixes of paths.                                                      *)

LEMMA UnderMeans ==
    ASSUME NEW p \in Path, NEW q \in Path
    PROVE  Under(p, q) <=> /\ Len(p) <= Len(q)
                           /\ \A i \in 1..Len(p) : p[i] = q[i]
<1>1. /\ p \in Seq(Names) /\ q \in Seq(Names)
      /\ Len(p) \in Nat /\ Len(q) \in Nat
  BY DEF Path
<1>2. SubSeq(p, 1, Len(p)) = p
  BY <1>1
<1>3. ASSUME Len(p) <= Len(q)
      PROVE  p = SubSeq(q, 1, Len(p)) <=> \A i \in 1..Len(p) : p[i] = q[i]
  BY <1>1, <1>3
<1> QED BY <1>1, <1>2, <1>3 DEF Under, IsPrefix

LEMMA AncestorMeans ==
    ASSUME NEW p \in Path, NEW a
    PROVE  a \in Ancestors(p) <=> a \in Path /\ Under(a, p) /\ Len(a) < Len(p)
<1>0. p \in Seq(Names) /\ Len(p) \in Nat
  BY DEF Path
<1>1. ASSUME a \in Ancestors(p)
      PROVE  a \in Path /\ Under(a, p) /\ Len(a) < Len(p)
  <2>1. PICK n \in 1..(Len(p) - 1) : a = SubSeq(p, 1, n)
    BY <1>1 DEF Ancestors
  <2>2. a \in Seq(Names) /\ Len(a) = n /\ n \in Nat /\ n # 0
    BY <1>0, <2>1
  <2> QED BY <1>0, <1>1, <2>1, <2>2, UnderAncestor DEF Path
<1>2. ASSUME a \in Path, Under(a, p), Len(a) < Len(p)
      PROVE  a \in Ancestors(p)
  <2>1. a \in Seq(Names) /\ Len(a) \in Nat /\ Len(a) # 0
    BY <1>2 DEF Path
  <2>2. a = SubSeq(p, 1, Len(a))
    BY <1>2, <2>1 DEF Under, IsPrefix
  <2>3. Len(a) \in 1..(Len(p) - 1)
    BY <1>0, <1>2, <2>1
  <2> QED BY <2>2, <2>3 DEF Ancestors
<1> QED BY <1>1, <1>2

LEMMA LengthOfPath == \A p \in Path : Len(p) \in Nat /\ Len(p) >= 1
  BY DEF Path

LEMMA UnderTransitive ==
    ASSUME NEW p \in Path, NEW q \in Path, NEW r \in Path,
           Under(p, q), Under(q, r)
    PROVE  Under(p, r)
  BY UnderMeans, LengthOfPath

\* Two paths above a third one are above one another.
LEMMA UnderSome ==
    ASSUME NEW p \in Path, NEW q \in Path, NEW r \in Path,
           Under(p, r), Under(q, r)
    PROVE  Under(p, q) \/ Under(q, p)
  BY UnderMeans, LengthOfPath

\* What a moved path is made of.
LEMMA MovedParts ==
    ASSUME NEW q \in Path, NEW from \in Path, NEW to \in Path, Under(from, q)
    PROVE  LET m == MovedPath(q, from, to) IN
           /\ m \in Path /\ Under(to, m)
           /\ Len(m) = Len(to) + Len(q) - Len(from)
           /\ \A i \in 1..Len(to) : m[i] = to[i]
           /\ \A i \in 1..(Len(q) - Len(from)) :
                  m[Len(to) + i] = q[Len(from) + i]
<1> DEFINE tail == SubSeq(q, Len(from) + 1, Len(q))
<1>1. /\ from \in Seq(Names) /\ to \in Seq(Names) /\ q \in Seq(Names)
      /\ Len(from) \in Nat /\ Len(to) \in Nat /\ Len(q) \in Nat
  BY DEF Path
<1>2. Len(from) <= Len(q)
  BY UnderMeans
<1>3. /\ tail \in Seq(Names) /\ Len(tail) = Len(q) - Len(from)
      /\ \A i \in 1..(Len(q) - Len(from)) : tail[i] = q[Len(from) + i]
  BY <1>1, <1>2
<1>4. MovedPath(q, from, to) = to \o tail
  BY DEF MovedPath
<1> HIDE DEF tail
<1>5. Len(to \o tail) = Len(to) + Len(tail)
  <2>1. to \in Seq(Names) /\ tail \in Seq(Names)
    BY <1>1, <1>3
  <2> QED BY <2>1
<1>6. \A i \in 1..Len(to) : (to \o tail)[i] = to[i]
  BY <1>1, <1>3
<1>7. \A i \in 1..Len(tail) : (to \o tail)[Len(to) + i] = tail[i]
  BY <1>1, <1>3
<1> QED BY <1>3, <1>4, <1>5, <1>6, <1>7, MovedPathType, MovedUnder

\* Two places that the move brings to one are one: nothing is at the target.
LEMMA MovedApart ==
    ASSUME NEW q \in Path, NEW r \in Path, NEW from \in Path, NEW to \in Path,
           ~ Under(to, q), ~ Under(to, r),
           MovedPath(q, from, to) = MovedPath(r, from, to)
    PROVE  q = r
<1>1. CASE Under(from, q) /\ Under(from, r)
  <2>0. /\ Len(MovedPath(q, from, to)) = Len(to) + Len(q) - Len(from)
        /\ Len(MovedPath(r, from, to)) = Len(to) + Len(r) - Len(from)
    BY <1>1, MovedParts
  <2>5. /\ Len(q) \in Nat /\ Len(r) \in Nat
        /\ Len(from) \in Nat /\ Len(to) \in Nat
    BY LengthOfPath
  <2>6. Len(q) = Len(r)
    BY <2>0, <2>5
  <2>1. q \in Seq(Names) /\ r \in Seq(Names) /\ Len(q) = Len(r)
    <3>1. q \in Seq(Names) /\ r \in Seq(Names)
      BY DEF Path
    <3> QED BY <2>6, <3>1
  <2>2. /\ \A i \in 1..Len(from) : q[i] = from[i] /\ r[i] = from[i]
        /\ Len(from) <= Len(q)
    BY <1>1, UnderMeans
  <2>3. \A i \in 1..(Len(q) - Len(from)) : q[Len(from) + i] = r[Len(from) + i]
    <3>1. \A i \in 1..(Len(q) - Len(from)) :
              MovedPath(q, from, to)[Len(to) + i] = q[Len(from) + i]
      BY <1>1, MovedParts
    <3>2. \A i \in 1..(Len(r) - Len(from)) :
              MovedPath(r, from, to)[Len(to) + i] = r[Len(from) + i]
      BY <1>1, MovedParts
    <3> QED BY <2>1, <3>1, <3>2
  <2>4. ASSUME NEW i \in 1..Len(q) PROVE q[i] = r[i]
    <3>1. CASE i <= Len(from)
      BY <2>2, <3>1, LengthOfPath
    <3>2. CASE i > Len(from)
      <4>1. i - Len(from) \in 1..(Len(q) - Len(from))
        BY <3>2, LengthOfPath
      <4>2. q[Len(from) + (i - Len(from))] = r[Len(from) + (i - Len(from))]
        BY <2>3, <4>1
      <4>3. Len(from) + (i - Len(from)) = i
        BY LengthOfPath
      <4> QED BY <4>2, <4>3
    <3> QED BY <3>1, <3>2, LengthOfPath
  <2> QED BY <2>1, <2>4
<1>2. CASE ~ Under(from, q) /\ ~ Under(from, r)
  BY <1>2 DEF MovedPath
<1>3. CASE Under(from, q) /\ ~ Under(from, r)
  <2>1. MovedPath(r, from, to) = r
    BY <1>3 DEF MovedPath
  <2>2. Under(to, MovedPath(q, from, to))
    BY <1>3, MovedUnder
  <2> QED BY <2>1, <2>2
<1>4. CASE ~ Under(from, q) /\ Under(from, r)
  <2>1. MovedPath(q, from, to) = q
    BY <1>4 DEF MovedPath
  <2>2. Under(to, MovedPath(r, from, to))
    BY <1>4, MovedUnder
  <2> QED BY <2>1, <2>2
<1> QED BY <1>1, <1>2, <1>3, <1>4

\* What is above a moved path is above the target, or was moved too.
LEMMA MovedAncestor ==
    ASSUME NEW q \in Path, NEW from \in Path, NEW to \in Path, Under(from, q),
           NEW a \in Ancestors(MovedPath(q, from, to))
    PROVE  \/ a \in Ancestors(to)
           \/ \E b \in Ancestors(q) :
                  Under(from, b) /\ a = MovedPath(b, from, to)
<1> DEFINE m == MovedPath(q, from, to)
<1>1. /\ m \in Path /\ Under(to, m) /\ Len(m) = Len(to) + Len(q) - Len(from)
      /\ \A i \in 1..Len(to) : m[i] = to[i]
      /\ \A i \in 1..(Len(q) - Len(from)) : m[Len(to) + i] = q[Len(from) + i]
  BY MovedParts
<1>2. a \in Path /\ Under(a, m) /\ Len(a) < Len(m)
  BY <1>1, AncestorMeans
<1> HIDE DEF m
<1>3. CASE Len(a) < Len(to)
  <2>1. Under(a, to)
    BY <1>1, <1>2, <1>3, UnderSome, UnderMeans, LengthOfPath
  <2> QED BY <1>2, <1>3, <2>1, AncestorMeans
<1>4. CASE Len(a) >= Len(to)
  <2> DEFINE n == Len(from) + Len(a) - Len(to)
             b == SubSeq(q, 1, n)
  <2>1. /\ n \in Nat /\ n >= 1 /\ n < Len(q) /\ Len(from) <= n
    BY <1>1, <1>2, <1>4, LengthOfPath
  <2>10. n = Len(from) + Len(a) - Len(to)
    OBVIOUS
  <2> HIDE DEF n
  <2>9. n \in 1..(Len(q) - 1)
    BY <2>1, LengthOfPath
  <2>2. b \in Ancestors(q)
    BY <2>9 DEF Ancestors
  <2>3. b \in Path /\ Len(b) = n /\ \A i \in 1..n : b[i] = q[i]
    <3>1. b \in Path
      BY <2>2, PathFacts
    <3>2. q \in Seq(Names) /\ n \in 1..Len(q)
      BY <2>9, LengthOfPath DEF Path
    <3>3. Len(b) = n /\ \A i \in 1..n : b[i] = q[i]
      BY <3>2
    <3> QED BY <3>1, <3>3
  <2> HIDE DEF b
  <2>4. Under(from, b)
    BY <2>1, <2>3, UnderMeans, LengthOfPath
  <2> DEFINE c == MovedPath(b, from, to)
  <2>5. /\ c \in Path /\ Len(c) = Len(to) + n - Len(from)
        /\ \A i \in 1..Len(to) : c[i] = to[i]
        /\ \A i \in 1..(n - Len(from)) : c[Len(to) + i] = b[Len(from) + i]
    BY <2>3, <2>4, MovedParts
  <2> HIDE DEF c
  <2>6. Len(c) = Len(a)
    BY <1>2, <2>1, <2>5, <2>10, LengthOfPath
  <2>7. ASSUME NEW i \in 1..Len(a) PROVE a[i] = c[i]
    <3>1. a[i] = m[i]
      BY <1>1, <1>2, UnderMeans
    <3>2. CASE i <= Len(to)
      BY <1>1, <2>5, <3>1, <3>2, LengthOfPath
    <3>3. CASE i > Len(to)
      <4> DEFINE k == i - Len(to)
      <4>1. /\ k \in 1..(n - Len(from)) /\ k \in 1..(Len(q) - Len(from))
            /\ Len(to) + k = i /\ Len(from) + k \in 1..n
        BY <1>1, <1>2, <2>1, <2>10, <3>3, LengthOfPath
      <4> HIDE DEF k
      <4>2. m[Len(to) + k] = q[Len(from) + k]
        BY <1>1, <4>1
      <4>3. c[Len(to) + k] = b[Len(from) + k]
        BY <2>5, <4>1
      <4>4. b[Len(from) + k] = q[Len(from) + k]
        BY <2>3, <4>1
      <4> QED BY <3>1, <4>1, <4>2, <4>3, <4>4
    <3> QED BY <3>2, <3>3, LengthOfPath
  <2>8. a = c
    BY <1>2, <2>5, <2>6, <2>7 DEF Path
  <2> QED BY <2>2, <2>4, <2>8 DEF c
<1> QED BY <1>2, <1>3, <1>4, LengthOfPath

-----------------------------------------------------------------------------
(* Trees stay trees, and what a change leaves free.                        *)

\* What is in the tree f is in folders that are in it.
Rooted(f) == \A p \in DOMAIN f : Ancestors(p) \subseteq DOMAIN f

\* Nothing is at p, or below it.
FreeAt(f, p) == \A q \in DOMAIN f : ~ Under(p, q)

Data(f) == {f[p].data : p \in DOMAIN f}

LEMMA AbsentIsFree ==
    ASSUME NEW f, DOMAIN f \subseteq Path, Rooted(f), NEW p \in Path,
           p \notin DOMAIN f
    PROVE  FreeAt(f, p)
<1> SUFFICES ASSUME NEW q \in DOMAIN f, Under(p, q) PROVE FALSE
  BY DEF FreeAt
<1>1. Len(p) <= Len(q) /\ \A i \in 1..Len(p) : p[i] = q[i]
  BY UnderMeans
<1>2. CASE Len(p) < Len(q)
  BY <1>2, AncestorMeans DEF Rooted
<1>3. CASE Len(p) = Len(q)
  <2>1. p \in Seq(Names) /\ q \in Seq(Names)
    BY DEF Path
  <2>2. p = q
    BY <1>1, <1>3, <2>1
  <2> QED BY <2>2
<1> QED BY <1>1, <1>2, <1>3, LengthOfPath

LEMMA RemovalOf ==
    ASSUME NEW f, DOMAIN f \subseteq Path, Rooted(f), NEW p \in Path
    PROVE  /\ Rooted(RemoveTree(f, p)) /\ FreeAt(RemoveTree(f, p), p)
           /\ DOMAIN RemoveTree(f, p) \subseteq DOMAIN f
           /\ \A q \in DOMAIN f : ~ Under(p, q) =>
                  q \in DOMAIN RemoveTree(f, p) /\ RemoveTree(f, p)[q] = f[q]
<1> DEFINE g == RemoveTree(f, p)
<1>1. DOMAIN g = {q \in DOMAIN f : ~ Under(p, q)}
  BY DEF RemoveTree
<1>2. ASSUME NEW q \in DOMAIN g, NEW a \in Ancestors(q) PROVE a \in DOMAIN g
  <2>1. q \in DOMAIN f /\ q \in Path /\ ~ Under(p, q) /\ a \in DOMAIN f
    BY <1>1, <1>2 DEF Rooted
  <2>2. a \in Path /\ Under(a, q)
    BY <2>1, <1>2, AncestorMeans
  <2>3. ~ Under(p, a)
    BY <2>1, <2>2, UnderTransitive
  <2> QED BY <1>1, <2>1, <2>3
<1>3. \A q \in DOMAIN f : ~ Under(p, q) => g[q] = f[q]
  BY DEF RemoveTree
<1> QED BY <1>1, <1>2, <1>3 DEF Rooted, FreeAt

LEMMA ParentsOf ==
    ASSUME NEW f, DOMAIN f \subseteq Path, Rooted(f), NEW p \in Path
    PROVE  /\ Rooted(WithParents(f, p))
           /\ DOMAIN WithParents(f, p) = DOMAIN f \cup Ancestors(p)
           /\ \A q \in DOMAIN f : WithParents(f, p)[q] = f[q]
<1> DEFINE g == WithParents(f, p)
<1>1. DOMAIN g = DOMAIN f \cup Ancestors(p) /\ \A q \in DOMAIN f : g[q] = f[q]
  BY DEF WithParents
<1>2. ASSUME NEW q \in Ancestors(p), NEW a \in Ancestors(q) PROVE a \in Ancestors(p)
  <2>1. q \in Path /\ Under(q, p) /\ Len(q) < Len(p)
    BY AncestorMeans
  <2>2. a \in Path /\ Under(a, q) /\ Len(a) < Len(q)
    BY <2>1, AncestorMeans
  <2>3. Under(a, p) /\ Len(a) < Len(p)
    BY <2>1, <2>2, UnderTransitive, LengthOfPath
  <2> QED BY <2>2, <2>3, AncestorMeans
<1> QED BY <1>1, <1>2 DEF Rooted

LEMMA PuttingAt ==
    ASSUME NEW f, Rooted(f), NEW p, Ancestors(p) \subseteq DOMAIN f, NEW x
    PROVE  Rooted(Put(f, p, x))
  BY DEF Rooted, Put

LEMMA MovingTo ==
    ASSUME NEW f, DOMAIN f \subseteq Path, Rooted(f), NEW from \in Path,
           NEW to \in Path, ~ Under(from, to), Ancestors(to) \subseteq DOMAIN f
    PROVE  Rooted(MoveTree(f, from, to))
<1> DEFINE g == MoveTree(f, from, to)
<1>1. DOMAIN g = {MovedPath(q, from, to) : q \in DOMAIN f}
  BY DEF MoveTree
<1>2. ASSUME NEW a \in DOMAIN f, a \in Path, ~ Under(from, a) PROVE a \in DOMAIN g
  BY <1>1, <1>2 DEF MovedPath
<1>3. ASSUME NEW a \in Ancestors(to) PROVE a \in DOMAIN g
  <2>1. a \in Path /\ Under(a, to) /\ a \in DOMAIN f
    BY <1>3, AncestorMeans
  <2> QED BY <1>2, <2>1, UnderTransitive
<1> HIDE DEF g
<1>4. ASSUME NEW q \in DOMAIN f, NEW a \in Ancestors(MovedPath(q, from, to))
      PROVE  a \in DOMAIN g
  <2>1. CASE Under(from, q)
    <3>1. a \in Ancestors(to) \/ \E b \in Ancestors(q) : a = MovedPath(b, from, to)
      BY <1>4, <2>1, MovedAncestor
    <3>2. Ancestors(q) \subseteq DOMAIN f
      BY DEF Rooted
    <3> QED BY <1>1, <1>3, <3>1, <3>2
  <2>2. CASE ~ Under(from, q)
    <3>1. a \in Ancestors(q) /\ q \in Path
      BY <1>4, <2>2 DEF MovedPath
    <3>2. a \in Path /\ Under(a, q) /\ a \in DOMAIN f
      BY <3>1, AncestorMeans DEF Rooted
    <3>3. ~ Under(from, a)
      BY <2>2, <3>1, <3>2, UnderTransitive
    <3> QED BY <1>2, <3>2, <3>3
  <2> QED BY <2>1, <2>2
<1>5. Rooted(g)
  BY <1>1, <1>4 DEF Rooted
<1> QED BY <1>5 DEF g

\* A move to where nothing is keeps every content.
LEMMA MovingKeeps ==
    ASSUME NEW f, DOMAIN f \subseteq Path, NEW from \in Path, NEW to \in Path,
           FreeAt(f, to)
    PROVE  Data(f) \subseteq Data(MoveTree(f, from, to))
<1> DEFINE g == MoveTree(f, from, to)
<1> SUFFICES ASSUME NEW q \in DOMAIN f
             PROVE  \E p \in DOMAIN g : g[p].data = f[q].data
  BY DEF Data
<1> DEFINE p == MovedPath(q, from, to)
           c == CHOOSE r \in DOMAIN f : MovedPath(r, from, to) = p
<1>1. p \in DOMAIN g /\ g[p] = f[c]
  BY DEF MoveTree
<1>2. c \in DOMAIN f /\ MovedPath(c, from, to) = p
  OBVIOUS
<1> HIDE DEF c
<1>3. c = q
  BY <1>2, MovedApart DEF FreeAt
<1> QED BY <1>1, <1>3

-----------------------------------------------------------------------------
(* What a step of a task does to the local tree.                           *)

\* A change at o leaves free what has nothing to do with o.
LeavesFree(o) ==
    \A p \in Path : ~ Under(p, o) /\ ~ Under(o, p) /\ FreeAt(fs, p)
                        => FreeAt(fs', p)

FsFacts(o) == Rooted(fs') /\ LeavesFree(o)

LEMMA TreeFacts ==
    ASSUME DataInv, Rooted(fs)
    PROVE  DOMAIN fs \subseteq Path
  BY DEF DataInv, DataOK, ItemsOK

LEMMA RecyclingTree ==
    ASSUME DataInv, Rooted(fs), NEW o \in Path, Recycle(o)
    PROVE  FsFacts(o) /\ FreeAt(fs', o)
<1>1. Rooted(fs') /\ FreeAt(fs', o) /\ DOMAIN fs' \subseteq DOMAIN fs
  BY TreeFacts, RemovalOf DEF Recycle
<1> QED BY <1>1 DEF FsFacts, LeavesFree, FreeAt

LEMMA ParentsTree ==
    ASSUME DataInv, Rooted(fs), NEW o \in Path, fs' = WithParents(fs, o)
    PROVE  FsFacts(o) /\ (FreeAt(fs, o) => FreeAt(fs', o))
<1>1. Rooted(fs') /\ DOMAIN fs' = DOMAIN fs \cup Ancestors(o)
  BY TreeFacts, ParentsOf
<1>2. ASSUME NEW p \in Path, FreeAt(fs, p), NEW q \in DOMAIN fs', Under(p, q)
      PROVE  Under(p, o) /\ p # o
  <2>1. q \in Ancestors(o)
    BY <1>1, <1>2 DEF FreeAt
  <2>2. q \in Path /\ Under(q, o) /\ Len(q) < Len(o)
    BY <2>1, AncestorMeans
  <2>3. Len(p) <= Len(q)
    BY <1>2, <2>2, UnderMeans
  <2> QED BY <1>2, <2>2, <2>3, UnderTransitive, LengthOfPath
<1>3. LeavesFree(o)
  BY <1>2 DEF LeavesFree, FreeAt
<1>4. FreeAt(fs, o) => FreeAt(fs', o)
  BY <1>2 DEF FreeAt
<1> QED BY <1>1, <1>3, <1>4 DEF FsFacts

LEMMA PuttingTree ==
    ASSUME DataInv, Rooted(fs), NEW o \in Path, Ancestors(o) \subseteq DOMAIN fs,
           NEW x, fs' = Put(fs, o, x)
    PROVE  FsFacts(o)
<1>1. Rooted(fs') /\ DOMAIN fs' = DOMAIN fs \cup {o}
  BY PuttingAt DEF Put
<1> QED BY <1>1 DEF FsFacts, LeavesFree, FreeAt

LEMMA SlidingTree ==
    ASSUME DataInv, Rooted(fs), NEW o \in Path, NEW from \in Path,
           ~ Under(from, o),
           fs' = MoveTree(RemoveTree(WithParents(fs, o), o), from, o)
    PROVE  FsFacts(o)
<1> DEFINE f == WithParents(fs, o)
           g == RemoveTree(f, o)
<1>1. /\ DOMAIN fs \subseteq Path /\ Rooted(f)
      /\ DOMAIN f = DOMAIN fs \cup Ancestors(o) /\ DOMAIN f \subseteq Path
  BY TreeFacts, ParentsOf, PathFacts
<1> HIDE DEF f
<1>2. /\ Rooted(g) /\ DOMAIN g \subseteq DOMAIN f
      /\ \A q \in DOMAIN f : ~ Under(o, q) => q \in DOMAIN g
  BY <1>1, RemovalOf
<1>3. ASSUME NEW a \in Ancestors(o) PROVE a \in DOMAIN g
  <2>1. a \in Path /\ Len(a) < Len(o) /\ a \in DOMAIN f
    BY <1>1, AncestorMeans
  <2>2. ~ Under(o, a)
    BY <2>1, UnderMeans, LengthOfPath
  <2> QED BY <1>2, <2>1, <2>2
<1>4. fs' = MoveTree(g, from, o) /\ DOMAIN g \subseteq Path
  BY <1>1, <1>2 DEF f
<1> HIDE DEF g
<1>5. Rooted(fs')
  BY <1>2, <1>3, <1>4, MovingTo
<1>6. DOMAIN fs' = {MovedPath(q, from, o) : q \in DOMAIN g}
  BY <1>4 DEF MoveTree
<1>7. ASSUME NEW p \in Path, ~ Under(p, o), ~ Under(o, p), FreeAt(fs, p),
             NEW m \in DOMAIN fs', Under(p, m)
      PROVE  FALSE
  <2>1. PICK q \in DOMAIN g : m = MovedPath(q, from, o)
    BY <1>6
  <2>2. CASE Under(from, q)
    <3>1. m \in Path /\ Under(o, m)
      BY <1>4, <2>1, <2>2, MovedParts
    <3> QED BY <1>7, <3>1, UnderSome
  <2>3. CASE ~ Under(from, q)
    <3>1. m = q /\ m \in DOMAIN fs \cup Ancestors(o)
      BY <1>1, <1>2, <2>1, <2>3 DEF MovedPath
    <3>2. m \notin DOMAIN fs
      BY <1>7 DEF FreeAt
    <3>3. m \in Path /\ Under(m, o)
      BY <3>1, <3>2, AncestorMeans
    <3> QED BY <1>7, <3>3, UnderTransitive
  <2> QED BY <2>2, <2>3
<1>8. LeavesFree(o)
  BY <1>7 DEF LeavesFree, FreeAt
<1> QED BY <1>5, <1>8 DEF FsFacts

-----------------------------------------------------------------------------
(* The tasks that are about to rename something to their target.           *)

Landing == {"slide", "swap"}

\* A step of task id changes no other task.
Others(id) ==
    \A i \in DOMAIN tasks' : i # id => i \in DOMAIN tasks /\ tasks'[i] = tasks[i]

\* Task id goes on with its operation; if it is about to rename now, the target
\* is free.
OwnFree(id) ==
    id \in DOMAIN tasks' =>
        /\ tasks'[id].op = tasks[id].op
        /\ tasks'[id].pc \in Landing => FreeAt(fs', tasks[id].op.path)

LEMMA ProceedsTo ==
    ASSUME ControlInv, NEW id \in DOMAIN tasks, NEW pc, NEW hold,
           Proceed(id, pc, hold)
    PROVE  /\ Others(id) /\ (pc \notin Landing => OwnFree(id))
           /\ tasks'[id].op = tasks[id].op
<1>1. /\ DOMAIN tasks' = DOMAIN tasks
      /\ \A i \in DOMAIN tasks : i # id => tasks'[i] = tasks[i]
      /\ tasks'[id].pc = pc /\ tasks'[id].op = tasks[id].op
  BY DEF Proceed, Go, ControlInv, ControlOK, Task
<1> QED BY <1>1 DEF Others, OwnFree

LEMMA ForgetsIt ==
    ASSUME NEW id \in DOMAIN tasks, tasks' = Forget(tasks, id)
    PROVE  Others(id) /\ OwnFree(id)
  BY DEF Others, OwnFree, Forget

LEMMA RaisesIt ==
    ASSUME ControlInv, NEW id \in DOMAIN tasks, NEW e, Raise(id, e)
    PROVE  Others(id) /\ OwnFree(id)
<1>1. "retry" \notin Landing
  BY DEF Landing
<1> QED BY <1>1, ProceedsTo, ForgetsIt DEF Raise, Finish

LEMMA RepliesWith ==
    ASSUME ControlInv, NEW id \in DOMAIN tasks, NEW pc, NEW hold,
           pc \notin Landing, Reply(id, pc, hold)
    PROVE  Others(id) /\ OwnFree(id)
  BY ProceedsTo, RaisesIt DEF Reply

\* The local tree stays as it is.
LEMMA SameTree ==
    ASSUME Rooted(fs), fs' = fs, NEW o
    PROVE  FsFacts(o)
  BY DEF FsFacts, LeavesFree, Rooted, FreeAt

StepFacts(id) == FsFacts(tasks[id].op.path) /\ Others(id) /\ OwnFree(id)

LEMMA DownloadFacts ==
    ASSUME DataInv, ControlInv, Rooted(fs), NEW id \in DOMAIN tasks,
           DownloadPlace(id) \/ DownloadSwap(id)
    PROVE  StepFacts(id)
<1> DEFINE t == tasks[id]
           o == t.op.path
<1>1. /\ o \in Path /\ t.op.kind = "download" /\ Errors(t) = {}
      /\ t.pc \in {"place", "swap"} /\ t.pc \in Acting
  BY TaskFacts DEF DownloadPlace, DownloadSwap, Able, Fits, Acting
<1>2. DownloadErrors(t) = {}
  BY <1>1 DEF Errors, MoveKinds
<1>3. CASE DownloadPlace(id)
  <2>1. Others(id) /\ tasks'[id].op = t.op
    BY <1>3, ProceedsTo DEF DownloadPlace
  <2>2. FsFacts(o) /\ FreeAt(fs', o)
    <3>1. CASE t.op.lfp # None
      BY <1>1, <1>3, <3>1, RecyclingTree DEF DownloadPlace
    <3>2. CASE t.op.lfp = None
      <4>1. LocalMatches(o, t.op.lfp)
        BY <1>1, <1>3, DownloadClear DEF DownloadPlace, Able
      <4>2. o \notin DOMAIN fs
        BY <3>2, <4>1 DEF LocalMatches
      <4>3. FreeAt(fs, o)
        BY <1>1, <4>2, TreeFacts, AbsentIsFree
      <4>4. fs' = WithParents(fs, o)
        BY <1>3, <3>2 DEF DownloadPlace
      <4> QED BY <1>1, <4>3, <4>4, ParentsTree
    <3> QED BY <3>1, <3>2
  <2> QED BY <2>1, <2>2 DEF StepFacts, OwnFree
<1>4. CASE DownloadSwap(id)
  <2>1. Others(id) /\ OwnFree(id)
    <3>1. "record" \notin Landing
      BY DEF Landing
    <3> QED BY <1>4, <3>1, ProceedsTo DEF DownloadSwap
  <2>2. t.pc = "swap"
    BY <1>4 DEF DownloadSwap, Able
  <2>3. Ancestors(o) \subseteq DOMAIN fs
    BY <1>2, <2>2 DEF DownloadErrors, When, Housed
  <2>4. FsFacts(o)
    BY <1>1, <1>4, <2>3, PuttingTree DEF DownloadSwap
  <2> QED BY <2>1, <2>4 DEF StepFacts
<1> QED BY <1>3, <1>4

LEMMA SlideFacts ==
    ASSUME DataInv, ControlInv, Rooted(fs), NEW id \in DOMAIN tasks,
           MoveLocalAct(id)
    PROVE  StepFacts(id)
<1> DEFINE t == tasks[id]
           o == t.op.path
<1>1. /\ o \in Path /\ t.op.kind = "move_local" /\ t.op \in Operation
      /\ Errors(t) = {} /\ t.pc = "slide" /\ t.pc \in Acting
  BY TaskFacts DEF MoveLocalAct, Able, Fits, Acting
<1>2. t.op.from \in Path
  BY <1>1 DEF Operation, MoveKinds
<1>3. ~ Under(t.op.from, o)
  <2>1. MoveErrors(t) = {}
    BY <1>1 DEF Errors, MoveKinds, TransferKinds
  <2> QED BY <1>1, <2>1 DEF MoveErrors, When
<1>4. FsFacts(o)
  BY <1>1, <1>2, <1>3, SlidingTree DEF MoveLocalAct
<1>5. Others(id) /\ OwnFree(id)
  <2>1. "settle" \notin Landing
    BY DEF Landing
  <2> QED BY <2>1, ProceedsTo DEF MoveLocalAct
<1> QED BY <1>4, <1>5 DEF StepFacts

LEMMA LocalFacts ==
    ASSUME DataInv, ControlInv, Rooted(fs), NEW id \in DOMAIN tasks,
           RecycleLocalAct(id) \/ CreateLocalFolderAct(id)
    PROVE  StepFacts(id)
<1> DEFINE t == tasks[id]
           o == t.op.path
<1>1. /\ o \in Path /\ t.op.kind \notin MoveKinds \cup TransferKinds
      /\ Errors(t) = {} /\ t.pc \in Acting
  BY TaskFacts DEF RecycleLocalAct, CreateLocalFolderAct, Able, Fits, Acting,
     MoveKinds, TransferKinds
<1>2. Others(id) /\ OwnFree(id)
  <2>1. "commit" \notin Landing
    BY DEF Landing
  <2> QED BY <2>1, ProceedsTo DEF RecycleLocalAct, CreateLocalFolderAct
<1>3. CASE RecycleLocalAct(id)
  BY <1>1, <1>2, <1>3, RecyclingTree DEF RecycleLocalAct, StepFacts
<1>4. CASE CreateLocalFolderAct(id)
  <2>1. OtherErrors(t) = {} /\ t.pc = "mkdir"
    BY <1>1, <1>4 DEF Errors, MoveKinds, TransferKinds, CreateLocalFolderAct, Able
  <2>2. Ancestors(o) \subseteq DOMAIN fs
    BY <2>1 DEF OtherErrors, When, Housed
  <2>3. FsFacts(o)
    BY <1>1, <1>4, <2>2, PuttingTree DEF CreateLocalFolderAct
  <2> QED BY <1>2, <2>3 DEF StepFacts
<1> QED BY <1>3, <1>4

LEMMA QuietTree ==
    ASSUME Rooted(fs), NEW id \in DOMAIN tasks, UNCHANGED fs, Others(id),
           OwnFree(id)
    PROVE  StepFacts(id)
  BY SameTree DEF StepFacts

LEMMA ReadFacts ==
    ASSUME ControlInv, Rooted(fs), NEW id \in DOMAIN tasks, Read(id)
    PROVE  StepFacts(id)
<1>1. PICK pc \in {"send", "readback", "stream", "place", "move", "rename",
                   "confirm", "mkdir"} :
          \E hold : Proceed(id, pc, hold)
  BY DEF Read
<1>2. pc \notin Landing
  BY DEF Landing
<1>3. UNCHANGED fs
  BY DEF Read, Quiet, sides
<1> QED BY <1>1, <1>2, <1>3, ProceedsTo, QuietTree

LEMMA RemoteFacts ==
    ASSUME ControlInv, Rooted(fs), NEW id \in DOMAIN tasks,
           \/ UploadNewFile(id) \/ UploadNewRevision(id) \/ MoveRemoteAct(id)
           \/ TrashRemoteAct(id) \/ CreateRemoteFolderAct(id)
    PROVE  StepFacts(id)
<1>0. {"check", "rename", "confirm", "verify", "commit"} \cap Landing = {}
  BY DEF Landing
<1>1. UNCHANGED fs
  BY DEF UploadNewFile, UploadNewRevision, MoveRemoteAct, TrashRemoteAct,
     CreateRemoteFolderAct
<1>2. CASE UploadNewFile(id)
  <2>1. \E hold : Reply(id, "check", hold)
    BY <1>2 DEF UploadNewFile
  <2> QED BY <1>0, <1>1, <2>1, RepliesWith, QuietTree
<1>3. CASE UploadNewRevision(id)
  <2>1. \E hold : Reply(id, "check", hold)
    BY <1>3 DEF UploadNewRevision
  <2> QED BY <1>0, <1>1, <2>1, RepliesWith, QuietTree
<1>4. CASE MoveRemoteAct(id)
  <2>1. \E pc \in {"rename", "confirm"}, hold \in {tasks[id].hold} :
            Reply(id, pc, hold)
    BY <1>4 DEF MoveRemoteAct
  <2> QED BY <1>0, <1>1, <2>1, RepliesWith, QuietTree
<1>5. CASE TrashRemoteAct(id)
  <2>1. \E hold : Reply(id, "verify", hold)
    BY <1>5 DEF TrashRemoteAct
  <2> QED BY <1>0, <1>1, <2>1, RepliesWith, QuietTree
<1>6. CASE CreateRemoteFolderAct(id)
  <2>1. \/ \E hold : Proceed(id, "commit", hold)
        \/ Raise(id, "lost")
    BY <1>6 DEF CreateRemoteFolderAct
  <2> QED BY <1>0, <1>1, <2>1, ProceedsTo, RaisesIt, QuietTree
<1> QED BY <1>2, <1>3, <1>4, <1>5, <1>6

LEMMA PrecheckFacts ==
    ASSUME DataInv, ControlInv, Rooted(fs), NEW id \in DOMAIN tasks,
           PrecheckPasses(id) \/ PrecheckSkips(id)
    PROVE  StepFacts(id)
<1> DEFINE op == tasks[id].op
<1>0. UNCHANGED fs
  BY DEF PrecheckPasses, PrecheckSkips, Quiet, sides
<1>1. CASE PrecheckSkips(id)
  BY <1>0, <1>1, ForgetsIt, QuietTree DEF PrecheckSkips, Resolve, Finish
<1>2. CASE PrecheckPasses(id)
  <2>1. /\ DOMAIN tasks' = DOMAIN tasks
        /\ \A i \in DOMAIN tasks : i # id => tasks'[i] = tasks[i]
        /\ tasks'[id].pc = FirstStep[op.kind] /\ tasks'[id].op = op
    BY <1>2 DEF PrecheckPasses, Go, ControlInv, ControlOK, Task
  <2>2. op.kind \in Kinds \ Bookkeeping /\ op.path \in Path
    BY TaskFacts
  <2>3. ASSUME tasks'[id].pc \in Landing PROVE FreeAt(fs, op.path)
    <3>1. FirstStep[op.kind] \in {"slide", "swap"}
      BY <2>1, <2>3 DEF Landing
    <3>2. op.kind = "move_local"
      BY <2>2, <3>1 DEF FirstStep, Kinds, TransferKinds, Bookkeeping, MoveKinds
    <3>3. LocalMatches(op.path, None)
      BY <1>2, <3>2 DEF PrecheckPasses, Preconditions
    <3>4. op.path \notin DOMAIN fs
      BY <3>3 DEF LocalMatches
    <3> QED BY <2>2, <3>4, TreeFacts, AbsentIsFree
  <2>4. Others(id)
    BY <2>1 DEF Others
  <2>5. OwnFree(id)
    BY <1>0, <2>1, <2>3 DEF OwnFree
  <2> QED BY <1>0, <2>4, <2>5, QuietTree
<1> QED BY <1>1, <1>2

LEMMA RetryFacts ==
    ASSUME ControlInv, Rooted(fs), NEW id \in DOMAIN tasks, Retry(id)
    PROVE  StepFacts(id)
<1>0. UNCHANGED fs
  BY DEF Retry, RetryFindsLanded, RetryAgain, RetryThrows, Quiet, sides
<1>1. CASE RetryFindsLanded(id)
  BY <1>0, <1>1, ForgetsIt, QuietTree DEF RetryFindsLanded, Resolve, Finish
<1>2. CASE RetryThrows(id)
  BY <1>0, <1>2, ForgetsIt, QuietTree DEF RetryThrows, Throw
<1>3. CASE RetryAgain(id)
  <2>1. /\ DOMAIN tasks' = DOMAIN tasks
        /\ \A i \in DOMAIN tasks : i # id => tasks'[i] = tasks[i]
        /\ tasks'[id].pc = "precheck" /\ tasks'[id].op = tasks[id].op
    BY <1>3 DEF RetryAgain, ControlInv, ControlOK, Task
  <2>2. Others(id) /\ OwnFree(id)
    BY <2>1 DEF Others, OwnFree, Landing
  <2> QED BY <1>0, <2>2, QuietTree
<1> QED BY <1>1, <1>2, <1>3 DEF Retry

LEMMA TaskStepFacts ==
    ASSUME DataInv, ControlInv, Rooted(fs), NEW id \in DOMAIN tasks, TaskStep(id)
    PROVE  StepFacts(id)
<1>1. CASE StepFails(id) \/ RemoteFails(id) \/ TransferFails(id)
  <2>1. UNCHANGED fs /\ \E e : Raise(id, e)
    BY <1>1 DEF StepFails, RemoteFails, TransferFails, Quiet, sides
  <2> QED BY <2>1, RaisesIt, QuietTree
<1>2. CASE CommitStep(id)
  <2>1. UNCHANGED fs /\ tasks' = Forget(tasks, id)
    BY <1>2 DEF CommitStep, Resolve, Finish, sides
  <2> QED BY <2>1, ForgetsIt, QuietTree
<1> QED BY <1>1, <1>2, PrecheckFacts, RetryFacts, ReadFacts, RemoteFacts,
           LocalFacts, SlideFacts, DownloadFacts DEF TaskStep, Act

-----------------------------------------------------------------------------
(* The local tree is a tree.                                               *)

LEMMA UserTree ==
    ASSUME DataInv, Rooted(fs), LocalUser
    PROVE  Rooted(fs')
<1>0. DOMAIN fs \subseteq Path
  BY TreeFacts
<1>1. PICK p \in DOMAIN fs \cup UserPaths :
          \/ UserEdits(p) \/ UserDeletes(p) \/ UserCreates(p)
          \/ \E q \in UserPaths : UserRenames(p, q)
  BY DEF LocalUser
<1>2. p \in Path
  BY <1>0, ExecutorAssumption
<1>3. ASSUME NEW q \in Path, Len(q) > 1 => Parent(q) \in DOMAIN fs
      PROVE  Ancestors(q) \subseteq DOMAIN fs
  <2> SUFFICES ASSUME NEW a \in Ancestors(q) PROVE a \in DOMAIN fs
    OBVIOUS
  <2>1. a \in Path /\ Under(a, q) /\ Len(a) < Len(q)
    BY AncestorMeans
  <2>2. Len(q) > 1 /\ Parent(q) \in DOMAIN fs /\ Parent(q) \in Path
    BY <1>0, <1>3, <2>1, LengthOfPath
  <2>3. Parent(q) = SubSeq(q, 1, Len(q) - 1)
    BY DEF Parent, Front
  <2>4. q \in Seq(Names) /\ Len(q) - 1 \in 1..Len(q)
    BY <2>2, LengthOfPath DEF Path
  <2>5. /\ Len(Parent(q)) = Len(q) - 1
        /\ \A i \in 1..(Len(q) - 1) : Parent(q)[i] = q[i]
    BY <2>3, <2>4
  <2>6. Under(a, Parent(q)) /\ Len(a) <= Len(Parent(q))
    BY <2>1, <2>2, <2>5, UnderMeans, LengthOfPath
  <2>7. CASE Len(a) < Len(Parent(q))
    BY <2>1, <2>2, <2>6, <2>7, AncestorMeans DEF Rooted
  <2>8. CASE Len(a) = Len(Parent(q))
    <3>1. a \in Seq(Names) /\ Parent(q) \in Seq(Names)
      BY <2>1, <2>2 DEF Path
    <3>2. \A i \in 1..Len(a) : a[i] = Parent(q)[i]
      BY <2>1, <2>2, <2>6, UnderMeans
    <3>3. a = Parent(q)
      BY <2>8, <3>1, <3>2
    <3> QED BY <2>2, <3>3
  <2> QED BY <2>1, <2>2, <2>6, <2>7, <2>8, LengthOfPath
<1>4. CASE UserEdits(p)
  <2>1. DOMAIN fs' = DOMAIN fs
    BY <1>4 DEF UserEdits
  <2> QED BY <2>1 DEF Rooted
<1>5. CASE UserDeletes(p)
  BY <1>0, <1>2, <1>5, RemovalOf DEF UserDeletes
<1>6. CASE UserCreates(p)
  <2>1. Ancestors(p) \subseteq DOMAIN fs
    BY <1>2, <1>3, <1>6 DEF UserCreates
  <2> QED BY <1>6, <2>1, PuttingAt DEF UserCreates
<1>7. CASE \E q \in UserPaths : UserRenames(p, q)
  <2>1. PICK q \in UserPaths : UserRenames(p, q)
    BY <1>7
  <2>2. q \in Path
    BY ExecutorAssumption
  <2>3. Ancestors(q) \subseteq DOMAIN fs
    BY <1>3, <2>1, <2>2 DEF UserRenames
  <2> QED BY <1>0, <1>2, <2>1, <2>2, <2>3, MovingTo DEF UserRenames
<1> QED BY <1>1, <1>4, <1>5, <1>6, <1>7

LEMMA OtherSteps ==
    ASSUME \/ \E id \in DOMAIN journal : Recover(id)
           \/ RecoveryDone \/ StartBatch \/ KeepBooks \/ StopEarly
           \/ MakePlan \/ Pause \/ CancelAll \/ Crash \/ RemoteUser
           \/ UNCHANGED vars
    PROVE  UNCHANGED fs
<1>1. CASE \E id \in DOMAIN journal : Recover(id)
  BY <1>1 DEF Recover, RecoverUnstarted, RecoverCompleted, RecoverFailed,
     RecoverAbandoned, RecoverFrame, sides
<1>2. CASE RemoteUser
  BY <1>2 DEF RemoteUser, RemoteEdits, RemoteTrashes, RemoteRestores,
     RemoteDeletes, RemoteMoves
<1>3. CASE RecoveryDone \/ StartBatch \/ KeepBooks \/ StopEarly \/ MakePlan
           \/ Pause \/ CancelAll \/ Crash \/ UNCHANGED vars
  BY <1>3 DEF RecoveryDone, StartBatch, KeepBooks, StopEarly, MakePlan, Pause,
     CancelAll, Crash, vars, sides
<1> QED BY <1>1, <1>2, <1>3

LEMMA NextRooted ==
    ASSUME Inv, Rooted(fs), [Next]_vars
    PROVE  Rooted(fs')
<1>0. DataInv /\ ControlInv
  BY DEF Inv
<1>1. CASE \E id \in DOMAIN tasks : TaskStep(id)
  BY <1>0, <1>1, TaskStepFacts DEF StepFacts, FsFacts
<1>2. CASE LocalUser
  BY <1>0, <1>2, UserTree
<1>3. CASE UNCHANGED fs
  BY <1>3 DEF Rooted
<1> QED BY <1>1, <1>2, <1>3, OtherSteps DEF Next, Program

LEMMA InitRooted == Init => Rooted(fs)
  BY TreesAssumption DEF Init, Rooted

\* Whatever the users, the faults and the plans do, the local tree stays a
\* tree: no operation leaves an item without the folder it is in (mkdirSync()
\* and rename() of localWrite.ts and executor.ts).
LEMMA SpecRooted == Spec => []Rooted(fs)
<1>1. Inv /\ Rooted(fs) /\ [Next]_vars => Rooted(fs)'
  BY NextRooted
<1> QED BY <1>1, InitRooted, SpecInv, PTL DEF Spec

-----------------------------------------------------------------------------
(* No content is lost by a step that replaces nothing.                     *)

\* A rename() finds something at its target, or below it.
Replaces ==
    \E id \in DOMAIN tasks :
        /\ DownloadSwap(id) \/ MoveLocalAct(id)
        /\ ~ FreeAt(fs, tasks[id].op.path)

Binned  == {r.data : r \in recycled}

LEMMA ReachableParts ==
    /\ Reachable  = Data(fs) \cup RemoteContents \cup olds \cup Binned
    /\ Reachable' = Data(fs') \cup RemoteContents' \cup olds' \cup Binned'
  BY DEF Reachable, LocalContents, Data, Binned

\* A change of the local side.
LEMMA LocallyKept ==
    ASSUME UNCHANGED <<drive, olds>>, recycled \subseteq recycled',
           Data(fs) \subseteq Data(fs') \cup Binned'
    PROVE  Reachable \subseteq Reachable'
<1>1. RemoteContents' = RemoteContents /\ Binned \subseteq Binned'
  BY DEF RemoteContents, Binned
<1> QED BY <1>1, ReachableParts

\* A change of the drive.
LEMMA RemotelyKept ==
    ASSUME UNCHANGED <<fs, recycled>>, olds \subseteq olds',
           \A u \in DOMAIN drive :
               \/ u \in DOMAIN drive' /\ drive'[u].sha = drive[u].sha
               \/ drive[u].sha \in olds'
    PROVE  Reachable \subseteq Reachable'
<1>1. RemoteContents \subseteq RemoteContents' \cup olds'
  BY DEF RemoteContents
<1>2. Data(fs') = Data(fs) /\ Binned' = Binned
  BY DEF Data, Binned
<1> QED BY <1>1, <1>2, ReachableParts

LEMMA RecyclingKeeps ==
    ASSUME NEW p, Recycle(p), UNCHANGED <<drive, olds>>
    PROVE  Reachable \subseteq Reachable'
<1>1. ASSUME NEW q \in DOMAIN fs PROVE fs[q].data \in Data(fs') \cup Binned'
  <2>1. CASE Under(p, q)
    <3>1. [path |-> q, data |-> fs[q].data] \in recycled'
      BY <2>1 DEF Recycle
    <3>2. [path |-> q, data |-> fs[q].data].data = fs[q].data
      OBVIOUS
    <3> QED BY <3>1, <3>2 DEF Binned
  <2>2. CASE ~ Under(p, q)
    <3>1. q \in DOMAIN fs' /\ fs'[q] = fs[q]
      BY <2>2 DEF Recycle, RemoveTree
    <3> QED BY <3>1 DEF Data
  <2> QED BY <2>1, <2>2
<1>2. Data(fs) \subseteq Data(fs') \cup Binned'
  BY <1>1 DEF Data
<1>3. recycled \subseteq recycled'
  BY DEF Recycle
<1> QED BY <1>2, <1>3, LocallyKept

LEMMA PuttingKeeps ==
    ASSUME NEW f, NEW p, NEW x, p \notin DOMAIN f
    PROVE  Data(f) \subseteq Data(Put(f, p, x))
<1>1. \A q \in DOMAIN f : q \in DOMAIN Put(f, p, x) /\ Put(f, p, x)[q] = f[q]
  BY DEF Put
<1> QED BY <1>1 DEF Data

LEMMA DownloadKeeps ==
    ASSUME ControlInv, NEW id \in DOMAIN tasks, ~ Replaces,
           DownloadPlace(id) \/ DownloadSwap(id)
    PROVE  Reachable \subseteq Reachable'
<1> DEFINE o == tasks[id].op.path
<1>1. o \in Path
  BY TaskFacts
<1>2. CASE DownloadPlace(id) /\ tasks[id].op.lfp # None
  BY <1>2, RecyclingKeeps DEF DownloadPlace
<1>3. CASE DownloadPlace(id) /\ tasks[id].op.lfp = None
  <2>1. \A q \in DOMAIN fs : q \in DOMAIN fs' /\ fs'[q] = fs[q]
    BY <1>3 DEF DownloadPlace, WithParents
  <2>2. Data(fs) \subseteq Data(fs')
    BY <2>1 DEF Data
  <2> QED BY <1>3, <2>2, LocallyKept DEF DownloadPlace
<1>4. CASE DownloadSwap(id)
  <2>1. o \notin DOMAIN fs
    BY <1>1, <1>4, UnderSelf DEF Replaces, FreeAt
  <2>2. Data(fs) \subseteq Data(fs')
    BY <1>4, <2>1, PuttingKeeps DEF DownloadSwap
  <2> QED BY <1>4, <2>2, LocallyKept DEF DownloadSwap
<1> QED BY <1>2, <1>3, <1>4

LEMMA SlideKeeps ==
    ASSUME DataInv, ControlInv, Rooted(fs), NEW id \in DOMAIN tasks,
           ~ Replaces, MoveLocalAct(id)
    PROVE  Reachable \subseteq Reachable'
<1> DEFINE op == tasks[id].op
           o  == op.path
           f  == WithParents(fs, o)
           g  == RemoveTree(f, o)
<1>1. o \in Path /\ op.from \in Path
  <2>1. op \in Operation /\ op.kind = "move_local" /\ o \in Path
    BY TaskFacts DEF MoveLocalAct, Able, Fits
  <2> QED BY <2>1 DEF Operation, MoveKinds
<1>2. FreeAt(fs, o) /\ DOMAIN fs \subseteq Path
  BY TreeFacts DEF Replaces
<1>3. /\ Rooted(f) /\ DOMAIN f = DOMAIN fs \cup Ancestors(o)
      /\ \A q \in DOMAIN fs : f[q] = fs[q]
  BY <1>1, <1>2, ParentsOf
<1>4. DOMAIN f \subseteq Path
  BY <1>1, <1>2, <1>3, PathFacts
<1>5. fs' = MoveTree(g, op.from, o)
  BY DEF MoveLocalAct
<1> HIDE DEF f
<1>6. /\ FreeAt(g, o) /\ DOMAIN g \subseteq DOMAIN f
      /\ \A q \in DOMAIN f : ~ Under(o, q) => q \in DOMAIN g /\ g[q] = f[q]
  BY <1>1, <1>3, <1>4, RemovalOf
<1> HIDE DEF g
<1>7. \A q \in DOMAIN fs : q \in DOMAIN g /\ g[q] = fs[q]
  BY <1>2, <1>3, <1>6 DEF FreeAt
<1>8. Data(fs) \subseteq Data(g)
  BY <1>7 DEF Data
<1>9. Data(g) \subseteq Data(fs')
  BY <1>1, <1>4, <1>5, <1>6, MovingKeeps
<1> QED BY <1>8, <1>9, LocallyKept DEF MoveLocalAct

LEMMA RemoteKeeps ==
    ASSUME DataInv, NEW id \in DOMAIN tasks,
           \/ UploadNewFile(id) \/ UploadNewRevision(id) \/ MoveRemoteAct(id)
           \/ TrashRemoteAct(id) \/ CreateRemoteFolderAct(id)
    PROVE  Reachable \subseteq Reachable'
<1>1. \A u \in DOMAIN drive : drive[u] \in Node
  BY DEF DataInv, DataOK, NodesOK
<1>2. clock + 1 \notin DOMAIN drive
  BY DEF DataInv, DataOK, Fresh
<1>3. CASE UploadNewFile(id) \/ CreateRemoteFolderAct(id)
  <2>1. PICK node : drive' = Put(drive, clock + 1, node)
    BY <1>3 DEF UploadNewFile, CreateRemoteFolderAct
  <2>2. \A u \in DOMAIN drive : u \in DOMAIN drive' /\ drive'[u] = drive[u]
    BY <1>2, <2>1 DEF Put
  <2>3. UNCHANGED <<fs, recycled, olds>>
    BY <1>3 DEF UploadNewFile, CreateRemoteFolderAct
  <2> QED BY <2>2, <2>3, RemotelyKept
<1>4. CASE UploadNewRevision(id)
  <2>1. /\ UNCHANGED <<fs, recycled>> /\ DOMAIN drive' = DOMAIN drive
        /\ olds' = olds \cup {drive[tasks[id].op.uid].sha}
        /\ \A u \in DOMAIN drive : u # tasks[id].op.uid => drive'[u] = drive[u]
    BY <1>4 DEF UploadNewRevision
  <2> QED BY <2>1, RemotelyKept
<1>5. CASE MoveRemoteAct(id) \/ TrashRemoteAct(id)
  <2>1. UNCHANGED <<fs, recycled, olds>>
    BY <1>5 DEF MoveRemoteAct, TrashRemoteAct
  <2>2. \A u \in DOMAIN drive : u \in DOMAIN drive' /\ drive'[u].sha = drive[u].sha
    BY <1>1, <1>5 DEF MoveRemoteAct, TrashRemoteAct, Node
  <2> QED BY <2>1, <2>2, RemotelyKept
<1> QED BY <1>3, <1>4, <1>5

LEMMA QuietKeeps ==
    ASSUME UNCHANGED sides
    PROVE  Reachable \subseteq Reachable'
  BY DEF sides, Reachable, LocalContents, RemoteContents

LEMMA ActKeeps ==
    ASSUME DataInv, ControlInv, Rooted(fs), NEW id \in DOMAIN tasks,
           ~ Replaces, Act(id)
    PROVE  Reachable \subseteq Reachable'
<1>1. CASE Read(id) \/ CommitStep(id)
  BY <1>1, QuietKeeps DEF Read, CommitStep, Quiet
<1>2. CASE RecycleLocalAct(id)
  BY <1>2, RecyclingKeeps DEF RecycleLocalAct
<1>3. CASE CreateLocalFolderAct(id)
  <2>1. tasks[id].op.path \notin DOMAIN fs
    <3>1. /\ tasks[id].op.kind \notin MoveKinds \cup TransferKinds
          /\ Errors(tasks[id]) = {} /\ tasks[id].pc = "mkdir"
      BY <1>3, TaskFacts DEF CreateLocalFolderAct, Able, Fits, MoveKinds,
         TransferKinds
    <3>2. OtherErrors(tasks[id]) = {}
      BY <3>1 DEF Errors, MoveKinds, TransferKinds, Acting
    <3> QED BY <3>1, <3>2 DEF OtherErrors, When
  <2>2. Data(fs) \subseteq Data(fs')
    BY <1>3, <2>1, PuttingKeeps DEF CreateLocalFolderAct
  <2> QED BY <1>3, <2>2, LocallyKept DEF CreateLocalFolderAct
<1> QED BY <1>1, <1>2, <1>3, DownloadKeeps, SlideKeeps, RemoteKeeps DEF Act

LEMMA StepKeeps ==
    ASSUME Inv, Rooted(fs), [Next]_vars, Toolstep, ~ Replaces
    PROVE  Reachable \subseteq Reachable'
<1>0. DataInv /\ ControlInv
  BY DEF Inv
<1>1. CASE \E id \in DOMAIN tasks : TaskStep(id)
  <2>1. PICK id \in DOMAIN tasks : TaskStep(id)
    BY <1>1
  <2>2. CASE Act(id)
    BY <1>0, <2>2, ActKeeps
  <2>3. CASE ~ Act(id)
    <3>1. UNCHANGED sides
      BY <2>1, <2>3 DEF TaskStep, StepFails, RemoteFails, TransferFails,
         PrecheckPasses, PrecheckSkips, Retry, RetryFindsLanded, RetryAgain,
         RetryThrows, Quiet
    <3> QED BY <3>1, QuietKeeps
  <2> QED BY <2>2, <2>3
<1>2. CASE \E id \in DOMAIN journal : Recover(id)
  BY <1>2, QuietKeeps DEF Recover, RecoverUnstarted, RecoverCompleted,
     RecoverFailed, RecoverAbandoned, RecoverFrame
<1>3. CASE RecoveryDone \/ StartBatch \/ KeepBooks \/ StopEarly \/ MakePlan
           \/ Pause \/ CancelAll \/ Crash \/ UNCHANGED vars
  BY <1>3, QuietKeeps DEF RecoveryDone, StartBatch, KeepBooks, StopEarly,
     MakePlan, Pause, CancelAll, Crash, vars
<1>4. CASE LocalUser \/ RemoteUser
  <2>1. edits' = edits + 1 /\ edits \in Nat
    BY <1>4 DEF Inv, BoundsOK, LocalUser, RemoteUser, UserEdits, UserDeletes,
       UserCreates, UserRenames, RemoteEdits, RemoteTrashes, RemoteRestores,
       RemoteDeletes, RemoteMoves, LocalUserMay, UserMay
  <2> QED BY <2>1 DEF Toolstep
<1> QED BY <1>1, <1>2, <1>3, <1>4 DEF Next, Program

-----------------------------------------------------------------------------
(* When a rename() finds nothing at its target.                            *)

\* No task writes at, above or below the target of another one.
TargetsApart ==
    \A i, j \in DOMAIN tasks :
        i # j => ~ Under(tasks[i].op.path, tasks[j].op.path)

TargetsFree ==
    \A id \in DOMAIN tasks :
        tasks[id].pc \in Landing => FreeAt(fs, tasks[id].op.path)

LEMMA IdleTasks ==
    ASSUME \/ \E id \in DOMAIN journal : Recover(id)
           \/ RecoveryDone \/ KeepBooks \/ StopEarly \/ MakePlan \/ Pause
           \/ CancelAll \/ LocalUser \/ RemoteUser \/ UNCHANGED vars
    PROVE  tasks' = tasks
<1>1. CASE \E id \in DOMAIN journal : Recover(id)
  BY <1>1 DEF Recover, RecoverUnstarted, RecoverCompleted, RecoverFailed,
     RecoverAbandoned, RecoverFrame, running
<1>2. CASE LocalUser \/ RemoteUser
  BY <1>2 DEF LocalUser, UserEdits, UserDeletes, UserCreates, UserRenames,
     LocalUserMay, RemoteUser, RemoteEdits, RemoteTrashes, RemoteRestores,
     RemoteDeletes, RemoteMoves, UserMay, running
<1>3. CASE RecoveryDone \/ KeepBooks \/ StopEarly \/ MakePlan \/ Pause
           \/ CancelAll \/ UNCHANGED vars
  BY <1>3 DEF RecoveryDone, KeepBooks, StopEarly, MakePlan, Pause, CancelAll,
     vars, running
<1> QED BY <1>1, <1>2, <1>3

LEMMA NextFree ==
    ASSUME RacyUser = FALSE, Inv, Rooted(fs), TargetsApart, TargetsFree,
           [Next]_vars
    PROVE  TargetsFree'
<1>0. DataInv /\ ControlInv
  BY DEF Inv
<1>1. CASE \E id \in DOMAIN tasks : TaskStep(id)
  <2>1. PICK id \in DOMAIN tasks : TaskStep(id)
    BY <1>1
  <2>2. LeavesFree(tasks[id].op.path) /\ Others(id) /\ OwnFree(id)
    BY <1>0, <2>1, TaskStepFacts DEF StepFacts, FsFacts
  <2>3. ASSUME NEW i \in DOMAIN tasks', tasks'[i].pc \in Landing
        PROVE  FreeAt(fs', tasks'[i].op.path)
    <3>1. CASE i = id
      BY <2>2, <2>3, <3>1 DEF OwnFree
    <3>2. CASE i # id
      <4>1. i \in DOMAIN tasks /\ tasks'[i] = tasks[i]
        BY <2>2, <3>2 DEF Others
      <4>2. tasks[i].op.path \in Path
        BY <1>0, <4>1, TaskFacts
      <4>3. FreeAt(fs, tasks[i].op.path)
        BY <2>3, <4>1 DEF TargetsFree
      <4>4. /\ ~ Under(tasks[i].op.path, tasks[id].op.path)
            /\ ~ Under(tasks[id].op.path, tasks[i].op.path)
        BY <3>2, <4>1 DEF TargetsApart
      <4>5. FreeAt(fs', tasks[i].op.path)
        BY <2>2, <4>2, <4>3, <4>4 DEF LeavesFree
      <4> QED BY <4>1, <4>5
    <3> QED BY <3>1, <3>2
  <2> QED BY <2>3 DEF TargetsFree
<1>2. CASE LocalUser
  <2>1. \A id \in DOMAIN tasks : tasks[id].pc \notin Windows
    BY <1>2 DEF LocalUser, UserEdits, UserDeletes, UserCreates, UserRenames,
       LocalUserMay
  <2>2. tasks' = tasks
    BY <1>2, IdleTasks
  <2> QED BY <2>1, <2>2 DEF TargetsFree, Landing, Windows
<1>3. CASE StartBatch
  <2>1. fs' = fs
    BY <1>3, OtherSteps
  <2>2. \A i \in DOMAIN tasks' :
            \/ tasks'[i].pc = "precheck"
            \/ i \in DOMAIN tasks /\ tasks'[i] = tasks[i]
    BY <1>3 DEF StartBatch
  <2> QED BY <2>1, <2>2 DEF TargetsFree, Landing
<1>4. CASE Crash
  BY <1>4, EmptyFacts DEF Crash, TargetsFree
<1>5. CASE \/ \E id \in DOMAIN journal : Recover(id)
           \/ RecoveryDone \/ KeepBooks \/ StopEarly \/ MakePlan \/ Pause
           \/ CancelAll \/ RemoteUser \/ UNCHANGED vars
  <2>1. fs' = fs
    BY <1>5, OtherSteps
  <2>2. tasks' = tasks
    BY <1>5, IdleTasks
  <2> QED BY <2>1, <2>2 DEF TargetsFree
<1> QED BY <1>1, <1>2, <1>3, <1>4, <1>5 DEF Next, Program

LEMMA FreeMeans ==
    ASSUME TargetsFree
    PROVE  ~ Replaces
<1> SUFFICES ASSUME NEW id \in DOMAIN tasks,
                    DownloadSwap(id) \/ MoveLocalAct(id)
             PROVE  FreeAt(fs, tasks[id].op.path)
  BY DEF Replaces
<1>1. tasks[id].pc \in Landing
  BY DEF DownloadSwap, MoveLocalAct, Able, Landing
<1> QED BY <1>1 DEF TargetsFree

-----------------------------------------------------------------------------
(* When the targets of the tasks are apart.                                *)

\* The transfers of a plan have targets that are not above one another.
PlanApart ==
    \A i, j \in DOMAIN plan :
        /\ i # j
        /\ plan[i].kind \in TransferKinds /\ plan[j].kind \in TransferKinds
        => ~ Under(plan[i].path, plan[j].path)

\* No task runs on after the execute() that began it: no exception out of
\* runOne() while others of its batch run.
NoneRunsOn == DOMAIN tasks \subseteq awaited

LEMMA BatchApart ==
    ASSUME DataInv, ControlInv, PlanApart, NoneRunsOn, StartBatch
    PROVE  TargetsApart'
<1>1. DOMAIN tasks = {} /\ plan \in Seq(Operation) /\ plan # <<>>
  BY DEF StartBatch, Ready, NoneRunsOn, ControlInv, ControlOK
<1>2. PICK n \in 1..Len(plan) :
          /\ IsBatch(n)
          /\ tasks' = [i \in DOMAIN tasks \cup ((clock + 1)..(clock + n)) |->
                 IF i \in (clock + 1)..(clock + n)
                 THEN [op |-> plan[i - clock], att |-> 1, pc |-> "precheck",
                       hold |-> NoHold]
                 ELSE tasks[i]]
  BY DEF StartBatch
<1> SUFFICES ASSUME NEW i \in DOMAIN tasks', NEW j \in DOMAIN tasks', i # j
             PROVE  ~ Under(tasks'[i].op.path, tasks'[j].op.path)
  BY DEF TargetsApart
<1>3. /\ i \in (clock + 1)..(clock + n) /\ j \in (clock + 1)..(clock + n)
      /\ tasks'[i].op = plan[i - clock] /\ tasks'[j].op = plan[j - clock]
  BY <1>1, <1>2
<1>4. clock \in Nat /\ n \in 1..Len(plan) /\ Len(plan) \in Nat
  BY <1>1, <1>2 DEF DataInv, DataOK
<1>5. i - clock \in 1..n /\ j - clock \in 1..n /\ i - clock # j - clock
  BY <1>3, <1>4
<1>6. n # 1
  BY <1>4, <1>5
<1>7. \A k \in 1..n : plan[k].kind \in TransferKinds
  BY <1>2, <1>6 DEF IsBatch
<1>8. i - clock \in DOMAIN plan /\ j - clock \in DOMAIN plan
  BY <1>1, <1>4, <1>5
<1> QED BY <1>3, <1>5, <1>7, <1>8 DEF PlanApart

LEMMA NextApart ==
    ASSUME Inv, Rooted(fs), PlanApart, NoneRunsOn, TargetsApart, [Next]_vars
    PROVE  TargetsApart'
<1>0. DataInv /\ ControlInv
  BY DEF Inv
<1>1. CASE \E id \in DOMAIN tasks : TaskStep(id)
  <2>1. PICK id \in DOMAIN tasks : TaskStep(id)
    BY <1>1
  <2>2. Others(id) /\ OwnFree(id)
    BY <1>0, <2>1, TaskStepFacts DEF StepFacts
  <2>3. \A i \in DOMAIN tasks' :
            i \in DOMAIN tasks /\ tasks'[i].op = tasks[i].op
    BY <2>1, <2>2 DEF Others, OwnFree
  <2> QED BY <2>3 DEF TargetsApart
<1>2. CASE StartBatch
  BY <1>0, <1>2, BatchApart
<1>3. CASE Crash
  BY <1>3, EmptyFacts DEF Crash, TargetsApart
<1>4. CASE \/ \E id \in DOMAIN journal : Recover(id)
           \/ RecoveryDone \/ KeepBooks \/ StopEarly \/ MakePlan \/ Pause
           \/ CancelAll \/ LocalUser \/ RemoteUser \/ UNCHANGED vars
  <2>1. tasks' = tasks
    BY <1>4, IdleTasks
  <2> QED BY <2>1 DEF TargetsApart
<1> QED BY <1>1, <1>2, <1>3, <1>4 DEF Next, Program

-----------------------------------------------------------------------------
(* The theorems on contents.                                               *)

LostOnlyByReplacing ==
    [][Toolstep /\ ~ Replaces => Reachable \subseteq Reachable']_vars

\* With any plans, faults, crashes and users, those included that come between
\* a check and its use: the only step of the program that can take the last
\* copy of a content away is a rename() onto something that is at its target,
\* or below it (localWrite.ts:111 and executor.ts:428).
THEOREM OnlyReplacingLoses == Spec => LostOnlyByReplacing
<1>1. Inv /\ Rooted(fs) /\ [Next]_vars
          => [Toolstep /\ ~ Replaces => Reachable \subseteq Reachable']_vars
  BY StepKeeps
<1> QED BY <1>1, SpecInv, SpecRooted, PTL DEF Spec, LostOnlyByReplacing

\* No step of the program loses a content (NothingLost), with any plans,
\* faults, crashes and users, if no code comes between a check and its use and
\* the tasks that run at one time write to unrelated places (execute() of
\* executor.ts, atomicDownload() of localWrite.ts; ARCHITECTURE.md invariant 1).
THEOREM NothingIsLost ==
    ASSUME RacyUser = FALSE
    PROVE  Spec /\ []TargetsApart => NothingLost
<1>1. Init => TargetsFree
  BY EmptyFacts DEF Init, TargetsFree
<1>2. Inv /\ Rooted(fs) /\ TargetsApart /\ TargetsFree /\ [Next]_vars
          => TargetsFree'
  BY NextFree
<1>3. Inv /\ Rooted(fs) /\ TargetsFree /\ [Next]_vars
          => [Toolstep => Reachable \subseteq Reachable']_vars
  BY FreeMeans, StepKeeps
<1> QED BY <1>1, <1>2, <1>3, SpecInv, SpecRooted, PTL DEF Spec, NothingLost

\* The tasks that run at one time write to unrelated places, if the transfers
\* of each plan do and no task outlives the execute() that began it: the two
\* things NothingIsLost asks of the planner and of the batches (IsBatch() and
\* Promise.all() in execute()).
THEOREM BatchesAreApart == Spec /\ [](PlanApart /\ NoneRunsOn) => []TargetsApart
<1>1. Init => TargetsApart
  BY EmptyFacts DEF Init, TargetsApart
<1>2. Inv /\ Rooted(fs) /\ (PlanApart /\ NoneRunsOn) /\ TargetsApart /\ [Next]_vars
          => TargetsApart'
  BY NextApart
<1> QED BY <1>1, <1>2, SpecInv, SpecRooted, PTL DEF Spec
-----------------------------------------------------------------------------
(* What is started is not forgotten.                                       *)

\* A retry finds that its move has landed, and a row has the key that the
\* renamed rows need (state/baseline.ts:144).
RowInTheWay(id) ==
    /\ id \in DOMAIN tasks /\ tasks[id].pc = "retry"
    /\ LandedNodes(tasks[id].op) # {} /\ ~ CommitFits(tasks[id].op)

\* After a step of task id an entry in progress has its task, if it had it, or
\* a row was in the way.
Minded(id) ==
    /\ \A i \in DOMAIN journal' : i # id =>
           i \in DOMAIN journal /\ journal'[i] = journal[i]
    /\ \A i \in DOMAIN tasks : i # id => i \in DOMAIN tasks'
    /\ id \in DOMAIN journal' /\ journal'[id].status = "in_progress" =>
           id \in DOMAIN tasks' \/ RowInTheWay(id)

LEMMA ProceedMinds ==
    ASSUME NEW id \in DOMAIN tasks, NEW pc, NEW hold, Go(id, pc, hold),
           journal' \in {journal, [journal EXCEPT ![id].status = "in_progress"]}
    PROVE  Minded(id)
  BY DEF Go, Minded

LEMMA FinishMinds ==
    ASSUME NEW id \in DOMAIN tasks, Finish(id)
    PROVE  Minded(id)
  BY DEF Finish, Forget, Minded

LEMMA RaiseMinds ==
    ASSUME NEW id \in DOMAIN tasks, NEW e, Raise(id, e)
    PROVE  Minded(id)
  BY ProceedMinds, FinishMinds DEF Raise, Proceed

LEMMA ReplyMinds ==
    ASSUME NEW id \in DOMAIN tasks, NEW pc, NEW hold, Reply(id, pc, hold)
    PROVE  Minded(id)
  BY ProceedMinds, RaiseMinds DEF Reply, Proceed

LEMMA ActMinds ==
    ASSUME NEW id \in DOMAIN tasks, Act(id)
    PROVE  Minded(id)
<1>1. CASE Read(id) \/ DownloadPlace(id) \/ DownloadSwap(id)
           \/ MoveLocalAct(id) \/ RecycleLocalAct(id)
           \/ CreateLocalFolderAct(id)
  <2>1. \E pc, hold : Proceed(id, pc, hold)
    BY <1>1 DEF Read, DownloadPlace, DownloadSwap, MoveLocalAct,
       RecycleLocalAct, CreateLocalFolderAct
  <2> QED BY <2>1, ProceedMinds DEF Proceed
<1>2. CASE UploadNewFile(id) \/ UploadNewRevision(id) \/ MoveRemoteAct(id)
           \/ TrashRemoteAct(id)
  <2>1. \E pc, hold : Reply(id, pc, hold)
    BY <1>2 DEF UploadNewFile, UploadNewRevision, MoveRemoteAct, TrashRemoteAct
  <2> QED BY <2>1, ReplyMinds
<1>3. CASE CreateRemoteFolderAct(id)
  <2>1. (\E pc, hold : Proceed(id, pc, hold)) \/ Raise(id, "lost")
    BY <1>3 DEF CreateRemoteFolderAct
  <2> QED BY <2>1, ProceedMinds, RaiseMinds DEF Proceed
<1>4. CASE CommitStep(id)
  BY <1>4, FinishMinds DEF CommitStep, Resolve
<1> QED BY <1>1, <1>2, <1>3, <1>4 DEF Act

LEMMA TaskStepMinds ==
    ASSUME ControlInv, NEW id \in DOMAIN tasks, TaskStep(id)
    PROVE  Minded(id)
<1>1. CASE StepFails(id) \/ RemoteFails(id) \/ TransferFails(id)
  BY <1>1, RaiseMinds DEF StepFails, RemoteFails, TransferFails
<1>2. CASE PrecheckPasses(id)
  BY <1>2, ProceedMinds DEF PrecheckPasses
<1>3. CASE PrecheckSkips(id) \/ RetryFindsLanded(id)
  BY <1>3, FinishMinds DEF PrecheckSkips, RetryFindsLanded, Resolve
<1>4. CASE RetryAgain(id)
  BY <1>4 DEF RetryAgain, Minded
<1>5. CASE RetryThrows(id)
  <2>1. journal' = journal /\ (journal[id].status = "planned" \/ RowInTheWay(id))
    BY <1>5 DEF RetryThrows, RowInTheWay, Throw
  <2>2. \A i \in DOMAIN tasks : i # id => i \in DOMAIN tasks'
    BY <1>5 DEF RetryThrows, Throw, Forget
  <2> QED BY <2>1, <2>2 DEF Minded
<1> QED BY <1>1, <1>2, <1>3, <1>4, <1>5, ActMinds DEF TaskStep, Retry

\* The started operations that are forgotten.
Stranded == {id \in DOMAIN journal : /\ journal[id].status = "in_progress"
                                    /\ id \notin DOMAIN tasks}

\* Whoever is stranded now was before, or finds a row in the way.
StrandedBefore == \A id \in Stranded' : id \in Stranded \/ RowInTheWay(id)

LEMMA NextMinded ==
    ASSUME Inv, [Next]_vars, mode' = "up"
    PROVE  Stranded' = {} \/ (mode = "up" /\ StrandedBefore)
<1>0. ControlInv
  BY DEF Inv
<1>1. CASE \E id \in DOMAIN tasks : TaskStep(id)
  <2>1. PICK id \in DOMAIN tasks : TaskStep(id)
    BY <1>1
  <2>2. Minded(id)
    BY <1>0, <2>1, TaskStepMinds
  <2>3. mode = "up"
    BY <1>0 DEF ControlInv, ControlOK, RecoveryAlone
  <2> QED BY <2>2, <2>3 DEF Stranded, StrandedBefore, Minded
<1>2. CASE StartBatch
  <2>1. PICK n \in 1..Len(plan) :
            /\ journal' = [i \in DOMAIN journal \cup ((clock + 1)..(clock + n)) |->
                   IF i \in (clock + 1)..(clock + n)
                   THEN [status |-> "planned", op |-> plan[i - clock]]
                   ELSE journal[i]]
            /\ tasks' = [i \in DOMAIN tasks \cup ((clock + 1)..(clock + n)) |->
                   IF i \in (clock + 1)..(clock + n)
                   THEN [op |-> plan[i - clock], att |-> 1, pc |-> "precheck",
                         hold |-> NoHold]
                   ELSE tasks[i]]
    BY <1>2 DEF StartBatch
  <2>2. mode = "up"
    BY <1>2 DEF StartBatch, Ready
  <2> DEFINE ids == (clock + 1)..(clock + n)
  <2> HIDE DEF ids
  <2>3. /\ DOMAIN journal' = DOMAIN journal \cup ids
        /\ DOMAIN tasks' = DOMAIN tasks \cup ids
        /\ \A i \in DOMAIN journal \ ids : journal'[i] = journal[i]
    BY <2>1 DEF ids
  <2> QED BY <2>2, <2>3 DEF Stranded, StrandedBefore
<1>3. CASE Crash
  BY <1>3 DEF Crash
<1>4. CASE \E id \in DOMAIN journal : Recover(id)
  <2>1. mode' = "recovering"
    BY <1>4 DEF Recover, RecoverUnstarted, RecoverCompleted, RecoverFailed,
       RecoverAbandoned, RecoverFrame, NextEntry, running
  <2> QED BY <2>1
<1>5. CASE RecoveryDone
  BY <1>5, EmptyFacts DEF RecoveryDone, Stranded, store
<1>6. CASE KeepBooks \/ StopEarly \/ MakePlan \/ Pause \/ CancelAll
           \/ LocalUser \/ RemoteUser \/ UNCHANGED vars
  <2>1. UNCHANGED <<tasks, journal, mode>>
    BY <1>6 DEF KeepBooks, StopEarly, MakePlan, Pause, CancelAll, LocalUser,
       UserEdits, UserDeletes, UserCreates, UserRenames, LocalUserMay,
       RemoteUser, RemoteEdits, RemoteTrashes, RemoteRestores, RemoteDeletes,
       RemoteMoves, UserMay, vars, store, running
  <2> QED BY <2>1 DEF Stranded, StrandedBefore
<1> QED BY <1>1, <1>2, <1>3, <1>4, <1>5, <1>6 DEF Next, Program

OnlyKeysStrand ==
    [][mode = "up" /\ mode' = "up" => StrandedBefore]_vars

\* With any plans, faults, crashes and users, the only step that leaves a
\* started operation behind while the process runs is the retry of a landed
\* move whose rows cannot be renamed: the one exception that comes out of
\* runOne() of executor.ts with its entry in progress.
THEOREM StrandedOnlyByKeys == Spec => OnlyKeysStrand
<1>1. Inv /\ [Next]_vars
          => [mode = "up" /\ mode' = "up" => StrandedBefore]_vars
  BY NextMinded DEF StrandedBefore
<1> QED BY <1>1, SpecInv, PTL DEF Spec, OnlyKeysStrand

\* Every retry can commit what it finds landed.
RetriesCommit == \A id \in DOMAIN tasks : ~ RowInTheWay(id)

\* A started operation is not forgotten while the process runs (NoneStranded),
\* with any faults, crashes and users, as long as no retry of a landed move
\* finds a row in its way (runOne() of executor.ts, rename() of baseline.ts).
THEOREM NothingIsStranded == Spec /\ []RetriesCommit => []NoneStranded
<1>1. Init => NoneStranded
  BY EmptyFacts DEF Init, NoneStranded
<1>2. Inv /\ RetriesCommit /\ NoneStranded /\ [Next]_vars => NoneStranded'
  <2>1. \A i \in Stranded' : i \in DOMAIN journal' /\ i \notin DOMAIN tasks'
    BY DEF Stranded
  <2> SUFFICES ASSUME Inv, RetriesCommit, NoneStranded, [Next]_vars,
                      mode' = "up"
               PROVE  Stranded' = {}
    BY DEF NoneStranded, Stranded
  <2>2. CASE mode = "up" /\ StrandedBefore
    <3>1. Stranded = {}
      BY <2>2 DEF NoneStranded, Stranded
    <3>2. \A i \in Stranded' : RowInTheWay(i)
      BY <2>2, <3>1 DEF StrandedBefore
    <3>3. \A i : RowInTheWay(i) => i \in DOMAIN tasks
      BY DEF RowInTheWay
    <3> QED BY <3>2, <3>3 DEF RetriesCommit
  <2> QED BY <2>2, NextMinded
<1> QED BY <1>1, <1>2, SpecInv, PTL DEF Spec
=============================================================================
