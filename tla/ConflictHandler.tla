-------------------------- MODULE ConflictHandler --------------------------
(***************************************************************************)
(* Conflicts: src/conflict/handler.ts on top of plans and their execution. *)
(* A plan with conflicts is not executed: handleNew() makes each conflict  *)
(* harmless - it renames the local version, or detaches the baseline row - *)
(* and notes it in the inbox, then the cycle plans again and executes that *)
(* (cycleOnce, src/engine/engine.ts).  The user resolves what is in the    *)
(* inbox.                                                                  *)
(*                                                                         *)
(* handleNew() awaits only getNode(); between its other steps no code of   *)
(* the process runs, but each is an effect on disk, and the process may    *)
(* die after any of them.  pause() and cancelAll() are left to Executor:   *)
(* the handler does not look at either.                                    *)
(***************************************************************************)
EXTENDS Sync

CONSTANTS
    CopyNames,    \* the names of conflict copies
    Resolutions,  \* the resolutions the user may choose
    MaxChoices    \* bound: how often the user resolves a conflict

ASSUME ConflictAssumption ==
    /\ CopyNames \subseteq Names
    /\ Resolutions \subseteq {"keep_local", "keep_remote", "keep_both"}
    /\ MaxChoices \in Nat

VARIABLES
    inbox,    \* the open conflicts: a sequence, oldest first
    handler,  \* handleNew(): where it is, the conflicts left, the one at hand
    wanted    \* observed: what each resolution of the user asks for

handling == <<inbox, handler, wanted>>
all      == <<vars, handling>>

\* Where handleNew() is; "node" is its await, "off" is not called.
Off == [pc |-> "off", todo |-> {}, at |-> None, copy |-> None, avoid |-> {}]

ContentKinds == {"content", "create_create"}

\* openForPath(): a conflict that is open already is not handled again.
Known(c) == /\ c.kind \notin ContentKinds
            /\ \E i \in DOMAIN inbox : inbox[i].path = c.path

-----------------------------------------------------------------------------
(* The cycle.                                                              *)

Free == mode = "up" /\ plan = <<>> /\ awaited = {} /\ handler = Off

\* A new executor for the operations `ops'.
Execute(ops) == plan' = ops /\ made' = Empty /\ ctl' = "run"

\* The plan has conflicts: they are handled before anything is executed.
HandleNew(found) ==
    /\ \E c \in found : ~ Known(c)
    /\ handler' = [Off EXCEPT !.pc = "next", !.todo = found,
                              !.avoid = quarantine]
    /\ UNCHANGED <<sides, store, running, clock, edits, crashes, stops,
                   inbox, wanted>>

\* Nothing new to handle: the operations are executed.
CycleExecutes(verdict) ==
    /\ \A c \in verdict.conflicts : Known(c)
    /\ verdict.ops # {}
    /\ \E ops \in Orders(verdict.ops) : Execute(ops)
    /\ UNCHANGED <<sides, store, tasks, awaited, mode, clock, edits, crashes,
                   stops, handling>>

CycleOnce ==
    /\ Free /\ plans < MaxPlans /\ plans' = plans + 1
    /\ \E verdict \in {Verdict} :
           HandleNew(verdict.conflicts) \/ CycleExecutes(verdict)

\* All handled: the cycle plans again, with the quarantine it has read at its
\* beginning, and leaves the conflicts of this plan to the next cycle.
Replan ==
    /\ handler.pc = "next" /\ handler.todo = {}
    /\ \E ops \in Orders(Reconcile(
                      FreshInput(fs, drive, base, handler.avoid)).ops) :
           Execute(ops)
    /\ handler' = Off
    /\ UNCHANGED <<sides, store, tasks, awaited, mode, clock, bounds,
                   inbox, wanted>>

-----------------------------------------------------------------------------
(* handleNew().                                                            *)

At(pc) == handler.pc = pc
To(pc) == handler' = [handler EXCEPT !.pc = pc]

\* What a step of the handler leaves alone besides what it says.
HandlerFrame ==
    UNCHANGED <<recycled, drive, olds, quarantine, running, bounds, wanted>>

Skip(c) ==
    /\ At("next") /\ c \in handler.todo /\ Known(c)
    /\ handler' = [handler EXCEPT !.todo = @ \ {c}]
    /\ UNCHANGED <<fs, base, journal, clock, inbox>> /\ HandlerFrame

\* removeByNodeUid().
WithoutNode(b, uid) == [q \in {r \in DOMAIN b : b[r].uid # uid} |-> b[q]]

\* handleDeleteVsEdit: without its rows the kept side is a new item.  They go in
\* two statements, removeSubtree() first.
Detach(c) ==
    /\ At("next") /\ c \in handler.todo /\ ~ Known(c)
    /\ c.kind = "delete_vs_edit"
    /\ base' = RemoveTree(base, c.path)
    /\ handler' = [handler EXCEPT !.pc = "node row", !.at = c, !.todo = @ \ {c}]
    /\ UNCHANGED <<fs, journal, clock, inbox>> /\ HandlerFrame

DetachNode ==
    /\ At("node row")
    /\ base' = WithoutNode(base, handler.at.uid)
    /\ To("note")
    /\ UNCHANGED <<fs, journal, clock, inbox>> /\ HandlerFrame

\* handleDivergentMove: nothing is moved, the user is asked.
Report(c) ==
    /\ At("next") /\ c \in handler.todo /\ ~ Known(c)
    /\ c.kind = "divergent_move"
    /\ inbox' = Append(inbox, c)
    /\ handler' = [handler EXCEPT !.todo = @ \ {c}]
    /\ UNCHANGED <<fs, base, journal, clock>> /\ HandlerFrame

\* The end of the other two: the inbox entry, with the copy if there is one.
NoteConflict ==
    /\ At("note")
    /\ inbox' = Append(inbox, [handler.at EXCEPT !.local = handler.copy])
    /\ handler' = [handler EXCEPT !.pc = "next", !.at = None, !.copy = None]
    /\ UNCHANGED <<fs, base, journal, clock>> /\ HandlerFrame

\* handleContent: stat of the local version, then getNode() is awaited.
LookAt(c) ==
    /\ At("next") /\ c \in handler.todo /\ c.kind \in ContentKinds
    /\ handler' = [handler EXCEPT !.todo = @ \ {c}, !.at = c,
                       !.pc = IF c.path \in DOMAIN fs THEN "node" ELSE "gone"]
    /\ UNCHANGED <<fs, base, journal, clock, inbox>> /\ HandlerFrame

\* uniqueConflictPath(): beside the original, and not taken.
FreeCopies(p) ==
    {Append(Parent(p), n) : n \in CopyNames} \ (DOMAIN fs \cup DOMAIN base)

PlanRename ==
    /\ At("node")
    /\ \E copy \in FreeCopies(handler.at.path) :
           /\ journal' = Put(journal, clock + 1,
                  [status |-> "planned",
                   op |-> [NewOp("conflict_rename_local", copy) EXCEPT
                              !.from = handler.at.path,
                              !.uid = handler.at.uid]])
           /\ handler' = [handler EXCEPT !.pc = "start", !.copy = copy]
    /\ clock' = clock + 1
    /\ UNCHANGED <<fs, base, inbox>> /\ HandlerFrame

\* The journal entry of the rename at hand: no other one is of its kind.
Renaming(id) == id \in DOMAIN journal /\ journal[id].op.kind \notin Kinds
                /\ journal[id].op.path = handler.copy

StartRename(id) ==
    /\ At("start") /\ Renaming(id)
    /\ journal' = [journal EXCEPT ![id].status = "in_progress"]
    /\ To("rename")
    /\ UNCHANGED <<fs, base, clock, inbox>> /\ HandlerFrame

RenameLocal ==
    /\ At("rename") /\ handler.at.path \in DOMAIN fs
    /\ fs' = MoveTree(fs, handler.at.path, handler.copy)
    /\ To("detach")
    /\ UNCHANGED <<base, journal, clock, inbox>> /\ HandlerFrame

\* The file went away during the await: renameSync throws, the cycle fails
\* and the entry stays in progress.
RenameThrows ==
    /\ At("rename") /\ handler.at.path \notin DOMAIN fs
    /\ handler' = Off
    /\ UNCHANGED <<fs, base, journal, clock, inbox>> /\ HandlerFrame

Without(p) == [q \in DOMAIN base \ {p} |-> base[q]]

\* Mutant: the row of the renamed file stays.
DetachRenamedKeeping(id) ==
    /\ At("detach") /\ Renaming(id)
    /\ journal' = Forget(journal, id)
    /\ To("note")
    /\ UNCHANGED <<fs, base, clock, inbox>> /\ HandlerFrame

\* One transaction: the path belongs to the remote version, the copy is new.
DetachRenamed(id) ==
    /\ At("detach") /\ Renaming(id)
    /\ base' = Without(handler.at.path)
    /\ journal' = Forget(journal, id)
    /\ To("note")
    /\ UNCHANGED <<fs, clock, inbox>> /\ HandlerFrame

\* There was no local version: the row is detached, and a copy is noted that
\* was never made.
DetachGone ==
    /\ At("gone")
    /\ base' = Without(handler.at.path)
    /\ \E copy \in FreeCopies(handler.at.path) :
           handler' = [handler EXCEPT !.pc = "note", !.copy = copy]
    /\ UNCHANGED <<fs, journal, clock, inbox>> /\ HandlerFrame

\* getNode() fails: so does the cycle, and the next one finds the rest again
\* (a stop of the bound MaxStops).
NodeFails ==
    /\ handler.pc \in {"node", "gone"}
    /\ stops < MaxStops /\ stops' = stops + 1
    /\ handler' = Off
    /\ UNCHANGED <<sides, store, running, clock, edits, crashes, plans,
                   inbox, wanted>>

Handle ==
    \/ \E c \in handler.todo : Skip(c) \/ Detach(c) \/ Report(c) \/ LookAt(c)
    \/ DetachNode \/ PlanRename \/ RenameLocal \/ RenameThrows \/ DetachGone
    \/ NodeFails \/ NoteConflict
    \/ \E id \in DOMAIN journal : StartRename(id) \/ DetachRenamed(id)

-----------------------------------------------------------------------------
(* resolve(): the user's choice, as operations for the executor.           *)

\* localFp() takes no digest.
StatOf(p) == [ino |-> fs[p].ino, ver |-> fs[p].ver, sha |-> None]

RemoveBothSides(p) ==
    LET uid == IF p \in DOMAIN base THEN base[p].uid ELSE None
        recycle == [NewOp("recycle_local", p) EXCEPT !.lfp = StatOf(p)]
        trash == [NewOp("trash_remote", p) EXCEPT
                     !.uid = uid, !.rfp = RemoteFp(drive[uid])]
    IN  (IF p \in DOMAIN fs THEN <<recycle>> ELSE <<>>)
        \o (IF uid \in DOMAIN drive /\ ~ drive[uid].trashed
            THEN <<trash>> ELSE <<>>)

MoveRemotely(uid, from, to) ==
    [NewOp("move_remote", to) EXCEPT !.from = from, !.uid = uid,
                                     !.rfp = RemoteFp(drive[uid])]
MoveLocally(uid, from, to) ==
    [NewOp("move_local", to) EXCEPT !.from = from, !.uid = uid,
                                    !.lfp = StatOf(from)]

MoveBothSides(from, to) ==
    LET uid == base[from].uid IN
    IF from \in DOMAIN base \cap DOMAIN fs /\ uid \in DOMAIN drive
    THEN <<MoveRemotely(uid, from, to), MoveLocally(uid, from, to)>>
    ELSE <<>>

\* What is at p now, and what both sides have of it.
DataAt(p) == {fs[q].data : q \in {p} \cap DOMAIN fs}
Versions(p) ==
    DataAt(p) \cup {drive[u].sha : u \in DOMAIN drive \cap
                        {base[q].uid : q \in {p} \cap DOMAIN base}}

\* Observed: at `path' one of `data' is to be there (any, if it is empty), and
\* the contents `drop' may go.
Wish(path, data, drop) ==
    wanted' = Append(wanted, [path |-> path, data |-> data, drop |-> drop])

ResolveContent(entry, choice) ==
    LET copy == entry.local IN
    /\ CASE choice = "keep_remote" ->
               /\ plan' = RemoveBothSides(copy)
               /\ Wish(entry.path, DataAt(entry.path), Versions(copy))
         [] choice = "keep_local" ->
               /\ plan' = RemoveBothSides(entry.path)
                          \o MoveBothSides(copy, entry.path)
               /\ Wish(entry.path, DataAt(copy), Versions(entry.path))
         [] OTHER -> plan' = <<>> /\ Wish(copy, DataAt(copy), {})
    /\ UNCHANGED base

\* Mutant: the local destination counts as the remote one.
DestinationSwapped(entry, choice) ==
    IF choice = "keep_local" THEN entry.remote ELSE entry.local

Destination(entry, choice) ==
    IF choice = "keep_local" THEN entry.local ELSE entry.remote

\* The row goes where the user wants the item before anything has moved.
ResolveMove(entry, choice) ==
    LET uid == entry.uid
        to  == Destination(entry, choice) IN
    /\ MoveFits(base, entry.path, to)
    /\ base' = MoveTree(base, entry.path, to)
    /\ plan' = CASE choice = "keep_local" /\ uid \in DOMAIN drive ->
                       <<MoveRemotely(uid, entry.remote, to)>>
                 [] choice = "keep_remote" /\ entry.local \in DOMAIN fs ->
                       <<MoveLocally(uid, entry.local, to)>>
                 [] OTHER -> <<>>
    /\ Wish(to, {}, {})

\* Both destinations become new items.
ResolveApart(entry) ==
    /\ base' = WithoutNode(RemoveTree(base, entry.path), entry.uid)
    /\ plan' = <<>>
    /\ Wish(entry.local, {}, {})

\* The kept side of a deletion was made again long since: the entry is closed.
Close(entry) == UNCHANGED <<plan, base, wanted>>

ResolveConflict(i, choice) ==
    LET entry == inbox[i] IN
    /\ Free /\ Len(wanted) < MaxChoices
    /\ CASE entry.kind \in ContentKinds -> ResolveContent(entry, choice)
         [] entry.kind = "delete_vs_edit" -> Close(entry)
         [] choice = "keep_both" -> ResolveApart(entry)
         [] OTHER -> ResolveMove(entry, choice)
    /\ inbox' = RemoveAt(inbox, i)
    /\ made' = Empty /\ ctl' = "run"
    /\ UNCHANGED <<sides, journal, quarantine, tasks, awaited, mode, clock,
                   bounds, handler>>

-----------------------------------------------------------------------------
(* Crashes and recovery.                                                   *)

\* inspect() has no case for the rename of a conflict: it returns nothing,
\* recoverJournal() throws, and so does the start of the engine.
StartThrows ==
    \E id \in DOMAIN journal :
        NextEntry(id) /\ journal[id].status = "in_progress"
                      /\ journal[id].op.kind \notin Kinds

\* A crash while the journal is empty (Crash has the others).
CrashInHandler ==
    /\ handler # Off /\ journal = Empty
    /\ crashes < MaxCrashes /\ crashes' = crashes + 1
    /\ tasks' = Empty /\ awaited' = {} /\ plan' = <<>> /\ made' = Empty
    /\ ctl' = "run" /\ mode' = "recovering"
    /\ UNCHANGED <<sides, store, clock, edits, plans, stops>>

\* What runs without an await between, the users do not come into.
AtOnce == {"node row", "start", "rename", "detach", "note"}

-----------------------------------------------------------------------------
HandlerInit ==
    Init /\ inbox = <<>> /\ handler = Off /\ wanted = <<>>

HandlerProgram ==
    \/ ~ StartThrows /\ Program /\ UNCHANGED handling
    \/ Handle \/ Replan

HandlerNext ==
    \/ HandlerProgram
    \/ CycleOnce
    \/ \E i \in DOMAIN inbox, choice \in Resolutions : ResolveConflict(i, choice)
    \/ (Crash \/ CrashInHandler) /\ handler' = Off /\ UNCHANGED <<inbox, wanted>>
    \/ /\ RacyUser \/ handler.pc \notin AtOnce
       /\ (LocalUser \/ RemoteUser)
       /\ UNCHANGED handling

\* The event loop runs what is ready to run.
HandlerSpec ==
    HandlerInit /\ [][HandlerNext]_all /\ WF_all(HandlerProgram)

-----------------------------------------------------------------------------
(* Properties.                                                             *)

\* Nothing runs, and another cycle with this verdict would do nothing.
AtRest(verdict) ==
    /\ Idle /\ handler = Off
    /\ verdict.ops = {} /\ \A c \in verdict.conflicts : Known(c)

GivenUp == UNION {wanted[i].drop : i \in DOMAIN wanted}

Reported(v) == v.blocked \cup v.withheld \cup v.dropped

\* Cycles come to an end - the last one the bound allows is not needed - and
\* then both sides are in sync, except for what is reported as blocked and for
\* the moves that wait for the user's decision (convergence.test.ts;
\* conflict-handling "Both sides edited", "Delete-versus-edit conflicts keep
\* the edit").
Converges ==
    /\ plans < MaxPlans
    /\ \A verdict \in {Verdict} :
           AtRest(verdict) /\ Reported(verdict) = {} =>
               /\ \A c \in verdict.conflicts : c.kind = "divergent_move"
               /\ verdict.conflicts = {} => InSync

\* A content that was never in sync is new to one side: the program neither
\* overwrites it, nor recycles or trashes it, unless the user gives it up
\* (conflict-handling "Conflicts never overwrite", "Delete-versus-edit
\* conflicts keep the edit").
NewsKept ==
    [][Toolstep => LiveContents \ (Agreed \cup GivenUp) \subseteq LiveContents']_all

\* When all is done, what the user chose is there: the version at its path, or
\* the item at the destination (conflict-handling "Conflict inbox and
\* resolution").
ChoiceObeyed ==
    AtRest(Verdict) => \A i \in DOMAIN wanted :
        /\ wanted[i].path \in DOMAIN fs
        /\ wanted[i].data = {} \/ fs[wanted[i].path].data \in wanted[i].data

\* After a crash the engine comes up again (handler.ts:84-85: "Local renames
\* are journaled so a crash between the rename and the baseline update is
\* recoverable").
ComesUp == []<>(mode = "up")
=============================================================================
