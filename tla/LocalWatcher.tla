---------------------------- MODULE LocalWatcher ----------------------------
(***************************************************************************)
(* The engine's view of the local folder: local/watcher.ts with the scans  *)
(* of local/snapshot.ts, and what engine/engine.ts makes of a snapshot.    *)
(*                                                                         *)
(* Full scans and batches of dirty paths run one after the other in a      *)
(* queue of tasks, except for the scan of start(), which runs beside the   *)
(* queue.  The folder changes all the time, its changes are reported with  *)
(* a delay, or are not reported at all when the watcher overflows; the     *)
(* root itself may be unmounted, which shows an empty folder of another    *)
(* identity, or vanish.                                                    *)
(***************************************************************************)
EXTENDS Integers, Sequences, FiniteSets, Functions

CONSTANTS
    None, Unknown,
    Top,             \* the root folder
    Files, Dirs,     \* paths; folders stand in the root
    FolderOf(_),     \* the folder of a file, or Top
    StartTrees,      \* what the folder may hold at first
    MaxChanges,      \* bound: changes of the folder
    MaxFaults,       \* bound: overflows of the watcher
    MaxRefreshes,    \* bound: calls of refreshNow()
    MaxQueue         \* bound: tasks that wait

Paths == Files \union Dirs

(* What stands at a path: a folder may be shut, so that neither it nor     *)
(* what is below it can be read, or be replaced by a symbolic link (which  *)
(* leads to nothing of these names).                                       *)
Versions == 0 .. MaxChanges
Node == [kind : {"file", "dir", "link"}, ver : Versions, open : BOOLEAN]
Fits(p, node) ==
    \/ node = None
    \/ node \in Node /\ IF p \in Dirs THEN node.kind # "file" ELSE node.kind = "file" /\ node.open
Items == {items \in [Paths -> Node \union {None}] : \A p \in Paths : Fits(p, items[p])}

(* A tree has the identity of what stands at the root path and what is     *)
(* below it.                                                               *)
Roots == {"here", "gone", "other"}
Tree == [root : Roots, items : Items]

(* An entry of a snapshot: kind and fingerprint.                           *)
Fingerprint == [kind : {"file", "dir"}, ver : Versions]
Entries == UNION {[D -> Fingerprint] : D \in SUBSET Paths}
Snapshot == [root : Roots, entries : Entries, unsyncable : SUBSET Dirs, complete : BOOLEAN]

(* A scan or a batch that runs.                                            *)
Tasks == {"scan", "dirty", "refresh"}
Job == [kind : Tasks, since : Nat, root : Roots \union {None},
        todo : SUBSET (Paths \union {Top}), entries : Entries,
        unsyncable : SUBSET Dirs, complete : BOOLEAN, unsettled : SUBSET Files,
        took : SUBSET Paths, at : Paths \union {None}, ver : Versions \union {None}]

ASSUME WatcherAssumption ==
    /\ Files \intersect Dirs = {}
    /\ {Top, None, Unknown} \intersect Paths = {} /\ Top # None
    /\ \A f \in Files : FolderOf(f) \in Dirs \union {Top}
    /\ StartTrees \subseteq Items
    /\ None \notin Node /\ None \notin Fingerprint /\ None \notin Snapshot /\ None \notin Job
    /\ None \notin Roots
    /\ Unknown \notin Fingerprint /\ Unknown # None
    /\ MaxChanges \in Nat

Slots == {"starter", "queue"}

VARIABLES
    (* The file system. *)
    past,        \* the trees there were, the last one is the one of now
    fresh,       \* files whose mtime is younger than settleMs
    notices,     \* paths whose event was not yet delivered
    (* LocalWatcher. *)
    phase,       \* of start()
    snapshot, dirty, debounce, requested, rootDown,
    tasks,       \* what waits in the chain of processing
    jobs,        \* what runs: the scan of start(), and the head of the chain
    (* Callers of refreshNow(). *)
    refresh,
    (* Bounds, and history. *)
    faults, refreshes,
    excused      \* paths the snapshot may be wrong about, see CaughtUpIsTrue

disk == <<past, fresh, notices>>
watch == <<phase, snapshot, dirty, debounce, requested, rootDown>>
bounds == <<faults, refreshes>>
vars == <<disk, watch, tasks, jobs, refresh, bounds, excused>>

-----------------------------------------------------------------------------
(* The file system.                                                        *)

Now == Len(past)
tree == past[Now]

Up(p) == IF p \in Dirs THEN Top ELSE FolderOf(p)
Upto(p) == {p, Up(p)} \ {Top}
Below(p) == {q \in Paths : Up(q) = p}

(* What stands at p, and what lstat() of p finds: an error of any kind is  *)
(* taken for a path that is gone, so nothing is found below a folder that  *)
(* cannot be read.                                                         *)
Stands(t, p) ==
    IF t.root # "here" \/ (Up(p) # Top /\ (t.items[Up(p)] = None \/ t.items[Up(p)].kind # "dir"))
    THEN None ELSE t.items[p]
At(t, p) ==
    IF Up(p) # Top /\ Stands(t, Up(p)) # None /\ ~Stands(t, Up(p)).open
    THEN None ELSE Stands(t, p)

Listable(t, p) ==
    IF p = Top THEN t.root # "gone"
    ELSE At(t, p) # None /\ At(t, p).kind = "dir" /\ At(t, p).open

Entry(node) == [kind |-> node.kind, ver |-> node.ver]
Own(t, p) == IF At(t, p) = None \/ At(t, p).kind = "link" THEN None ELSE Entry(At(t, p))

(* Where p is found, None when it is not.                                  *)
Way(t, p) == IF Own(t, p) = None THEN None ELSE <<t.root, Up(p)>>

(* What a listing of folder p returns.                                     *)
Children(t, p) == {q \in Below(p) : At(t, q) # None}

(* Something happens at p.  Nobody is told of it before the subscription,  *)
(* and nobody hears of a path in a folder that is not watched yet.         *)
Change(t, reported) ==
    /\ Now <= MaxChanges
    /\ past' = Append(past, t)
    /\ notices' = IF phase = "up" THEN notices \union reported ELSE notices
    /\ excused' = IF phase = "up" THEN excused
                  ELSE excused \union reported \union UNION {Below(p) : p \in reported}
    /\ UNCHANGED <<watch, tasks, jobs, refresh, bounds>>

With(p, node) == [tree EXCEPT !.items[p] = node]
Without(D) == [tree EXCEPT !.items = [p \in Paths |-> IF p \in D THEN None ELSE @[p]]]

Heard(p) ==
    IF Up(p) \in notices THEN {{}, {p}} ELSE {{p}}

Creates(p) ==
    /\ tree.root = "here" /\ tree.items[p] = None
    /\ Up(p) = Top \/ Listable(tree, Up(p))
    /\ \E heard \in Heard(p) :
         Change(With(p, [kind |-> IF p \in Dirs THEN "dir" ELSE "file",
                         ver |-> Now, open |-> TRUE]),
                heard)
    /\ fresh' = fresh \union ({p} \intersect Files)

Writes(p) ==
    /\ p \in Files /\ At(tree, p) # None
    /\ \E heard \in Heard(p) : Change(With(p, [tree.items[p] EXCEPT !.ver = Now]), heard)
    /\ fresh' = fresh \union {p}

(* A folder goes with all that is in it, and only its own name is told.    *)
Deletes(p) ==
    /\ At(tree, p) # None
    /\ Change(Without({p} \union Below(p)), {p})
    /\ fresh' = fresh \ ({p} \union Below(p))

Locks(p) ==
    /\ p \in Dirs /\ At(tree, p) # None /\ tree.items[p].kind = "dir"
    /\ Change(With(p, [tree.items[p] EXCEPT !.open = ~@]), {p})
    /\ UNCHANGED fresh

(* The folder is moved elsewhere and a link is put in its place.           *)
Links(p) ==
    /\ p \in Dirs /\ At(tree, p) # None /\ tree.items[p].kind = "dir"
    /\ LET t == Without(Below(p))
       IN Change([t EXCEPT !.items[p] = [kind |-> "link", ver |-> 0, open |-> TRUE]], {p})
    /\ fresh' = fresh \ Below(p)

(* The root is unmounted, removed, or comes back; no event tells of it.    *)
RootChanges == \E r \in Roots \ {tree.root} :
    /\ Now <= MaxChanges
    /\ past' = Append(past, [tree EXCEPT !.root = r])
    /\ excused' = Paths
    /\ UNCHANGED <<fresh, notices, watch, tasks, jobs, refresh, bounds>>

(* Time passes.                                                            *)
Ages ==
    /\ fresh # {}
    /\ fresh' = {}
    /\ UNCHANGED <<past, notices, watch, tasks, jobs, refresh, bounds, excused>>

-----------------------------------------------------------------------------
(* Events, timers and requests.                                            *)

Queued(task) == Len(tasks) < MaxQueue /\ tasks' = Append(tasks, task)

RequestFullScan == requested' = TRUE /\ Queued("scan")

(* The callback of the subscription: events, or an error.                  *)
EventsArrive ==
    /\ notices # {}
    /\ notices' = {}
    /\ dirty' = dirty \union notices
    /\ debounce' = TRUE
    /\ UNCHANGED <<past, fresh, phase, snapshot, requested, rootDown, tasks, jobs, refresh,
                   bounds, excused>>

WatcherFails ==
    /\ phase = "up" /\ faults < MaxFaults
    /\ faults' = faults + 1
    /\ notices' = {}
    /\ RequestFullScan
    /\ UNCHANGED <<past, fresh, phase, snapshot, dirty, debounce, rootDown, jobs, refresh,
                   refreshes, excused>>

(* The debounce timer, or flush().                                         *)
DebounceFires ==
    /\ debounce
    /\ debounce' = FALSE
    /\ Queued("dirty")
    /\ UNCHANGED <<disk, phase, snapshot, dirty, requested, rootDown, jobs, refresh, bounds,
                   excused>>

(* Mutant: there is none after the first.                                  *)
ScanRequestedOnce ==
    /\ phase = "up" /\ snapshot = None
    /\ RequestFullScan
    /\ UNCHANGED <<disk, phase, snapshot, dirty, debounce, rootDown, jobs, refresh, bounds,
                   excused>>

(* The periodic scan, and those the engine asks for.                       *)
ScanRequested ==
    /\ phase = "up"
    /\ RequestFullScan
    /\ UNCHANGED <<disk, phase, snapshot, dirty, debounce, rootDown, jobs, refresh, bounds,
                   excused>>

NoRefresh == [pc |-> "none", path |-> None, since |-> 1, skipped |-> FALSE]

(* Mutant: it trusts the debounce timer.                                   *)
RefreshCalledLater == \E p \in Files :
    /\ phase = "up" /\ refresh.pc # "waiting"
    /\ refreshes < MaxRefreshes
    /\ refreshes' = refreshes + 1
    /\ refresh' = [pc |-> "waiting", path |-> p, since |-> Now, skipped |-> FALSE]
    /\ dirty' = dirty \union {p}
    /\ debounce' = TRUE
    /\ UNCHANGED <<disk, phase, snapshot, requested, rootDown, tasks, jobs, faults, excused>>

(* The engine wrote p and calls refreshNow().                              *)
RefreshCalled == \E p \in Files :
    /\ phase = "up" /\ refresh.pc # "waiting"
    /\ refreshes < MaxRefreshes
    /\ refreshes' = refreshes + 1
    /\ refresh' = [pc |-> "waiting", path |-> p, since |-> Now, skipped |-> FALSE]
    /\ dirty' = dirty \union {p}
    /\ Queued("refresh")
    /\ UNCHANGED <<disk, phase, snapshot, debounce, requested, rootDown, jobs, faults, excused>>

-----------------------------------------------------------------------------
(* Full scans.                                                             *)

NoEntries == [p \in {} |-> None]

(* entries.set(): the entries that are set, and the others as they were.   *)
Only(p, node) == [q \in {p} |-> Entry(node)]
Over(set, others) ==
    [q \in DOMAIN set \union DOMAIN others |-> IF q \in DOMAIN set THEN set[q] ELSE others[q]]

Scan == [kind |-> "scan", since |-> Now, root |-> None, todo |-> {Top},
         entries |-> NoEntries, unsyncable |-> {}, complete |-> TRUE,
         unsettled |-> {}, took |-> {}, at |-> None, ver |-> None]

(* fullScan() up to its first await: what is dirty will be read by it.     *)
ScanBegins(s) ==
    /\ jobs' = [jobs EXCEPT ![s] = Scan]
    /\ requested' = FALSE
    /\ dirty' = {}

(* Folder p is listed: its files get entries, its folders are scanned      *)
(* later.                                                                  *)
Listed(j, p) ==
    LET found == {q \in Children(tree, p) : At(tree, q).kind # "link"}
    IN [j EXCEPT !.todo = (@ \ {p}) \union (found \intersect Dirs),
                 !.entries = Over([q \in found |-> Entry(At(tree, q))], @),
                 !.unsyncable = @ \union (Children(tree, p) \ found)]

(* A folder that cannot be opened is noted.                                *)
Shut(j, p) ==
    [j EXCEPT !.todo = @ \ {p}, !.unsyncable = @ \union {p}, !.complete = FALSE]

Scanning(s) == jobs[s] # None /\ jobs[s].kind = "scan"

(* The identity of the root is read first.                                 *)
ScanRoot(s) ==
    /\ Scanning(s) /\ jobs[s].root = None /\ Listable(tree, Top)
    /\ jobs' = [jobs EXCEPT ![s].root = tree.root]
    /\ UNCHANGED <<disk, watch, tasks, refresh, bounds, excused>>

ScanFolder(s) ==
    /\ Scanning(s) /\ jobs[s].root # None
    /\ \E p \in jobs[s].todo :
          /\ p = Top => Listable(tree, Top)
          /\ jobs' = [jobs EXCEPT ![s] = IF Listable(tree, p) THEN Listed(jobs[s], p)
                                        ELSE Shut(jobs[s], p)]
    /\ UNCHANGED <<disk, watch, tasks, refresh, bounds, excused>>

(* The end of a job: start() goes on to subscribe, the chain to its next   *)
(* task, and the caller of refreshNow() returns with it.                   *)
JobEnds(s, skipped) ==
    /\ jobs' = [jobs EXCEPT ![s] = None]
    /\ phase' = IF s = "starter" THEN "scanned" ELSE phase
    /\ refresh' = IF s = "queue" /\ refresh.pc = "waiting"
                  THEN [refresh EXCEPT !.pc = IF Head(tasks) = "refresh" THEN "done" ELSE @,
                                       !.skipped = @ \/ skipped]
                  ELSE refresh
    /\ tasks' = IF s = "queue" THEN Tail(tasks) ELSE tasks

(* RootUnavailableError: there is one condition, and the snapshot stays.   *)
RootMissing(s) ==
    /\ rootDown' = TRUE
    /\ dirty' = {}
    /\ JobEnds(s, TRUE)

ScanFindsNoRoot(s) ==
    /\ Scanning(s) /\ Top \in jobs[s].todo /\ ~Listable(tree, Top)
    /\ RootMissing(s)
    /\ UNCHANGED <<disk, snapshot, debounce, requested, bounds, excused>>

Taken(j) == [root |-> j.root, entries |-> j.entries,
             unsyncable |-> j.unsyncable, complete |-> j.complete]

(* The scan becomes the snapshot, also when the root is another one, which *)
(* is made known as a root that is not available.                          *)
ScanEnds(s) ==
    /\ Scanning(s) /\ jobs[s].todo = {}
    /\ LET replaced == snapshot # None /\ snapshot.root # jobs[s].root
       IN /\ rootDown' = replaced
          /\ dirty' = IF replaced THEN {} ELSE dirty
          /\ JobEnds(s, replaced)
    /\ snapshot' = Taken(jobs[s])
    /\ excused' = IF /\ phase = "up" /\ jobs[s].since = Now
                     /\ jobs["starter"] = None /\ tree.root = "here"
                  THEN {} ELSE excused
    /\ UNCHANGED <<disk, debounce, requested, bounds>>

-----------------------------------------------------------------------------
(* start(): requestFullScan() of the engine, a scan beside it, then the    *)
(* subscription.                                                           *)

Start ==
    /\ phase = "down"
    /\ phase' = "scanning"
    /\ tasks' = <<"scan">>
    /\ jobs' = [jobs EXCEPT !["starter"] = Scan]
    /\ requested' = FALSE
    /\ dirty' = {}
    /\ UNCHANGED <<disk, snapshot, debounce, rootDown, refresh, bounds, excused>>

(* Without a root there is nothing to subscribe to, and start() rejects.   *)
Subscribes ==
    /\ phase = "scanned"
    /\ phase' = IF tree.root # "gone" THEN "up" ELSE "failed"
    /\ UNCHANGED <<disk, snapshot, dirty, debounce, requested, rootDown, tasks, jobs, refresh,
                   bounds, excused>>

-----------------------------------------------------------------------------
(* Batches of dirty paths.                                                 *)

(* Mutant: the batch of refreshNow() waits for files to settle.            *)
BatchSettling == [kind |-> "dirty", since |-> Now, root |-> snapshot.root, todo |-> dirty,
          entries |-> snapshot.entries,
          unsyncable |-> {u \in snapshot.unsyncable : Upto(u) \intersect dirty = {}},
          complete |-> TRUE, unsettled |-> {}, took |-> dirty, at |-> None, ver |-> None]

Batch == [kind |-> Head(tasks), since |-> Now, root |-> snapshot.root, todo |-> dirty,
          entries |-> snapshot.entries,
          unsyncable |-> {u \in snapshot.unsyncable : Upto(u) \intersect dirty = {}},
          complete |-> TRUE, unsettled |-> {}, took |-> dirty, at |-> None, ver |-> None]

NextTask(task) == jobs["queue"] = None /\ phase # "down" /\ tasks # <<>> /\ Head(tasks) = task

ScanTaken ==
    /\ \/ NextTask("scan")
       \/ \E task \in {"dirty", "refresh"} : NextTask(task) /\ ~requested /\ snapshot = None
    /\ ScanBegins("queue")
    /\ UNCHANGED <<disk, phase, snapshot, debounce, rootDown, tasks, refresh, bounds, excused>>

(* processDirty(): nothing is done when a scan is requested, or nothing is *)
(* dirty.                                                                  *)
BatchSkipped == \E task \in {"dirty", "refresh"} :
    /\ NextTask(task)
    /\ requested \/ (snapshot # None /\ snapshot.root = tree.root /\ dirty = {})
    /\ JobEnds("queue", requested /\ task = "refresh")
    /\ UNCHANGED <<disk, snapshot, dirty, debounce, requested, rootDown, bounds, excused>>

(* The root is looked at before the paths are: a path that is missing with *)
(* its root was not deleted.                                               *)
BatchFindsNoRoot == \E task \in {"dirty", "refresh"} :
    /\ NextTask(task)
    /\ ~requested /\ snapshot # None /\ snapshot.root # tree.root
    /\ RootMissing("queue")
    /\ UNCHANGED <<disk, snapshot, debounce, requested, bounds, excused>>

(* Mutant: the root is not looked at.                                      *)
BatchTakenBlindly == \E task \in {"dirty", "refresh"} :
    /\ NextTask(task)
    /\ ~requested /\ snapshot # None /\ dirty # {}
    /\ jobs' = [jobs EXCEPT !["queue"] = Batch]
    /\ dirty' = {}
    /\ UNCHANGED <<disk, phase, snapshot, debounce, requested, rootDown, tasks, refresh,
                   bounds, excused>>

BatchTaken == \E task \in {"dirty", "refresh"} :
    /\ NextTask(task)
    /\ ~requested /\ snapshot # None /\ snapshot.root = tree.root /\ dirty # {}
    /\ jobs' = [jobs EXCEPT !["queue"] = Batch]
    /\ dirty' = {}
    /\ UNCHANGED <<disk, phase, snapshot, debounce, requested, rootDown, tasks, refresh,
                   bounds, excused>>

job == jobs["queue"]
Working == job # None /\ job.kind # "scan"

(* Parents are handled before children.                                    *)
NextPath == {p \in job.todo : (Upto(p) \ {p}) \intersect job.todo = {}}

Does(change) == jobs' = [jobs EXCEPT !["queue"] = change]

(* What becomes of path p: it and others are dropped, it is set, or it     *)
(* stays dirty.                                                            *)
Dropped(j, p, D, unsyncable) ==
    [j EXCEPT !.todo = @ \ {p}, !.entries = Restrict(@, DOMAIN @ \ D),
              !.unsyncable = @ \union unsyncable]
IsSet(j, p) ==
    [j EXCEPT !.todo = @ \ {p}, !.at = None, !.ver = None,
              !.entries = Over(Only(p, At(tree, p)), @)]
StaysDirty(j, p) ==
    [j EXCEPT !.todo = @ \ {p}, !.at = None, !.ver = None, !.unsettled = @ \union {p}]

(* lstat() of one path: a folder is scanned next, a file is looked at a    *)
(* second time unless refreshNow() wants it.                               *)
PathRead ==
    /\ Working /\ job.at = None
    /\ \E p \in NextPath :
         LET node == At(tree, p)
         IN \/ node = None /\ Does(Dropped(job, p, {p} \union Below(p), {}))
            \/ node # None /\ node.kind = "link" /\ Does(Dropped(job, p, {p}, {p}))
            \/ node # None /\ node.kind = "dir" /\ Does([job EXCEPT !.at = p])
            \/ /\ node # None /\ node.kind = "file"
               /\ \/ job.kind = "refresh" /\ Does(IsSet(job, p))
                  \/ job.kind # "refresh" /\ p \in fresh /\ Does(StaysDirty(job, p))
                  \/ /\ job.kind # "refresh" /\ p \notin fresh
                     /\ Does([job EXCEPT !.at = p, !.ver = node.ver])
    /\ UNCHANGED <<disk, watch, tasks, refresh, bounds, excused>>

(* Mutant: a file that does not settle is taken for one that is gone.      *)
FileSettlesOrGoes ==
    /\ Working /\ job.at \in Files
    /\ LET node == At(tree, job.at)
           same == node # None /\ node.ver = job.ver
       IN \/ same /\ Does(IsSet(job, job.at))
          \/ ~same /\ Does([Dropped(job, job.at, {job.at}, {}) EXCEPT !.at = None, !.ver = None])
    /\ UNCHANGED <<disk, watch, tasks, refresh, bounds, excused>>

(* A file looks the same after a while, or it stays dirty.                 *)
FileSettles ==
    /\ Working /\ job.at \in Files
    /\ LET node == At(tree, job.at)
           same == node # None /\ node.ver = job.ver
       IN \/ same /\ Does(IsSet(job, job.at))
          \/ ~same /\ Does(StaysDirty(job, job.at))
    /\ UNCHANGED <<disk, watch, tasks, refresh, bounds, excused>>

(* Mutant: only the folder itself is noted.                                *)
FolderNoted ==
    /\ Working /\ job.at \in Dirs /\ Listable(tree, job.at)
    /\ LET p == job.at
       IN Does([job EXCEPT !.todo = @ \ {p}, !.at = None,
                           !.entries = Over(Only(p, At(tree, p)), @)])
    /\ UNCHANGED <<disk, watch, tasks, refresh, bounds, excused>>

(* A folder is scanned anew, for what was created before it was watched.   *)
FolderScanned ==
    /\ Working /\ job.at \in Dirs /\ Listable(tree, job.at)
    /\ LET p == job.at
           kept == Restrict(job.entries, DOMAIN job.entries \ Below(p))
           found == [q \in Children(tree, p) |-> Entry(At(tree, q))]
       IN Does([job EXCEPT !.todo = @ \ {p}, !.at = None,
                           !.entries = Over(found, Over(Only(p, At(tree, p)), kept))])
    /\ UNCHANGED <<disk, watch, tasks, refresh, bounds, excused>>

(* The folder cannot be scanned: the error ends the batch, and all that it *)
(* took is forgotten, what it has read included.                           *)
BatchThrows ==
    /\ Working /\ job.at \in Dirs /\ ~Listable(tree, job.at)
    /\ excused' = excused \union job.took \union UNION {Below(p) : p \in job.took}
    /\ JobEnds("queue", TRUE)
    /\ UNCHANGED <<disk, snapshot, dirty, debounce, requested, rootDown, bounds>>

(* The files that did not settle are for a later batch.                    *)
BatchPostpones ==
    /\ Working /\ job.todo = {} /\ job.unsettled # {}
    /\ dirty' = dirty \union job.unsettled
    /\ debounce' = TRUE
    /\ Does([job EXCEPT !.unsettled = {}])
    /\ UNCHANGED <<disk, phase, snapshot, requested, rootDown, tasks, refresh, bounds, excused>>

(* The diff is made, and the copy becomes the snapshot.                    *)
BatchEnds ==
    /\ Working /\ job.todo = {} /\ job.unsettled = {}
    /\ snapshot' = Taken(job)
    /\ JobEnds("queue", FALSE)
    /\ UNCHANGED <<disk, dirty, debounce, requested, rootDown, bounds, excused>>

-----------------------------------------------------------------------------

Init ==
    /\ \E items \in StartTrees : past = <<[root |-> "here", items |-> items]>>
    /\ fresh = {}
    /\ notices = {}
    /\ phase = "down"
    /\ snapshot = None
    /\ dirty = {}
    /\ debounce = FALSE
    /\ requested = FALSE
    /\ rootDown = FALSE
    /\ tasks = <<>>
    /\ jobs = [s \in Slots |-> None]
    /\ refresh = NoRefresh
    /\ faults = 0
    /\ refreshes = 0
    /\ excused = {}

Others == \E p \in Paths : Creates(p) \/ Writes(p) \/ Deletes(p) \/ Locks(p) \/ Links(p)

ScanSteps(s) == ScanRoot(s) \/ ScanFolder(s) \/ ScanFindsNoRoot(s) \/ ScanEnds(s)
BatchSteps == BatchSkipped \/ BatchFindsNoRoot \/ BatchTaken \/ PathRead \/ FileSettles
              \/ FolderScanned \/ BatchThrows \/ BatchPostpones \/ BatchEnds

Next ==
    \/ Others \/ RootChanges \/ Ages
    \/ EventsArrive \/ WatcherFails \/ DebounceFires \/ ScanRequested \/ RefreshCalled
    \/ Start \/ Subscribes \/ ScanTaken
    \/ \E s \in Slots : ScanSteps(s)
    \/ BatchSteps

Spec == Init /\ [][Next]_vars

(* The program is started and its tasks run, events arrive, time passes,   *)
(* timers fire.                                                            *)
Fairness ==
    /\ WF_vars(Start \/ Subscribes)
    /\ \A s \in Slots : WF_vars(ScanSteps(s))
    /\ WF_vars(ScanTaken \/ BatchSteps)
    /\ WF_vars(ScanRequested)
    /\ WF_vars(Ages)

FairSpec == Spec /\ Fairness

-----------------------------------------------------------------------------
(* Properties.                                                             *)

TypeOK ==
    /\ past \in Seq(Tree) /\ past # <<>>
    /\ fresh \subseteq Files
    /\ notices \subseteq Paths /\ dirty \subseteq Paths /\ excused \subseteq Paths
    /\ {debounce, requested, rootDown} \subseteq BOOLEAN
    /\ phase \in {"down", "scanning", "scanned", "up", "failed"}
    /\ snapshot # None => snapshot \in Snapshot /\ snapshot.root # "gone"
    /\ tasks \in Seq(Tasks)
    /\ jobs \in [Slots -> Job \union {None}]
    /\ jobs["queue"] # None => tasks # <<>>
    /\ refresh \in [pc : {"none", "waiting", "done"}, path : Files \union {None},
                    since : Nat, skipped : BOOLEAN]
    /\ refresh.pc = "waiting" => "refresh" \in Range(tasks)

(* What a snapshot, or what a job has so far, shows at p.  It says nothing *)
(* about what is, or is below, a path it could not read; of the rest it    *)
(* does, also when it is not complete: the next batch calls it complete    *)
(* without another look (watcher.ts:278).                                  *)
Sight(x, p) ==
    IF Upto(p) \intersect x.unsyncable # {} THEN Unknown
    ELSE IF p \in DOMAIN x.entries THEN x.entries[p]
    ELSE None
Shown(p) == IF snapshot = None THEN Unknown ELSE Sight(snapshot, p)

(* Refinement: whatever overlaps, the snapshot never shows a file older    *)
(* than the beginning of the scan or batch that put it there, and never    *)
(* denies a path that could be looked at all through it.  What is below a  *)
(* folder that was shut for a while may be denied (watcher.ts:238): see    *)
(* AbsenceIsDeletion.                                                      *)
View == INSTANCE LaggingView WITH
    Things <- Paths, Absent <- None, OutOfView <- None,
    shown <- [p \in Paths |-> Shown(p)],
    readings <- {jobs[s].since : s \in {o \in Slots : jobs[o] # None}}
LagsOnly == View!Spec

Hidden(t, p) == \E q \in Upto(p) :
    At(t, q) # None /\ (At(t, q).kind = "link" \/ ~At(t, q).open)
Want(p) == IF Hidden(tree, p) THEN Unknown ELSE Own(tree, p)
True(p) == Shown(p) = Want(p)

AtRest == \A s \in Slots : jobs[s] = None

(* What is dirty is looked at in time: a timer or a task is there for it.  *)
DirtyIsDue == dirty # {} => debounce \/ tasks # <<>>

(* A watcher with nothing left to do is right about every path but the     *)
(* excused ones: an event that is delivered while a scan is requested or   *)
(* runs, or for a file that is still written, is not lost                  *)
(* (watcher.ts:205, 161, 275).                                             *)
CaughtUpIsTrue ==
    /\ DirtyIsDue
    /\ phase = "up" /\ AtRest /\ tasks = <<>> /\ notices = {} /\ dirty = {}
       /\ tree.root = "here" /\ snapshot # None
           => \A p \in Paths \ excused : True(p)

(* refreshNow(): the next cycle sees what was written, or something newer, *)
(* unless a scan was requested in between, the root is away or a folder of *)
(* the batch cannot be read (watcher.ts:122).                              *)
RefreshHolds ==
    refresh.pc = "done" /\ ~refresh.skipped
        => Shown(refresh.path) \in {Unknown} \union View!Seen(refresh.path, refresh.since)

(* A root that was away all through a batch yields no deletes              *)
(* (watcher.ts:10).                                                        *)
NoDeletesWithoutRoot ==
    [][(\A s \in Slots : jobs[s] # None => jobs[s].kind # "scan") /\ snapshot # None
       /\ (\A i \in (IF job = None THEN Now ELSE job.since) .. Now : past[i].root # snapshot.root)
         => snapshot' = snapshot]_vars

(* What the snapshot got wrong is put right by the periodic scan once the  *)
(* folder is left alone, if start() succeeded (watcher.ts:96).             *)
Heals == <>[](tree.root = "here" /\ phase # "failed" => \A p \in Paths : True(p))

(* What the reconciler takes for deleted: it is neither listed nor hidden  *)
(* in a complete snapshot (engine.ts:98).                                  *)
Deleted(p) ==
    /\ snapshot # None /\ snapshot.complete
    /\ p \notin DOMAIN snapshot.entries \union snapshot.unsyncable

(* reconcile/types.ts:53, test-suite/spec.md:63: absence is not a delete,  *)
(* what is taken for deleted did not stand there at some time.             *)
Missing(t, p) == Stands(t, p) = None \/ Stands(t, p).kind = "link"
AbsenceIsDeletion == \A p \in Paths : Deleted(p) => \E i \in 1 .. Now : Missing(past[i], p)

=============================================================================
