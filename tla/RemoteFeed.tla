----------------------------- MODULE RemoteFeed -----------------------------
(***************************************************************************)
(* The engine's view of the drive: engine/remoteMirror.ts, the change feed *)
(* remote/events.ts that keeps it current, and the full listings that      *)
(* engine/engine.ts makes (at start, periodically, when a cycle finds the  *)
(* mirror incomplete, and when the feed asks for one).                     *)
(*                                                                         *)
(* A listing takes one call per folder.  It overlaps with the handling of  *)
(* events and with other listings.  The cursor is kept in the store; all   *)
(* else is gone after a crash.                                             *)
(***************************************************************************)
EXTENDS Integers, Sequences, FiniteSets, TLC

CONSTANTS
    None, Unknown,
    Files, Dirs,     \* uids of the nodes there may be
    Root, Outside,   \* the sync root, and a folder elsewhere on the drive
    StartTrees,      \* what the drive may hold at first
    MaxChanges,      \* bound: changes of the drive
    MaxFaults        \* bound: calls that fail, and crashes

Uids == Files \union Dirs

(* Who lists: the engine (start(), then its cycles and its interval, one   *)
(* at a time), and the feed.                                               *)
Callers == {"engine", "feed"}

Node == [parent : Dirs \union {Root, Outside}, rev : Nat, trashed : BOOLEAN]
Trees == [Uids -> Node \union {None}]

(* A listing in progress. *)
Listings == [since : Nat, queue : SUBSET (Dirs \union {Root}), found : Trees]

ASSUME FeedAssumption ==
    /\ Files \intersect Dirs = {}
    /\ {Root, Outside, None, Unknown} \intersect Uids = {}
    /\ Root # Outside
    /\ None \notin Node /\ None \notin Listings /\ None \notin Nat
    /\ None \notin {<<Root>>} \union {<<Root, d>> : d \in Dirs}
    /\ StartTrees \subseteq Trees
    /\ \A tree \in StartTrees, d \in Dirs :
           tree[d] # None => tree[d].parent \in {Root, Outside}

VARIABLES
    (* The drive. *)
    past,        \* the trees the drive held, the last one is the one of now
    events,      \* the event stream: one event per change
    (* The store. *)
    cursor,      \* the event handled last
    (* RemoteMirror. *)
    nodes,       \* by uid, None for one that is not in it
    complete, available, asOf,
    (* Calls in progress. *)
    phase,       \* of the process: is the feed started?
    listings,    \* fullRefresh(), by caller
    poll,        \* poll() and its loop
    degraded,    \* degradedRefreshRequested
    (* A bound, and history. *)
    faults,
    excused      \* nodes the mirror may be wrong about, see CaughtUpIsTrue

remote == <<past, events>>
mirror == <<nodes, complete, available, asOf>>
calls == <<phase, listings, poll, degraded>>
vars == <<remote, cursor, mirror, calls, faults, excused>>

-----------------------------------------------------------------------------
(* The drive, as remote/interface.ts and testing/fakeRemote.ts show it.    *)
(* Folders stand in the root or outside of it.                             *)

Now == Len(past)
drive == past[Now]

(* What getNode() tells of u.                                              *)
Own(tree, u) == tree[u]

(* The folders a listing goes through to find u, None when it does not.    *)
Way(tree, u) ==
    IF tree[u] = None THEN None
    ELSE LET p == tree[u].parent IN
         IF p = Root THEN <<Root>>
         ELSE IF p = Outside \/ tree[p] = None THEN None
         ELSE IF tree[p].parent = Root /\ ~tree[p].trashed THEN <<Root, p>>
         ELSE None

(* What listChildren(d) returns.                                           *)
Children(tree, d) == {u \in Uids : tree[u] # None /\ tree[u].parent = d}

Gone(d) == d \in Dirs /\ drive[d] = None
Below(tree, u) == IF u \in Dirs THEN Children(tree, u) ELSE {}
Listing == \E c \in Callers : listings[c] # None

(* Without a cursor the feed starts with whatever is the latest event.     *)
Unfollowed == cursor = None

(* Something happens to node u.  Three changes are not followed by events  *)
(* and make an excuse: what changes before there is a cursor, what changes *)
(* while a listing and the feed both work, and what is below a folder that *)
(* comes into view or moves under the eyes of a listing.                   *)
Change(u, node, type) ==
    /\ Len(events) < MaxChanges
    /\ past' = Append(past, [drive EXCEPT ![u] = node])
    /\ events' = Append(events, [type |-> type, uid |-> u])
    /\ LET below == Below(drive, u) \union Below(past'[Now + 1], u)
           appears == drive[u] = None \/ Way(drive, u) = None \/ drive[u].trashed
       IN excused' = excused \union
            (IF Unfollowed \/ (Listing /\ phase = "up") THEN below \union {u}
             ELSE IF Listing \/ appears THEN below
             ELSE {})
    /\ UNCHANGED <<cursor, mirror, calls, faults>>

Places(u) ==
    {Root} \union IF u \in Dirs THEN {Outside} ELSE {d \in Dirs : drive[d] # None}

Creates(u) == \E p \in Places(u) :
    /\ \A i \in 1 .. Now : past[i][u] = None
    /\ Change(u, [parent |-> p, rev |-> 0, trashed |-> FALSE], "node_created")
Edits(u) ==
    /\ u \in Files /\ drive[u] # None
    /\ Change(u, [drive[u] EXCEPT !.rev = @ + 1], "node_updated")
Moves(u) == \E p \in Places(u) :
    /\ drive[u] # None /\ drive[u].parent # p
    /\ Change(u, [drive[u] EXCEPT !.parent = p], "node_updated")
(* And restores; for the mirror a file that is trashed is one more edit.   *)
Trashes(u) ==
    /\ u \in Dirs /\ drive[u] # None
    /\ Change(u, [drive[u] EXCEPT !.trashed = ~@], "node_updated")
Deletes(u) ==
    /\ drive[u] # None /\ Below(drive, u) = {}
    /\ Change(u, None, "node_deleted")

-----------------------------------------------------------------------------
(* Full listings.                                                          *)

NoNodes == [u \in Uids |-> None]

Fails == faults < MaxFaults /\ faults' = faults + 1

Started == [since |-> Now, queue |-> {Root}, found |-> NoNodes]
Lists(c) == listings' = [listings EXCEPT ![c] = Started]

(* start(), before the feed is started.                                    *)
StartLists ==
    /\ phase = "down"
    /\ phase' = "starting"
    /\ Lists("engine")
    /\ UNCHANGED <<remote, cursor, mirror, poll, degraded, faults, excused>>

(* Mutant: only the cycles list.                                           *)
CycleLists ==
    /\ phase = "up" /\ ~complete
    /\ listings["engine"] = None
    /\ Lists("engine")
    /\ UNCHANGED <<remote, cursor, mirror, phase, poll, degraded, faults, excused>>

(* The interval of the listing timer fires, or a cycle finds the mirror    *)
(* incomplete, which is no other case for the mirror.                      *)
EngineLists ==
    /\ phase = "up"
    /\ listings["engine"] = None
    /\ Lists("engine")
    /\ UNCHANGED <<remote, cursor, mirror, phase, poll, degraded, faults, excused>>

(* One listChildren(): the folders among the children are listed later.    *)
ListFolder(c) == \E d \in (IF listings[c] = None THEN {} ELSE listings[c].queue) :
    /\ ~Gone(d)
    /\ LET children == Children(drive, d)
           folders == {u \in children \intersect Dirs : ~drive[u].trashed}
       IN listings' = [listings EXCEPT
             ![c].queue = (@ \ {d}) \union folders,
             ![c].found = [u \in Uids |-> IF u \in children THEN drive[u] ELSE @[u]]]
    /\ UNCHANGED <<remote, cursor, mirror, phase, poll, degraded, faults, excused>>

(* Mutant: the loop that heals is taken for an event.                      *)
ListingReturnsStoring(c) ==
    /\ listings' = [listings EXCEPT ![c] = None]
    /\ phase' = IF c = "engine" THEN "up" ELSE phase
    /\ poll' = IF c = "feed" THEN [poll EXCEPT !.pc = "storing"] ELSE poll
    /\ UNCHANGED degraded

(* Where the caller goes on: start() starts the feed whether the listing   *)
(* succeeded or not, and the feed stores the cursor of the event that      *)
(* required the listing whether it succeeded or not.                       *)
ListingReturns(c) ==
    /\ listings' = [listings EXCEPT ![c] = None]
    /\ phase' = IF c = "engine" THEN "up" ELSE phase
    /\ poll' = IF c = "feed"
               THEN [poll EXCEPT !.pc = IF @ = "refreshing" THEN "storing" ELSE "idle"]
               ELSE poll
    /\ UNCHANGED degraded

(* The listing has every folder and replaces the mirror.  One that nothing *)
(* disturbed takes back the excuses.                                       *)
ListingEnds(c) ==
    /\ listings[c] # None
    /\ listings[c].queue = {}
    /\ nodes' = listings[c].found
    /\ complete' = TRUE
    /\ available' = TRUE
    /\ asOf' = listings[c].since
    /\ excused' = IF listings[c].since = Now /\ \A o \in Callers \ {c} : listings[o] = None
                  THEN {} ELSE excused
    /\ ListingReturns(c)
    /\ UNCHANGED <<remote, cursor, faults>>

(* Mutant: the folder counts as empty.                                     *)
ListingFailsSilently(c) ==
    /\ listings[c] # None
    /\ \E d \in listings[c].queue :
         /\ Fails
         /\ listings' = [listings EXCEPT ![c].queue = @ \ {d}]
    /\ UNCHANGED <<remote, cursor, mirror, phase, poll, degraded, excused>>

(* A call of the listing fails, because of the connection or because the   *)
(* folder is gone: the mirror keeps its nodes and stops being complete.    *)
ListingFails(c) ==
    /\ listings[c] # None
    /\ \E d \in listings[c].queue :
         IF Gone(d) THEN UNCHANGED faults ELSE Fails
    /\ complete' = FALSE
    /\ available' = FALSE
    /\ ListingReturns(c)
    /\ UNCHANGED <<remote, cursor, nodes, asOf, excused>>

-----------------------------------------------------------------------------
(* The poll loop of RemoteChangeFeed.                                      *)

Idle == [pc |-> "idle", since |-> 0, batch |-> <<>>, got |-> None, seen |-> 0]
Event == Head(poll.batch)

PollBegins ==
    /\ phase = "up" /\ poll.pc = "idle"
    /\ poll' = [Idle EXCEPT !.pc = "asking", !.since = Now]
    /\ UNCHANGED <<remote, cursor, mirror, phase, listings, degraded, faults, excused>>

(* iterateEvents(): the events behind the cursor, or one event that stands *)
(* for them: the server asks for a refresh when the cursor is too old or   *)
(* too much has changed.                                                   *)
Single(type) == <<[type |-> type, uid |-> None, id |-> Len(events)]>>
Pending == [i \in 1 .. Len(events) - cursor |->
              [type |-> events[cursor + i].type, uid |-> events[cursor + i].uid,
               id |-> cursor + i]]

PollAnswered ==
    /\ poll.pc = "asking"
    /\ \/ /\ cursor \in {None, Len(events)}
          /\ poll' = [poll EXCEPT !.pc = "storing", !.batch = Single("fast_forward")]
       \/ /\ cursor \notin {None, Len(events)}
          /\ \E batch \in {Pending, Single("refresh_required")} :
               poll' = [poll EXCEPT !.pc = "handling", !.batch = batch]
    /\ UNCHANGED <<remote, cursor, mirror, phase, listings, degraded, faults, excused>>

(* Node events carry no data: applyEvent() reads the node, and what it got *)
(* arrives later.                                                          *)
EventReads ==
    /\ poll.pc = "handling"
    /\ Event.type \in {"node_created", "node_updated"}
    /\ poll' = [poll EXCEPT !.pc = "applying", !.got = drive[Event.uid], !.seen = Now]
    /\ UNCHANGED <<remote, cursor, mirror, phase, listings, degraded, faults, excused>>

WithNode(u, node) == [nodes EXCEPT ![u] = node]

EventApplied ==
    /\ poll.pc = "applying"
    /\ nodes' = WithNode(Event.uid, poll.got)
    /\ available' = TRUE
    /\ poll' = [poll EXCEPT !.pc = "storing", !.got = None, !.seen = 0]
    /\ UNCHANGED <<remote, cursor, complete, asOf, phase, listings, degraded, faults, excused>>

EventDeletes ==
    /\ poll.pc = "handling" /\ Event.type = "node_deleted"
    /\ nodes' = WithNode(Event.uid, None)
    /\ poll' = [poll EXCEPT !.pc = "storing"]
    /\ UNCHANGED <<remote, cursor, complete, available, asOf, phase, listings, degraded,
                   faults, excused>>

EventRefreshes ==
    /\ poll.pc = "handling" /\ Event.type = "refresh_required"
    /\ Lists("feed")
    /\ poll' = [poll EXCEPT !.pc = "refreshing"]
    /\ UNCHANGED <<remote, cursor, mirror, phase, degraded, faults, excused>>

(* The cursor is stored after its event was handled.  With the last event  *)
(* the poll has succeeded, and the mirror is as of its beginning.          *)
CursorStored ==
    /\ poll.pc = "storing"
    /\ cursor' = Event.id
    /\ IF Len(poll.batch) = 1
       THEN /\ poll' = Idle
            /\ degraded' = FALSE
            /\ asOf' = IF asOf < poll.since THEN poll.since ELSE asOf
       ELSE /\ poll' = [poll EXCEPT !.pc = "handling", !.batch = Tail(@)]
            /\ UNCHANGED <<degraded, asOf>>
    /\ UNCHANGED <<remote, nodes, complete, available, phase, listings, faults, excused>>

(* Mutant: the event counts as handled.                                    *)
PollFailsHandled ==
    /\ poll.pc \in {"asking", "handling"}
    /\ poll.pc = "handling" => Event.type \in {"node_created", "node_updated"}
    /\ Fails
    /\ poll' = IF poll.pc = "handling" THEN [poll EXCEPT !.pc = "storing"] ELSE Idle
    /\ UNCHANGED <<remote, cursor, mirror, phase, listings, degraded, excused>>

(* The stream or the reading of a node fails: the poll ends, its event     *)
(* will be served again.  After a long silence the loop asks for one       *)
(* listing.                                                                *)
PollFails ==
    /\ poll.pc \in {"asking", "handling"}
    /\ poll.pc = "handling" => Event.type \in {"node_created", "node_updated"}
    /\ Fails
    /\ \/ poll' = Idle /\ UNCHANGED <<listings, degraded>>
       \/ /\ ~degraded
          /\ degraded' = TRUE
          /\ poll' = [Idle EXCEPT !.pc = "healing"]
          /\ Lists("feed")
    /\ UNCHANGED <<remote, cursor, mirror, phase, excused>>

-----------------------------------------------------------------------------

Crash ==
    /\ Fails
    /\ nodes' = NoNodes
    /\ complete' = FALSE
    /\ available' = TRUE
    /\ asOf' = 0
    /\ phase' = "down"
    /\ listings' = [c \in Callers |-> None]
    /\ poll' = Idle
    /\ degraded' = FALSE
    /\ UNCHANGED <<remote, cursor, excused>>

Init ==
    /\ \E tree \in StartTrees : past = <<tree>>
    /\ events = <<>>
    /\ cursor = None
    /\ nodes = NoNodes
    /\ complete = FALSE
    /\ available = TRUE
    /\ asOf = 0
    /\ phase = "down"
    /\ listings = [c \in Callers |-> None]
    /\ poll = Idle
    /\ degraded = FALSE
    /\ faults = 0
    /\ excused = {}

Others == \E u \in Uids : Creates(u) \/ Edits(u) \/ Moves(u) \/ Trashes(u) \/ Deletes(u)

ListingSteps(c) == ListFolder(c) \/ ListingEnds(c) \/ ListingFails(c)
EventSteps == EventReads \/ EventApplied \/ EventDeletes \/ EventRefreshes
PollSteps == PollBegins \/ PollAnswered \/ EventSteps \/ CursorStored \/ PollFails

Next ==
    \/ Others
    \/ StartLists \/ EngineLists
    \/ \E c \in Callers : ListingSteps(c)
    \/ PollSteps
    \/ Crash

Spec == Init /\ [][Next]_vars

(* The program is started, calls are answered, the loop of the feed polls, *)
(* the interval fires.                                                     *)
Fairness ==
    /\ WF_vars(StartLists)
    /\ WF_vars(EngineLists)
    /\ \A c \in Callers : WF_vars(ListingSteps(c))
    /\ WF_vars(PollSteps)

FairSpec == Spec /\ Fairness

-----------------------------------------------------------------------------
(* Properties.                                                             *)

PollPcs == {"idle", "asking", "handling", "applying", "refreshing", "storing", "healing"}

TypeOK ==
    /\ past \in Seq(Trees) /\ Now = Len(events) + 1
    /\ cursor \in 0 .. Len(events) \union {None}
    /\ nodes \in Trees
    /\ complete \in BOOLEAN /\ available \in BOOLEAN
    /\ asOf \in 0 .. Now
    /\ phase \in {"down", "starting", "up"}
    /\ listings \in [Callers -> Listings \union {None}]
    /\ poll.pc \in PollPcs
    /\ poll.pc \in {"idle", "asking", "healing"} <=> poll.batch = <<>>
    /\ degraded \in BOOLEAN

(* What the mirror shows for u; only a complete and available mirror says  *)
(* that a node is not there.                                               *)
Shown(u) ==
    IF nodes[u] # None THEN nodes[u]
    ELSE IF complete /\ available THEN None ELSE Unknown

(* Refinement: whatever overlaps, the mirror never shows a node older than *)
(* the beginning of the reading that put it there, and never denies a node *)
(* that stood in one place all through that reading (RemoteMirror).        *)
View == INSTANCE LaggingView WITH
    Things <- Uids, Absent <- None, OutOfView <- None,
    shown <- [u \in Uids |-> Shown(u)],
    readings <- {listings[c].since : c \in {o \in Callers : listings[o] # None}}
                \union (IF poll.pc = "applying" THEN {poll.seen} ELSE {})
LagsOnly == View!Spec

True(u) == IF nodes[u] # None THEN nodes[u] = drive[u] ELSE Way(drive, u) = None

(* A feed that has handled every event leaves a complete mirror right      *)
(* about every node but the excused ones, listings in progress or not: an  *)
(* event is replayed, never skipped, when its handling fails or the        *)
(* program crashes (events.ts:96).                                         *)
CaughtUpIsTrue ==
    complete /\ cursor = Len(events) => \A u \in Uids \ excused : True(u)

(* Whatever the mirror got wrong is put right by the periodic listing once *)
(* the drive is left alone (engine.ts:217).                                *)
Heals == <>[](complete /\ \A u \in Uids : True(u))

=============================================================================
