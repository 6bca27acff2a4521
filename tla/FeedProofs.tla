----------------------------- MODULE FeedProofs -----------------------------
(***************************************************************************)
(* RemoteFeed implements LaggingView, and a feed that has caught up is     *)
(* right, for every drive, however many changes, listings and failures     *)
(* there are.                                                              *)
(*                                                                         *)
(* The argument: what a listing has found of a node was so at some moment  *)
(* since the listing began, and a node that stood in one place all the     *)
(* while is found already or still has a folder of its way in the queue    *)
(* (ListingsTrue); the node an event brings is that of the moment it was   *)
(* read (ReadingTrue); and a deleted node does not come back               *)
(* (DeletedStay).  What a complete mirror is wrong about is due: an event  *)
(* behind the last one that was handled tells of it (MirrorTrue), which    *)
(* needs that a listing in progress has each node as it is now, or still   *)
(* comes by (ListingsKnow).                                                *)
(***************************************************************************)
EXTENDS RemoteFeed, SequenceTheorems, TLAPS

EventTypes == {"node_created", "node_updated", "node_deleted"}
ChangeEvent == [type : EventTypes, uid : Uids]

AnyType == EventTypes \union {"fast_forward", "refresh_required"}
BatchEntry == [type : AnyType, uid : Uids \union {None}, id : Nat]

(* The drive and its events.                                               *)
DriveOK ==
    /\ past \in Seq(Trees)
    /\ events \in Seq(ChangeEvent)
    /\ Len(past) = Len(events) + 1

(* The mirror, the cursor, and who lists.                                  *)
CallsOK ==
    /\ cursor \in 0 .. Len(events) \union {None}
    /\ nodes \in Trees
    /\ complete \in BOOLEAN /\ available \in BOOLEAN /\ degraded \in BOOLEAN
    /\ complete => available
    /\ asOf \in 0 .. Now
    /\ listings \in [Callers -> Listings \union {None}]
    /\ \A c \in Callers : listings[c] # None => listings[c].since \in 1 .. Now
    /\ phase \in {"down", "starting", "up"}
    /\ phase = "down" => listings["engine"] = None

(* An event of a batch is one of the stream, or stands for several.        *)
Served(e) ==
    /\ e.id <= Len(events)
    /\ e.type \in EventTypes => /\ e.id \in 1 .. Len(events)
                                /\ e.type = events[e.id].type
                                /\ e.uid = events[e.id].uid

PollOK ==
    /\ poll \in [pc : PollPcs, since : Nat, batch : Seq(BatchEntry),
                 got : Node \union {None}, seen : Nat]
    /\ poll.since <= Now
    /\ \A k \in 1 .. Len(poll.batch) : Served(poll.batch[k])
    /\ poll.pc \in {"idle", "asking", "healing"} <=> poll.batch = <<>>
    /\ poll.pc = "applying" => Event.type \in EventTypes
    /\ listings["feed"] # None => poll.pc \in {"refreshing", "healing"}

(* A node that was deleted does not come back.                             *)
DeletedStay ==
    \A j \in 1 .. Len(events) :
        events[j].type = "node_deleted" =>
            /\ drive[events[j].uid] = None
            /\ \E i \in 1 .. Now : past[i][events[j].uid] # None

(* What a listing knows and what it will know.                             *)
ListingTrue(l) ==
    /\ \A u \in Uids : l.found[u] # None => \E i \in l.since .. Now : past[i][u] = l.found[u]
    /\ \A u \in Uids : View!Steady(u, l.since) =>
          \/ l.found[u] # None
          \/ \E k \in DOMAIN Way(drive, u) : Way(drive, u)[k] \in l.queue
ListingsTrue == \A c \in Callers : listings[c] # None => ListingTrue(listings[c])

(* The node that was read was so at that moment.                           *)
ReadingTrue ==
    poll.pc = "applying" => poll.seen \in 1 .. Now /\ poll.got = past[poll.seen][Event.uid]

Inv == DriveOK /\ CallsOK /\ PollOK /\ DeletedStay /\ ListingsTrue /\ ReadingTrue

-----------------------------------------------------------------------------
(* The changes of the drive.                                               *)

(* What a change of the drive is, whoever made it.                         *)
ChangeOf(u, node, type) ==
    /\ Change(u, node, type)
    /\ type = "node_deleted" => node = None /\ drive[u] # None
    /\ node # None => drive[u] # None \/ \A i \in 1 .. Now : past[i][u] = None

LEMMA DriveFacts ==
    ASSUME DriveOK
    PROVE  /\ Now \in Nat \ {0} /\ drive \in Trees
           /\ \A i \in 1 .. Now : past[i] \in Trees
    BY DEF DriveOK, Now, drive

LEMMA OthersChange ==
    ASSUME DriveOK, Others
    PROVE  \E u \in Uids, node \in Node \union {None}, type \in EventTypes :
               ChangeOf(u, node, type)
<1>0. drive \in Trees
    BY DriveFacts
<1> PICK u \in Uids : Creates(u) \/ Edits(u) \/ Moves(u) \/ Trashes(u) \/ Deletes(u)
    BY DEF Others
<1>5. drive[u] \in Node \union {None}
    BY <1>0 DEF Trees
<1>6. Places(u) \subseteq Dirs \union {Root, Outside}
    BY DEF Places
<1>1. CASE Creates(u)
  <2> PICK p \in Places(u) :
        /\ \A i \in 1 .. Now : past[i][u] = None
        /\ Change(u, [parent |-> p, rev |-> 0, trashed |-> FALSE], "node_created")
      BY <1>1 DEF Creates
  <2>1. [parent |-> p, rev |-> 0, trashed |-> FALSE] \in Node
      BY <1>6 DEF Node
  <2> QED
      BY <2>1 DEF ChangeOf, EventTypes
<1>2. CASE Edits(u)
  <2>1. drive[u] \in Node /\ [drive[u] EXCEPT !.rev = @ + 1] \in Node
      BY <1>2, <1>5 DEF Edits, Node
  <2> QED
      BY <1>2, <2>1 DEF Edits, ChangeOf, EventTypes
<1>3. CASE Moves(u)
  <2> PICK p \in Places(u) :
        /\ drive[u] # None
        /\ Change(u, [drive[u] EXCEPT !.parent = p], "node_updated")
      BY <1>3 DEF Moves
  <2>1. drive[u] \in Node /\ [drive[u] EXCEPT !.parent = p] \in Node
      BY <1>5, <1>6 DEF Node
  <2> QED
      BY <2>1 DEF ChangeOf, EventTypes
<1>4. CASE Trashes(u)
  <2>1. drive[u] \in Node /\ [drive[u] EXCEPT !.trashed = ~@] \in Node
      BY <1>4, <1>5 DEF Trashes, Node
  <2> QED
      BY <1>4, <2>1 DEF Trashes, ChangeOf, EventTypes
<1>7. CASE Deletes(u)
    BY <1>7 DEF Deletes, ChangeOf, EventTypes
<1> QED
    BY <1>1, <1>2, <1>3, <1>4, <1>7

(* A change adds one tree and one event.                                   *)
LEMMA ChangeFacts ==
    ASSUME DriveOK, NEW u \in Uids, NEW node \in Node \union {None},
           NEW type \in EventTypes, Change(u, node, type)
    PROVE  /\ DriveOK'
           /\ Now' = Now + 1
           /\ \A i \in 1 .. Now : past'[i] = past[i]
           /\ drive' = [drive EXCEPT ![u] = node]
           /\ past'[Now + 1] = drive'
           /\ Len(events') = Len(events) + 1
           /\ \A i \in 1 .. Len(events) : events'[i] = events[i]
           /\ events'[Len(events) + 1] = [type |-> type, uid |-> u]
           /\ UNCHANGED <<cursor, mirror, calls, faults>>
<1>1. [drive EXCEPT ![u] = node] \in Trees
    BY DriveFacts DEF Trees
<1>2. [type |-> type, uid |-> u] \in ChangeEvent
    BY DEF ChangeEvent
<1>3. past' = Append(past, [drive EXCEPT ![u] = node])
    BY DEF Change
<1>4. events' = Append(events, [type |-> type, uid |-> u])
    BY DEF Change
<1>5. past' \in Seq(Trees) /\ Len(past') = Now + 1
      /\ (\A i \in 1 .. Now : past'[i] = past[i])
      /\ past'[Now + 1] = [drive EXCEPT ![u] = node]
    BY <1>1, <1>3 DEF DriveOK, Now
<1>6. events' \in Seq(ChangeEvent) /\ Len(events') = Len(events) + 1
      /\ (\A i \in 1 .. Len(events) : events'[i] = events[i])
      /\ events'[Len(events) + 1] = [type |-> type, uid |-> u]
    BY <1>2, <1>4 DEF DriveOK
<1>7. UNCHANGED <<cursor, mirror, calls, faults>>
    BY DEF Change
<1>8. DriveOK' /\ Now' = Now + 1 /\ drive' = [drive EXCEPT ![u] = node]
    BY <1>5, <1>6 DEF DriveOK, Now, drive
<1> QED
    BY <1>5, <1>6, <1>7, <1>8

-----------------------------------------------------------------------------
(* The steps of the program leave the drive alone.                         *)

LEMMA ProgramOrOthers ==
    ASSUME [Next]_vars, ~Others
    PROVE  \/ UNCHANGED vars \/ StartLists \/ EngineLists
           \/ \E c \in Callers : ListFolder(c) \/ ListingEnds(c) \/ ListingFails(c)
           \/ PollBegins \/ PollAnswered \/ EventReads \/ EventApplied \/ EventDeletes
           \/ EventRefreshes \/ CursorStored \/ PollFails \/ Crash
    BY DEF Next, ListingSteps, PollSteps, EventSteps

LEMMA Undriven ==
    ASSUME [Next]_vars, ~Others
    PROVE  UNCHANGED <<past, events>> /\ Now' = Now /\ drive' = drive
<1>1. UNCHANGED <<past, events>>
    BY ProgramOrOthers DEF vars, remote, StartLists, EngineLists, ListFolder, ListingEnds,
       ListingFails, PollBegins, PollAnswered, EventReads, EventApplied, EventDeletes,
       EventRefreshes, CursorStored, PollFails, Crash
<1> QED
    BY <1>1 DEF Now, drive

-----------------------------------------------------------------------------
(* Types.                                                                  *)

Types == DriveOK /\ CallsOK /\ PollOK

LEMMA InitTypes == Init => Types
<1> SUFFICES ASSUME Init PROVE Types
    OBVIOUS
<1>1. PICK tree \in StartTrees : past = <<tree>>
    BY DEF Init
<1>2. past \in Seq(Trees) /\ Len(past) = 1
    BY <1>1, FeedAssumption
<1>3. events = <<>> /\ events \in Seq(ChangeEvent) /\ Len(events) = 0
    BY DEF Init
<1>4. DriveOK
    BY <1>2, <1>3 DEF DriveOK
<1>5. NoNodes \in Trees
    BY DEF NoNodes, Trees
<1>6. CallsOK
  <2>1. /\ listings \in [Callers -> Listings \union {None}]
        /\ \A c \in Callers : listings[c] = None
        /\ listings["engine"] = None
      BY DEF Init, Callers
  <2>2. cursor = None /\ nodes \in Trees /\ asOf \in 0 .. Now
      BY <1>2, <1>5 DEF Init, Now
  <2>3. phase = "down" /\ complete = FALSE /\ available = TRUE /\ degraded = FALSE
      BY DEF Init
  <2> QED
      BY <2>1, <2>2, <2>3 DEF CallsOK
<1>7. PollOK
  <2>1. poll = Idle /\ listings["feed"] = None /\ Now = 1
      BY <1>2 DEF Init, Callers, Now
  <2>2. Idle \in [pc : PollPcs, since : Nat, batch : Seq(BatchEntry),
                 got : Node \union {None}, seen : Nat]
      BY DEF Idle, PollPcs
  <2> QED
      BY <2>1, <2>2 DEF PollOK, Idle
<1> QED
    BY <1>4, <1>6, <1>7 DEF Types

LEMMA NewListing ==
    ASSUME DriveOK
    PROVE  Started \in Listings /\ Started # None
<1>1. Now \in Nat /\ NoNodes \in Trees
    BY DriveFacts DEF NoNodes, Trees
<1>2. Started \in Listings
    BY <1>1 DEF Started, Listings
<1> QED
    BY <1>2, FeedAssumption

LEMMA ListsFacts ==
    ASSUME DriveOK, CallsOK, NEW c \in Callers, Lists(c), Now' = Now
    PROVE  /\ listings' \in [Callers -> Listings \union {None}]
           /\ \A o \in Callers : listings'[o] # None => listings'[o].since \in 1 .. Now'
           /\ listings'[c] = Started
           /\ \A o \in Callers \ {c} : listings'[o] = listings[o]
<1>1. listings' = [listings EXCEPT ![c] = Started] /\ Started.since = Now
    BY DEF Lists, Started
<1>2. Now \in 1 .. Now
    BY DriveFacts
<1> QED
    BY <1>1, <1>2, NewListing DEF CallsOK

LEMMA ListingUpdate ==
    ASSUME NEW l \in Listings, NEW Q, NEW F, NEW r, r = [l EXCEPT !.queue = Q, !.found = F]
    PROVE  r = [since |-> l.since, queue |-> Q, found |-> F]
    BY DEF Listings

(* One call of a listing: what it adds to the queue and to what is found.  *)
LEMMA FolderFacts ==
    ASSUME DriveOK, CallsOK, NEW c \in Callers, ListFolder(c)
    PROVE  /\ listings[c] \in Listings /\ listings[c] # None
           /\ UNCHANGED <<remote, cursor, mirror, phase, poll, degraded, faults, excused>>
           /\ \E d \in listings[c].queue, Q \in SUBSET (Dirs \union {Root}), F \in Trees,
                 new \in Listings :
                /\ Q = (listings[c].queue \ {d}) \union
                          {u \in Children(drive, d) \intersect Dirs : ~drive[u].trashed}
                /\ F = [u \in Uids |-> IF u \in Children(drive, d) THEN drive[u]
                                       ELSE listings[c].found[u]]
                /\ new = [since |-> listings[c].since, queue |-> Q, found |-> F]
                /\ listings' = [listings EXCEPT ![c] = new]
<1> PICK d \in listings[c].queue :
      /\ listings[c] # None
      /\ LET children == Children(drive, d)
             folders == {u \in children \intersect Dirs : ~drive[u].trashed}
         IN listings' = [listings EXCEPT
               ![c].queue = (@ \ {d}) \union folders,
               ![c].found = [u \in Uids |-> IF u \in children THEN drive[u] ELSE @[u]]]
      /\ UNCHANGED <<remote, cursor, mirror, phase, poll, degraded, faults, excused>>
    BY DEF ListFolder
<1>0. listings' = [listings EXCEPT ![c] = [listings[c] EXCEPT
         !.queue = (listings[c].queue \ {d}) \union
                     {u \in Children(drive, d) \intersect Dirs : ~drive[u].trashed},
         !.found = [u \in Uids |-> IF u \in Children(drive, d) THEN drive[u]
                                  ELSE listings[c].found[u]]]]
    OBVIOUS
<1> PICK l, Q, F :
      /\ l = listings[c]
      /\ Q = (listings[c].queue \ {d}) \union
                {u \in Children(drive, d) \intersect Dirs : ~drive[u].trashed}
      /\ F = [u \in Uids |-> IF u \in Children(drive, d) THEN drive[u]
                             ELSE listings[c].found[u]]
    OBVIOUS
<1>1. l \in Listings /\ drive \in Trees
    BY DriveFacts DEF CallsOK
<1>2. Q \in SUBSET (Dirs \union {Root}) /\ F \in Trees
    BY <1>1 DEF Listings, Trees
<1> PICK new : new = [since |-> l.since, queue |-> Q, found |-> F]
    OBVIOUS
<1>3. new \in Listings
    BY <1>1, <1>2 DEF Listings
<1>4. listings' = [listings EXCEPT ![c] = new]
  <2>1. PICK r : r = [l EXCEPT !.queue = Q, !.found = F]
      OBVIOUS
  <2>2. r = new
      BY <1>1, <2>1, ListingUpdate
  <2>3. [l EXCEPT !.queue = Q, !.found = F] = new
      BY <2>1, <2>2, Zenon
  <2>4. listings' = [listings EXCEPT ![c] = [l EXCEPT !.queue = Q, !.found = F]]
      BY <1>0, Zenon
  <2> QED
      BY <2>3, <2>4
<1>5. new = [since |-> listings[c].since, queue |-> Q, found |-> F]
    OBVIOUS
<1>6. /\ listings[c] \in Listings /\ listings[c] # None
      /\ UNCHANGED <<remote, cursor, mirror, phase, poll, degraded, faults, excused>>
    BY <1>1
<1>7. \E d2 \in listings[c].queue, Q2 \in SUBSET (Dirs \union {Root}), F2 \in Trees,
         new2 \in Listings :
        /\ Q2 = (listings[c].queue \ {d2}) \union
                  {u \in Children(drive, d2) \intersect Dirs : ~drive[u].trashed}
        /\ F2 = [u \in Uids |-> IF u \in Children(drive, d2) THEN drive[u]
                                ELSE listings[c].found[u]]
        /\ new2 = [since |-> listings[c].since, queue |-> Q2, found |-> F2]
        /\ listings' = [listings EXCEPT ![c] = new2]
  <2>1. Q \in SUBSET (Dirs \union {Root}) /\ F \in Trees
      BY <1>2
  <2> USE <1>3, <2>1
  <2> WITNESS d \in listings[c].queue, Q \in SUBSET (Dirs \union {Root}), F \in Trees,
              new \in Listings
  <2> QED
      BY <1>4, <1>5
<1> QED
    BY <1>6, <1>7

LEMMA CallsStep ==
    ASSUME Types, [Next]_vars
    PROVE  CallsOK'
<1> USE DriveFacts DEF Types, CallsOK
<1>1. CASE Others
  <2> PICK u \in Uids, node \in Node \union {None}, type \in EventTypes :
          ChangeOf(u, node, type)
      BY <1>1, OthersChange
  <2>1. Now' = Now + 1 /\ Len(events') = Len(events) + 1 /\ UNCHANGED <<cursor, mirror, calls>>
      BY ChangeFacts DEF ChangeOf
  <2>2. Len(events) \in Nat
      BY DEF DriveOK
  <2> QED
      BY <2>1, <2>2 DEF mirror, calls
<1>2. CASE ~Others
  <2>0. UNCHANGED <<past, events>> /\ Now' = Now /\ drive' = drive
      BY <1>2, Undriven
  <2> USE <2>0
  <2>1. CASE UNCHANGED vars
      BY <2>1 DEF vars, mirror, calls
  <2>2. CASE StartLists
    <3>1. Lists("engine") /\ "engine" \in Callers
        BY <2>2 DEF StartLists, Callers
    <3> QED
        BY <2>2, <3>1, ListsFacts DEF StartLists, mirror, Callers
  <2>3. CASE EngineLists
    <3>1. Lists("engine") /\ "engine" \in Callers
        BY <2>3 DEF EngineLists, Callers
    <3> QED
        BY <2>3, <3>1, ListsFacts DEF EngineLists, mirror, Callers
  <2>4. ASSUME NEW c \in Callers, ListFolder(c)
        PROVE  CallsOK'
    <3>1. PICK new \in Listings :
            /\ listings[c] # None /\ listings' = [listings EXCEPT ![c] = new]
            /\ new.since = listings[c].since
            /\ UNCHANGED <<remote, cursor, mirror, phase, poll, degraded, faults, excused>>
        BY <2>4, FolderFacts
    <3>2. listings' \in [Callers -> Listings \union {None}]
        BY <3>1
    <3>3. listings'["engine"] = None <=> listings["engine"] = None
        BY <3>1, FeedAssumption DEF Callers
    <3> QED
        BY <3>1, <3>2, <3>3 DEF mirror
  <2>5. ASSUME NEW c \in Callers, ListingEnds(c)
        PROVE  CallsOK'
    <3>1. listings[c] \in Listings
        BY <2>5 DEF ListingEnds
    <3>2. listings[c].since \in 0 .. Now
        BY <3>1, <2>5 DEF ListingEnds
    <3> QED
        BY <2>5, <3>1, <3>2 DEF ListingEnds, ListingReturns, Listings, Callers
  <2>6. ASSUME NEW c \in Callers, ListingFails(c)
        PROVE  CallsOK'
      BY <2>6 DEF ListingFails, ListingReturns, Callers
  <2>7. CASE PollBegins
      BY <2>7 DEF PollBegins, mirror
  <2>8. CASE PollAnswered
      BY <2>8 DEF PollAnswered, mirror
  <2>9. CASE EventReads
      BY <2>9 DEF EventReads, mirror
  <2>10. CASE EventApplied
    <3>1. nodes' \in Trees
        BY <2>10 DEF EventApplied, WithNode, Trees, PollOK
    <3> QED
        BY <2>10, <3>1 DEF EventApplied
  <2>11. CASE EventDeletes
    <3>1. nodes' \in Trees
        BY <2>11 DEF EventDeletes, WithNode, Trees
    <3> QED
        BY <2>11, <3>1 DEF EventDeletes
  <2>12. CASE EventRefreshes
    <3>1. Lists("feed") /\ "feed" \in Callers
        BY <2>12 DEF EventRefreshes, Callers
    <3> QED
        BY <2>12, <3>1, ListsFacts DEF EventRefreshes, mirror, Callers
  <2>13. CASE CursorStored
    <3>1. poll.batch # <<>> /\ poll.batch \in Seq(BatchEntry)
        BY <2>13 DEF CursorStored, PollOK
    <3>2. Event = poll.batch[1] /\ 1 \in 1 .. Len(poll.batch) /\ Event \in BatchEntry
        BY <3>1 DEF Event
    <3>3. Event.id \in 0 .. Len(events)
        BY <3>2 DEF PollOK, Served, BatchEntry, DriveOK
    <3>4. poll.since \in 0 .. Now
        BY DEF PollOK
    <3>5. cursor' = Event.id /\ asOf' \in {asOf, poll.since}
        BY <2>13 DEF CursorStored
    <3>6. degraded' \in BOOLEAN /\ UNCHANGED <<nodes, complete, available, phase, listings>>
        BY <2>13 DEF CursorStored
    <3> QED
        BY <3>3, <3>4, <3>5, <3>6
  <2>14. CASE PollFails
    <3>1. UNCHANGED listings \/ Lists("feed")
        BY <2>14 DEF PollFails
    <3>2. CASE Lists("feed")
        BY <2>14, <3>2, ListsFacts DEF PollFails, mirror, Callers
    <3>3. CASE UNCHANGED listings
        BY <2>14, <3>3 DEF PollFails, mirror
    <3> QED
        BY <3>1, <3>2, <3>3
  <2>15. CASE Crash
    <3>1. NoNodes \in Trees
        BY DEF NoNodes, Trees
    <3>2. /\ listings' \in [Callers -> Listings \union {None}]
          /\ \A c \in Callers : listings'[c] = None
          /\ listings'["engine"] = None
        BY <2>15 DEF Crash, Callers
    <3>3. /\ nodes' \in Trees /\ complete' = FALSE /\ available' = TRUE /\ degraded' = FALSE
          /\ asOf' = 0 /\ cursor' = cursor /\ phase' = "down"
        BY <2>15, <3>1 DEF Crash
    <3>4. asOf' \in 0 .. Now' /\ cursor' \in 0 .. Len(events') \union {None}
        BY <3>3
    <3> QED
        BY <3>2, <3>3, <3>4
  <2> QED
      BY <1>2, ProgramOrOthers, <2>1, <2>2, <2>3, <2>4, <2>5, <2>6, <2>7, <2>8, <2>9,
         <2>10, <2>11, <2>12, <2>13, <2>14, <2>15
<1> QED
    BY <1>1, <1>2

(* The first event of a batch.                                             *)
LEMMA EventFacts ==
    ASSUME Types, poll.batch # <<>>
    PROVE  /\ Event = poll.batch[1] /\ Event \in BatchEntry /\ Served(Event)
           /\ Len(poll.batch) \in Nat \ {0}
<1>1. poll.batch \in Seq(BatchEntry)
    BY DEF Types, PollOK
<1>2. Event = poll.batch[1] /\ 1 \in 1 .. Len(poll.batch) /\ Event \in BatchEntry
    BY <1>1 DEF Event
<1> QED
    BY <1>1, <1>2 DEF Types, PollOK

(* What a poll is told has been served by the stream.                      *)
LEMMA AnswerFacts ==
    ASSUME Types, NEW batch,
           \/ batch = Single("fast_forward") \/ batch = Single("refresh_required")
           \/ batch = Pending /\ cursor \notin {None, Len(events)}
    PROVE  /\ batch \in Seq(BatchEntry) /\ batch # <<>>
           /\ \A k \in 1 .. Len(batch) : Served(batch[k])
<1>0. Len(events) \in Nat /\ events \in Seq(ChangeEvent)
    BY DEF Types, DriveOK
<1>1. ASSUME NEW type \in {"fast_forward", "refresh_required"}, batch = Single(type)
      PROVE  /\ batch \in Seq(BatchEntry) /\ batch # <<>>
             /\ \A k \in 1 .. Len(batch) : Served(batch[k])
  <2>1. [type |-> type, uid |-> None, id |-> Len(events)] \in BatchEntry
      BY <1>0 DEF BatchEntry, AnyType
  <2> QED
      BY <1>0, <1>1, <2>1 DEF Single, Served, EventTypes
<1>2. CASE batch = Pending /\ cursor \notin {None, Len(events)}
  <2>1. cursor \in 0 .. Len(events) /\ Len(events) - cursor \in Nat \ {0}
      BY <1>0, <1>2 DEF Types, CallsOK
  <2>2. ASSUME NEW i \in 1 .. Len(events) - cursor
        PROVE  /\ cursor + i \in 1 .. Len(events)
               /\ events[cursor + i] \in ChangeEvent
               /\ [type |-> events[cursor + i].type, uid |-> events[cursor + i].uid,
                   id |-> cursor + i] \in BatchEntry
    <3>1. cursor + i \in 1 .. Len(events)
        BY <1>0, <2>1
    <3>2. events[cursor + i] \in ChangeEvent
        BY <1>0, <3>1
    <3> QED
        BY <3>1, <3>2 DEF ChangeEvent, BatchEntry, AnyType
  <2>3. batch \in Seq(BatchEntry) /\ Len(batch) = Len(events) - cursor /\ batch # <<>>
    <3>1. batch \in [1 .. Len(events) - cursor -> BatchEntry]
        BY <1>2, <2>2 DEF Pending
    <3>2. batch \in Seq(BatchEntry)
        BY <2>1, <3>1, SeqDef
    <3> QED
        BY <2>1, <3>1, <3>2, LenProperties
  <2>4. ASSUME NEW k \in 1 .. Len(batch)
        PROVE  Served(batch[k])
    <3>1. batch[k] = [type |-> events[cursor + k].type, uid |-> events[cursor + k].uid,
                      id |-> cursor + k]
        BY <1>2, <2>3 DEF Pending
    <3> QED
        BY <2>2, <2>3, <3>1, <2>1, <1>0 DEF Served
  <2> QED
      BY <2>3, <2>4
<1> QED
    BY <1>1, <1>2

PollType == [pc : PollPcs, since : Nat, batch : Seq(BatchEntry),
             got : Node \union {None}, seen : Nat]

LEMMA PollStep ==
    ASSUME Types, [Next]_vars
    PROVE  PollOK'
<1> USE DriveFacts DEF Types
<1>0. /\ poll \in PollType /\ poll.since \in 0 .. Now
      /\ poll.batch \in Seq(BatchEntry) /\ poll.got \in Node \union {None} /\ poll.seen \in Nat
      /\ \A k \in 1 .. Len(poll.batch) : Served(poll.batch[k])
    BY DEF PollOK, PollType
<1>1. CASE Others
  <2> PICK u \in Uids, node \in Node \union {None}, type \in EventTypes :
          ChangeOf(u, node, type)
      BY <1>1, OthersChange
  <2>1. /\ Now' = Now + 1 /\ Len(events') = Len(events) + 1
        /\ \A i \in 1 .. Len(events) : events'[i] = events[i]
        /\ UNCHANGED <<poll, listings>>
      BY ChangeFacts DEF ChangeOf, calls
  <2>2. Len(events) \in Nat
      BY DEF DriveOK
  <2>5. ASSUME NEW k \in 1 .. Len(poll.batch)
        PROVE  Served(poll.batch[k])'
    <3>1. Served(poll.batch[k]) /\ poll'.batch[k] = poll.batch[k]
        BY <1>0, <2>1
    <3>2. poll.batch[k] \in BatchEntry
        BY <1>0 DEF PollType
    <3> QED
        BY <2>1, <2>2, <3>1, <3>2 DEF Served, BatchEntry
  <2>6. Event' = Event
      BY <2>1 DEF Event
  <2> QED
      BY <2>1, <2>5, <2>6, <1>0 DEF PollOK, PollType
<1>2. CASE ~Others
  <2>0. UNCHANGED <<past, events>> /\ Now' = Now
      BY <1>2, Undriven
  <2>served. \A e : Served(e)' <=> Served(e)
      BY <2>0 DEF Served
  <2>same. ASSUME UNCHANGED poll, listings'["feed"] # None => listings["feed"] # None
           PROVE  PollOK'
    <3>1. Event' = Event
        BY <2>same DEF Event
    <3> QED
        BY <2>0, <2>same, <2>served, <3>1 DEF PollOK
  <2>idle. ASSUME poll' = Idle, listings'["feed"] = None PROVE PollOK'
    <3>1. Idle \in PollType
        BY DEF Idle, PollType, PollPcs
    <3>2. poll'.batch = <<>> /\ poll'.since = 0 /\ poll'.pc = "idle" /\ poll' \in PollType
        BY <2>idle, <3>1 DEF Idle
    <3> QED
        BY <2>0, <2>idle, <3>2 DEF PollOK, PollType
  <2>moved. ASSUME NEW pc \in PollPcs, NEW got \in Node \union {None}, NEW seen \in Nat,
                   NEW since \in 0 .. Now, NEW batch \in Seq(BatchEntry),
                   poll' = [pc |-> pc, since |-> since, batch |-> batch, got |-> got,
                            seen |-> seen],
                   \A k \in 1 .. Len(batch) : Served(batch[k]),
                   pc \in {"idle", "asking", "healing"} <=> batch = <<>>,
                   pc = "applying" => Head(batch).type \in EventTypes,
                   listings'["feed"] # None => pc \in {"refreshing", "healing"}
            PROVE  PollOK'
    <3>1. poll' \in PollType
        BY <2>moved DEF PollType
    <3>2. Event' = Head(batch)
        BY <2>moved DEF Event
    <3> QED
        BY <2>0, <2>moved, <2>served, <3>1, <3>2 DEF PollOK, PollType
  <2>1. CASE StartLists \/ EngineLists
    <3>1. UNCHANGED poll /\ listings' = [listings EXCEPT !["engine"] = Started]
        BY <2>1 DEF StartLists, EngineLists, Lists
    <3> QED
        BY <2>same, <3>1 DEF CallsOK, Callers
  <2>2. ASSUME NEW c \in Callers, ListFolder(c) PROVE PollOK'
    <3>1. UNCHANGED poll /\ listings[c] # None
          /\ \A o \in Callers \ {c} : listings'[o] = listings[o]
        BY <2>2 DEF ListFolder, CallsOK
    <3> QED
        BY <2>same, <3>1 DEF Callers
  <2>3. ASSUME NEW c \in Callers, ListingReturns(c), listings[c] # None PROVE PollOK'
    <3>1. listings' = [listings EXCEPT ![c] = None]
        BY <2>3 DEF ListingReturns
    <3>2. CASE c = "engine"
      <4>1. UNCHANGED poll
          BY <2>3, <3>2 DEF ListingReturns
      <4> QED
          BY <2>same, <3>1, <3>2, <4>1 DEF CallsOK, Callers
    <3>3. CASE c = "feed"
      <4> DEFINE pc == IF poll.pc = "refreshing" THEN "storing" ELSE "idle"
      <4>1. poll' = [poll EXCEPT !.pc = pc] /\ poll.pc \in {"refreshing", "healing"}
          BY <2>3, <3>3 DEF ListingReturns, PollOK
      <4>2. poll' = [pc |-> pc, since |-> poll.since, batch |-> poll.batch,
                     got |-> poll.got, seen |-> poll.seen]
          BY <1>0, <4>1 DEF PollType
      <4>3. listings'["feed"] = None
          BY <3>1, <3>3 DEF CallsOK, Callers
      <4> QED
          BY <1>0, <2>moved, <4>1, <4>2, <4>3 DEF PollOK, PollType, PollPcs
    <3> QED
        BY <3>2, <3>3 DEF Callers
  <2>4. ASSUME NEW c \in Callers, ListingEnds(c) \/ ListingFails(c) PROVE PollOK'
      BY <2>3, <2>4 DEF ListingEnds, ListingFails
  <2>5. CASE PollBegins
    <3>1. poll' = [pc |-> "asking", since |-> Now, batch |-> <<>>, got |-> None, seen |-> 0]
        BY <2>5 DEF PollBegins, Idle
    <3>2. UNCHANGED listings /\ poll.pc = "idle"
        BY <2>5 DEF PollBegins
    <3> QED
        BY <2>moved, <3>1, <3>2 DEF PollOK, PollPcs
  <2>6. CASE PollAnswered
    <3>1. poll.pc = "asking" /\ UNCHANGED listings
        BY <2>6 DEF PollAnswered
    <3>2. PICK pc \in {"storing", "handling"},
               batch \in {Single("fast_forward"), Single("refresh_required"), Pending} :
            /\ poll' = [poll EXCEPT !.pc = pc, !.batch = batch]
            /\ \/ batch \in {Single("fast_forward"), Single("refresh_required")}
               \/ batch = Pending /\ cursor \notin {None, Len(events)}
      <4>1. CASE cursor \in {None, Len(events)}
        <5>1. poll' = [poll EXCEPT !.pc = "storing", !.batch = Single("fast_forward")]
            BY <2>6, <4>1 DEF PollAnswered
        <5> QED
            BY <5>1
      <4>2. CASE cursor \notin {None, Len(events)}
        <5>1. \/ poll' = [poll EXCEPT !.pc = "handling", !.batch = Pending]
              \/ poll' = [poll EXCEPT !.pc = "handling", !.batch = Single("refresh_required")]
            BY <2>6, <4>2 DEF PollAnswered
        <5> QED
            BY <4>2, <5>1
      <4> QED
          BY <4>1, <4>2
    <3>3. /\ batch \in Seq(BatchEntry) /\ batch # <<>>
          /\ \A k \in 1 .. Len(batch) : Served(batch[k])
        BY <3>2, AnswerFacts
    <3>4. poll' = [pc |-> pc, since |-> poll.since, batch |-> batch,
                   got |-> poll.got, seen |-> poll.seen]
        BY <1>0, <3>2 DEF PollType
    <3>5. listings'["feed"] = None
        BY <3>1 DEF PollOK
    <3> QED
        BY <1>0, <2>moved, <3>2, <3>3, <3>4, <3>5, ZenonT(40) DEF PollPcs
  <2>7. CASE EventReads
    <3>1. poll.pc = "handling" /\ Event.type \in EventTypes /\ UNCHANGED listings
        BY <2>7 DEF EventReads, EventTypes
    <3>6. poll.batch # <<>>
        BY <3>1 DEF PollOK
    <3>2. Event \in BatchEntry /\ Served(Event)
        BY <3>6, EventFacts
    <3>3. Event.uid \in Uids
      <4>1. Event.id \in 1 .. Len(events) /\ Event.uid = events[Event.id].uid
          BY <3>1, <3>2 DEF Served
      <4>2. events[Event.id] \in ChangeEvent
          BY <4>1 DEF DriveOK
      <4> QED
          BY <4>1, <4>2 DEF ChangeEvent
    <3>4. drive[Event.uid] \in Node \union {None}
        BY <3>3 DEF Trees
    <3>5. poll' = [pc |-> "applying", since |-> poll.since, batch |-> poll.batch,
                   got |-> drive[Event.uid], seen |-> Now]
        BY <1>0, <2>7 DEF EventReads, PollType
    <3> QED
        BY <1>0, <2>moved, <3>1, <3>4, <3>5, <3>6 DEF PollOK, PollPcs, Event
  <2>8. CASE EventApplied \/ EventDeletes
    <3>1. poll.pc \in {"applying", "handling"} /\ UNCHANGED listings
        BY <2>8 DEF EventApplied, EventDeletes
    <3>2. PICK got \in {poll.got, None}, seen \in {poll.seen, 0} :
            poll' = [pc |-> "storing", since |-> poll.since, batch |-> poll.batch,
                     got |-> got, seen |-> seen]
        BY <1>0, <2>8 DEF EventApplied, EventDeletes, PollType
    <3> QED
        BY <1>0, <2>moved, <3>1, <3>2 DEF PollOK, PollType, PollPcs
  <2>9. CASE EventRefreshes
    <3>1. poll.pc = "handling"
        BY <2>9 DEF EventRefreshes
    <3>2. poll' = [pc |-> "refreshing", since |-> poll.since, batch |-> poll.batch,
                   got |-> poll.got, seen |-> poll.seen]
        BY <1>0, <2>9 DEF EventRefreshes, PollType
    <3> QED
        BY <1>0, <2>moved, <3>1, <3>2 DEF PollOK, PollType, PollPcs
  <2>10. CASE CursorStored
    <3>1. poll.pc = "storing" /\ poll.batch # <<>> /\ UNCHANGED listings
        BY <2>10 DEF CursorStored, PollOK
    <3>2. listings["feed"] = None
        BY <3>1 DEF PollOK
    <3>3. CASE poll' = Idle
        BY <2>idle, <3>1, <3>2, <3>3
    <3>4. CASE Len(poll.batch) # 1
      <4>1. Len(poll.batch) \in Nat \ {0, 1} /\ poll.batch \in Seq(BatchEntry)
          BY <1>0, <3>1, <3>4, EventFacts DEF PollType
      <4>6. /\ Tail(poll.batch) \in Seq(BatchEntry)
            /\ Len(Tail(poll.batch)) = Len(poll.batch) - 1
            /\ \A k \in 1 .. Len(Tail(poll.batch)) : Tail(poll.batch)[k] = poll.batch[k + 1]
          BY <3>1, <4>1, HeadTailProperties, Zenon
      <4>2. Tail(poll.batch) # <<>>
        <5>1. Len(poll.batch) - 1 # 0
            BY <4>1
        <5>2. Len(Tail(poll.batch)) # 0
            BY <4>6, <5>1, Zenon
        <5>3. \A t : t = <<>> => Len(t) = 0
            OBVIOUS
        <5> QED
            BY <5>2, <5>3, Zenon
      <4>3. \A k \in 1 .. Len(Tail(poll.batch)) : Served(Tail(poll.batch)[k])
          BY <1>0, <4>1, <4>6
      <4>4. poll' = [poll EXCEPT !.pc = "handling", !.batch = Tail(poll.batch)]
          BY <2>10, <3>4 DEF CursorStored
      <4>5. poll' = [pc |-> "handling", since |-> poll.since, batch |-> Tail(poll.batch),
                     got |-> poll.got, seen |-> poll.seen]
          BY <1>0, <4>4 DEF PollType
      <4> QED
          BY <1>0, <2>moved, <3>1, <3>2, <4>2, <4>3, <4>5, <4>6, ZenonT(40) DEF PollPcs
    <3> QED
        BY <2>10, <3>3, <3>4 DEF CursorStored
  <2>11. CASE PollFails
    <3>1. poll.pc \in {"asking", "handling"}
        BY <2>11 DEF PollFails
    <3>2. listings["feed"] = None
        BY <3>1 DEF PollOK
    <3>3. CASE poll' = Idle /\ UNCHANGED listings
        BY <2>idle, <3>2, <3>3
    <3>4. CASE poll' = [Idle EXCEPT !.pc = "healing"]
      <4>1. poll' = [pc |-> "healing", since |-> 0, batch |-> <<>>, got |-> None, seen |-> 0]
          BY <3>4 DEF Idle
      <4>2. <<>> \in Seq(BatchEntry) /\ Len(<<>>) = 0 /\ 0 \in 0 .. Now
          OBVIOUS
      <4>3. \A k \in 1 .. Len(<<>>) : Served(<<>>[k])
          BY <4>2
      <4>4. None \in Node \union {None} /\ "healing" \in PollPcs /\ 0 \in Nat
          BY DEF PollPcs
      <4>5. Head(<<>>).type \in EventTypes \/ "healing" # "applying"
          OBVIOUS
      <4> QED
          BY <2>moved, <4>1, <4>2, <4>3, <4>4, <4>5
    <3> QED
        BY <2>11, <3>3, <3>4 DEF PollFails
  <2>12. CASE Crash
    <3>1. poll' = Idle /\ listings'["feed"] = None
        BY <2>12 DEF Crash, Callers
    <3> QED
        BY <2>idle, <3>1
  <2>13. CASE UNCHANGED vars
      BY <2>same, <2>13 DEF vars, calls
  <2> QED
      BY <1>2, ProgramOrOthers, <2>1, <2>2, <2>4, <2>5, <2>6, <2>7, <2>8, <2>9, <2>10,
         <2>11, <2>12, <2>13
<1> QED
    BY <1>1, <1>2

LEMMA TypesStep ==
    ASSUME Types, [Next]_vars
    PROVE  Types'
<1>1. DriveOK'
  <2>1. CASE Others
      BY <2>1, OthersChange, ChangeFacts DEF Types, ChangeOf
  <2>2. CASE ~Others
      BY <2>2, Undriven DEF Types, DriveOK
  <2> QED
      BY <2>1, <2>2
<1> QED
    BY <1>1, CallsStep, PollStep DEF Types

-----------------------------------------------------------------------------
(* What has been seen.                                                     *)

(* A node that was deleted does not come back.                             *)
LEMMA DeletedStep ==
    ASSUME Types, DeletedStay, [Next]_vars
    PROVE  DeletedStay'
<1>1. CASE Others
  <2> PICK u \in Uids, node \in Node \union {None}, type \in EventTypes :
          ChangeOf(u, node, type)
      BY <1>1, OthersChange DEF Types
  <2>0. DriveOK /\ Change(u, node, type) /\ Now \in Nat \ {0} /\ Now = Len(events) + 1
      BY DriveFacts DEF Types, ChangeOf, DriveOK, Now
  <2>1. /\ Now' = Now + 1 /\ \A i \in 1 .. Now : past'[i] = past[i]
        /\ drive' = [drive EXCEPT ![u] = node]
        /\ Len(events') = Len(events) + 1
        /\ \A i \in 1 .. Len(events) : events'[i] = events[i]
        /\ events'[Len(events) + 1] = [type |-> type, uid |-> u]
      BY <2>0, ChangeFacts
  <2> SUFFICES ASSUME NEW j \in 1 .. Len(events'), events'[j].type = "node_deleted"
               PROVE  /\ drive'[events'[j].uid] = None
                      /\ \E i \in 1 .. Now' : past'[i][events'[j].uid] # None
      BY DEF DeletedStay
  <2>2. CASE j \in 1 .. Len(events)
    <3>1. events'[j] = events[j] /\ drive[events[j].uid] = None
        BY <2>1, <2>2 DEF DeletedStay
    <3>2. PICK i \in 1 .. Now : past[i][events[j].uid] # None
        BY <2>1, <2>2 DEF DeletedStay
    <3>3. i \in 1 .. Now' /\ past'[i] = past[i]
        BY <2>0, <2>1
    <3>4. drive'[events[j].uid] = None
      <4>1. CASE events[j].uid = u
        <5>1. drive[u] = None /\ ~ \A k \in 1 .. Now : past[k][u] = None
            BY <3>1, <3>2, <4>1
        <5>2. node = None
            BY <5>1 DEF ChangeOf
        <5> QED
            BY <2>1, <4>1, <5>2, DriveFacts DEF Types, Trees
      <4>2. CASE events[j].uid # u
          BY <2>1, <3>1, <4>2
      <4> QED
          BY <4>1, <4>2
    <3> QED
        BY <3>1, <3>2, <3>3, <3>4
  <2>3. CASE j = Len(events) + 1
    <3>1. type = "node_deleted" /\ events'[j].uid = u
        BY <2>1, <2>3
    <3>2. node = None /\ drive[u] # None
        BY <3>1 DEF ChangeOf
    <3>3. drive'[u] = None
        BY <2>0, <2>1, <3>2, DriveFacts DEF Trees
    <3>4. past'[Now] = drive /\ Now \in 1 .. Now'
        BY <2>0, <2>1 DEF drive
    <3> QED
        BY <3>1, <3>2, <3>3, <3>4
  <2> QED
      BY <2>0, <2>1, <2>2, <2>3
<1>2. CASE ~Others
    BY <1>2, Undriven DEF DeletedStay
<1> QED
    BY <1>1, <1>2

(* Only EventReads makes an event wait for its node.                       *)
LEMMA ReadsOnly ==
    ASSUME Types, [Next]_vars, ~Others
    PROVE  UNCHANGED poll \/ poll'.pc # "applying" \/ EventReads
<1> SUFFICES ASSUME ~EventReads PROVE UNCHANGED poll \/ poll'.pc # "applying"
    OBVIOUS
<1>0. poll \in PollType
    BY DEF Types, PollOK, PollType
<1>1. CASE UNCHANGED vars \/ StartLists \/ EngineLists \/ \E c \in Callers : ListFolder(c)
    BY <1>1 DEF vars, calls, StartLists, EngineLists, ListFolder
<1>2. CASE \E c \in Callers : ListingEnds(c) \/ ListingFails(c)
    BY <1>0, <1>2 DEF ListingEnds, ListingFails, ListingReturns, PollType
<1>3. CASE PollBegins \/ PollAnswered
    BY <1>0, <1>3 DEF PollBegins, PollAnswered, Idle, PollType
<1>4. CASE EventApplied \/ EventDeletes \/ EventRefreshes
    BY <1>0, <1>4 DEF EventApplied, EventDeletes, EventRefreshes, PollType
<1>5. CASE PollFails \/ Crash
    BY <1>5 DEF PollFails, Crash, Idle
<1>6. CASE CursorStored
  <2>1. poll' = Idle \/ \E b : poll' = [poll EXCEPT !.pc = "handling", !.batch = b]
      BY <1>6 DEF CursorStored
  <2>2. CASE poll' = Idle
      BY <2>2 DEF Idle
  <2>3. CASE \E b : poll' = [poll EXCEPT !.pc = "handling", !.batch = b]
    <3> PICK b : poll' = [poll EXCEPT !.pc = "handling", !.batch = b]
        BY <2>3
    <3>1. poll'.pc = "handling"
        BY <1>0 DEF PollType
    <3> QED
        BY <3>1
  <2> QED
      BY <2>1, <2>2, <2>3
<1> QED
    BY ProgramOrOthers, <1>1, <1>2, <1>3, <1>4, <1>5, <1>6

(* The node that was read stays that of its moment.                        *)
LEMMA ReadingStep ==
    ASSUME Types, ReadingTrue, [Next]_vars
    PROVE  ReadingTrue'
<1>1. CASE Others
  <2> PICK u \in Uids, node \in Node \union {None}, type \in EventTypes :
          ChangeOf(u, node, type)
      BY <1>1, OthersChange DEF Types
  <2>0. DriveOK /\ Change(u, node, type) /\ Now \in Nat \ {0}
      BY DriveFacts DEF Types, ChangeOf
  <2>1. Now' = Now + 1 /\ (\A i \in 1 .. Now : past'[i] = past[i]) /\ UNCHANGED poll
      BY <2>0, ChangeFacts DEF calls
  <2>2. Event' = Event
      BY <2>1 DEF Event
  <2> QED
      BY <2>0, <2>1, <2>2 DEF ReadingTrue
<1>2. CASE ~Others
  <2>0. UNCHANGED past /\ Now' = Now
      BY <1>2, Undriven
  <2>1. CASE EventReads
    <3>1. /\ poll.pc = "handling"
          /\ poll' = [poll EXCEPT !.pc = "applying", !.got = drive[Event.uid], !.seen = Now]
        BY <2>1 DEF EventReads
    <3>2. poll \in PollType
        BY DEF Types, PollOK, PollType
    <3>3. poll'.got = drive[Event.uid] /\ poll'.seen = Now /\ poll'.batch = poll.batch
        BY <3>1, <3>2 DEF PollType
    <3>4. Event' = Event
        BY <3>3 DEF Event
    <3>5. Now \in 1 .. Now
        BY DriveFacts DEF Types
    <3> QED
        BY <2>0, <3>3, <3>4, <3>5 DEF ReadingTrue, drive
  <2>2. CASE UNCHANGED poll
    <3>1. Event' = Event
        BY <2>2 DEF Event
    <3> QED
        BY <2>0, <2>2, <3>1 DEF ReadingTrue
  <2>3. CASE poll'.pc # "applying"
      BY <2>3 DEF ReadingTrue
  <2>4. UNCHANGED poll \/ poll'.pc # "applying" \/ EventReads
      BY <1>2, ReadsOnly
  <2> QED
      BY <2>1, <2>2, <2>3, <2>4
<1> QED
    BY <1>1, <1>2

(* The places a listing goes through to find u.                            *)
LEMMA WayFacts ==
    ASSUME NEW tree \in Trees, NEW u \in Uids, Way(tree, u) # None
    PROVE  /\ tree[u] # None
           /\ \/ tree[u].parent = Root /\ Way(tree, u) = <<Root>>
              \/ /\ Way(tree, u) = <<Root, tree[u].parent>>
                 /\ tree[u].parent \in Dirs /\ tree[tree[u].parent] # None
                 /\ tree[tree[u].parent].parent = Root /\ ~tree[tree[u].parent].trashed
<1>1. tree[u] # None
    BY DEF Way
<1>2. tree[u].parent \in Dirs \union {Root, Outside}
    BY <1>1 DEF Trees, Node
<1> QED
    BY <1>1, <1>2 DEF Way

(* What a listing that begins now would find later.                        *)
LEMMA StartedTrue ==
    ASSUME Types, Now' = Now, UNCHANGED past
    PROVE  ListingTrue(Started)'
<1>1. drive' \in Trees /\ drive' = drive
    BY DriveFacts DEF Types, drive
<1>2. \A u \in Uids : Started'.found[u] = None
    BY DEF Started, NoNodes
<1>3. Started'.queue = {Root}
    BY DEF Started
<1>4. Started'.since = Now' /\ Now' \in 1 .. Now'
    BY DriveFacts DEF Started, Types
<1>5. ASSUME NEW u \in Uids, View!Steady(u, Started.since)'
      PROVE  \E k \in DOMAIN Way(drive, u)' : Way(drive, u)'[k] \in Started'.queue
  <2>1. Way(drive', u) # None
      BY <1>4, <1>5 DEF View!Steady, drive
  <2>2. 1 \in DOMAIN Way(drive', u) /\ Way(drive', u)[1] = Root
      BY <1>1, <2>1, WayFacts
  <2> QED
      BY <1>3, <2>2
<1> QED
    BY <1>2, <1>5 DEF ListingTrue

(* What a listing has found and will find, when the drive changes.         *)
LEMMA ListingsChange ==
    ASSUME Types, ListingsTrue, Others
    PROVE  ListingsTrue'
<1> PICK u \in Uids, node \in Node \union {None}, type \in EventTypes :
        ChangeOf(u, node, type)
    BY OthersChange DEF Types
<1>0. DriveOK /\ Change(u, node, type) /\ Now \in Nat \ {0}
    BY DriveFacts DEF Types, ChangeOf
<1>1. /\ Now' = Now + 1 /\ \A i \in 1 .. Now : past'[i] = past[i]
      /\ UNCHANGED listings /\ past'[Now + 1] = drive'
    BY <1>0, ChangeFacts DEF calls
<1> SUFFICES ASSUME NEW c \in Callers, listings[c] # None
             PROVE  ListingTrue(listings[c])'
    BY <1>1 DEF ListingsTrue
<1> DEFINE l == listings[c]
<1>2. l' = l /\ l.since \in 1 .. Now /\ ListingTrue(l)
    BY <1>1 DEF Types, CallsOK, ListingsTrue
<1>3. ASSUME NEW v \in Uids, l.found[v] # None
      PROVE  \E i \in l.since .. Now' : past'[i][v] = l.found[v]
  <2>1. PICK i \in l.since .. Now : past[i][v] = l.found[v]
      BY <1>2, <1>3 DEF ListingTrue
  <2>2. i \in 1 .. Now /\ i \in l.since .. Now'
      BY <1>0, <1>1, <1>2
  <2> QED
      BY <1>1, <2>1, <2>2
<1>4. ASSUME NEW v \in Uids, View!Steady(v, l.since)'
      PROVE  View!Steady(v, l.since) /\ Way(drive', v) = Way(drive, v)
  <2>1. /\ Way(past'[l.since], v) # None
        /\ \A i \in l.since .. Now' : Way(past'[i], v) = Way(past'[l.since], v)
      BY <1>1, <1>4 DEF View!Steady, Now
  <2>2. l.since .. Now \subseteq 1 .. Now /\ l.since .. Now \subseteq l.since .. Now'
        /\ Now' \in l.since .. Now' /\ l.since \in l.since .. Now /\ Now \in l.since .. Now
      BY <1>0, <1>1, <1>2
  <2>3. past'[l.since] = past[l.since] /\ \A i \in l.since .. Now : past'[i] = past[i]
      BY <1>1, <2>2
  <2>4. Way(past[l.since], v) # None
        /\ \A i \in l.since .. Now : Way(past[i], v) = Way(past[l.since], v)
      BY <2>1, <2>2, <2>3
  <2>5. Way(drive', v) = Way(past[l.since], v) /\ Way(drive, v) = Way(past[l.since], v)
      BY <1>1, <2>1, <2>2, <2>3, <2>4 DEF drive
  <2> QED
      BY <2>4, <2>5 DEF View!Steady, Now
<1>5. ASSUME NEW v \in Uids, View!Steady(v, l.since)'
      PROVE  \/ l.found[v] # None
             \/ \E k \in DOMAIN Way(drive', v) : Way(drive', v)[k] \in l.queue
    BY <1>2, <1>4, <1>5 DEF ListingTrue
<1> QED
    BY <1>1, <1>2, <1>3, <1>5 DEF ListingTrue

(* One more folder.                                                        *)
LEMMA FolderListed ==
    ASSUME Types, ListingsTrue, NEW c \in Callers, ListFolder(c)
    PROVE  ListingsTrue'
<1> PICK l : l = listings[c]
    OBVIOUS
<1>2. /\ UNCHANGED <<remote, cursor, mirror, phase, poll, degraded, faults, excused>>
      /\ \E d \in l.queue, Q \in SUBSET (Dirs \union {Root}), F \in Trees, new \in Listings :
           /\ Q = (l.queue \ {d}) \union
                     {u \in Children(drive, d) \intersect Dirs : ~drive[u].trashed}
           /\ F = [u \in Uids |-> IF u \in Children(drive, d) THEN drive[u] ELSE l.found[u]]
           /\ new = [since |-> l.since, queue |-> Q, found |-> F]
           /\ listings' = [listings EXCEPT ![c] = new]
    BY FolderFacts DEF Types
<1> PICK d \in l.queue, Q \in SUBSET (Dirs \union {Root}), F \in Trees, new \in Listings :
      /\ Q = (l.queue \ {d}) \union
                {u \in Children(drive, d) \intersect Dirs : ~drive[u].trashed}
      /\ F = [u \in Uids |-> IF u \in Children(drive, d) THEN drive[u] ELSE l.found[u]]
      /\ new = [since |-> l.since, queue |-> Q, found |-> F]
      /\ listings' = [listings EXCEPT ![c] = new]
    BY <1>2
<1>1. /\ l \in Listings /\ l # None /\ l.since \in 1 .. Now /\ ListingTrue(l)
      /\ listings \in [Callers -> Listings \union {None}]
    BY FolderFacts DEF Types, CallsOK, ListingsTrue
<1>3. UNCHANGED past /\ Now' = Now /\ drive' = drive /\ Now \in Nat \ {0} /\ drive \in Trees
    BY <1>2, DriveFacts DEF remote, Now, drive, Types
<1>4. listings'[c] = new /\ \A o \in Callers \ {c} : listings'[o] = listings[o]
    BY <1>1, <1>2
<1>5. ASSUME NEW u \in Uids, F[u] # None
      PROVE  \E i \in l.since .. Now : past[i][u] = F[u]
  <2>1. CASE u \in Children(drive, d)
    <3>1. Now \in l.since .. Now /\ F[u] = past[Now][u]
        BY <1>1, <1>3, <2>1 DEF drive
    <3> QED
        BY <3>1
  <2>2. CASE u \notin Children(drive, d)
      BY <1>1, <1>5, <2>2 DEF ListingTrue
  <2> QED
      BY <2>1, <2>2
<1>6. ASSUME NEW u \in Uids, View!Steady(u, l.since)
      PROVE  F[u] # None \/ \E k \in DOMAIN Way(drive, u) : Way(drive, u)[k] \in Q
  <2>1. Way(drive, u) # None
    <3>1. Now \in l.since .. Len(past)
        BY <1>1, <1>3 DEF Now
    <3> QED
        BY <1>6, <3>1 DEF View!Steady, drive
  <2>2. drive[u] # None
        /\ \/ drive[u].parent = Root /\ Way(drive, u) = <<Root>>
           \/ /\ Way(drive, u) = <<Root, drive[u].parent>>
              /\ drive[u].parent \in Dirs /\ drive[drive[u].parent] # None
              /\ drive[drive[u].parent].parent = Root /\ ~drive[drive[u].parent].trashed
      BY <1>3, <2>1, WayFacts
  <2>3. CASE l.found[u] # None
      BY <2>2, <2>3
  <2>4. CASE drive[u].parent = d
      BY <2>2, <2>4 DEF Children
  <2>5. CASE l.found[u] = None /\ drive[u].parent # d
    <3>1. PICK k \in DOMAIN Way(drive, u) : Way(drive, u)[k] \in l.queue
        BY <1>1, <1>6, <2>5 DEF ListingTrue
    <3>2. CASE Way(drive, u)[k] # d
        BY <3>1, <3>2
    <3>3. CASE Way(drive, u)[k] = d
      <4>1. /\ Way(drive, u) = <<Root, drive[u].parent>> /\ d = Root
            /\ drive[u].parent \in Dirs /\ drive[drive[u].parent] # None
            /\ drive[drive[u].parent].parent = Root /\ ~drive[drive[u].parent].trashed
        <5>1. Way(drive, u) # <<Root>>
          <6> SUFFICES ASSUME Way(drive, u) = <<Root>> PROVE FALSE
              OBVIOUS
          <6>1. k = 1 /\ d = Root
              BY <3>1, <3>3
          <6>2. \A p : <<Root, p>> # <<Root>>
              OBVIOUS
          <6> QED
              BY <2>2, <2>5, <6>1, <6>2
        <5>2. k \in {1, 2} /\ (k = 2 => d = drive[u].parent)
            BY <2>2, <3>3, <5>1
        <5> QED
            BY <2>2, <2>5, <3>3, <5>1, <5>2
      <4>2. drive[u].parent \in Q
          BY <4>1 DEF Children, Uids
      <4>3. 2 \in DOMAIN Way(drive, u) /\ Way(drive, u)[2] = drive[u].parent
          BY <4>1
      <4> QED
          BY <4>2, <4>3
    <3> QED
        BY <3>2, <3>3
  <2> QED
      BY <2>3, <2>4, <2>5
<1>7. ListingTrue(new)'
  <2>1. new.since = l.since /\ new.queue = Q /\ new.found = F
      OBVIOUS
  <2>2. \A u \in Uids : View!Steady(u, l.since)' = View!Steady(u, l.since)
      BY <1>3 DEF View!Steady
  <2> QED
      BY <1>3, <1>5, <1>6, <2>1, <2>2 DEF ListingTrue
<1>8. ASSUME NEW o \in Callers \ {c}, listings[o] # None
      PROVE  ListingTrue(listings[o])'
  <2>1. ListingTrue(listings[o])
      BY <1>8 DEF ListingsTrue
  <2>2. listings'[o] = listings[o]
      BY <1>4
  <2> QED
      BY <1>3, <2>1, <2>2 DEF ListingTrue, View!Steady
<1> QED
    BY <1>4, <1>7, <1>8 DEF ListingsTrue

LEMMA ListingsKept ==
    ASSUME Types, ListingsTrue, UNCHANGED past, Now' = Now,
           \A c \in Callers : listings'[c] \in {listings[c], None, Started}
    PROVE  ListingsTrue'
<1> SUFFICES ASSUME NEW c \in Callers, listings'[c] # None
             PROVE  ListingTrue(listings[c])'
    BY DEF ListingsTrue
<1>1. drive' = drive /\ Started' = Started
    BY DEF drive, Started
<1>2. CASE listings'[c] = Started
  <2>1. ListingTrue(Started)'
      BY StartedTrue
  <2> QED
      BY <1>1, <1>2, <2>1 DEF ListingTrue
<1>3. CASE listings'[c] = listings[c]
  <2>1. ListingTrue(listings[c])
      BY <1>3 DEF ListingsTrue
  <2> QED
      BY <1>1, <1>3, <2>1 DEF ListingTrue, View!Steady
<1> QED
    BY <1>2, <1>3

LEMMA ListingsStep ==
    ASSUME Types, ListingsTrue, [Next]_vars
    PROVE  ListingsTrue'
<1>1. CASE Others
    BY <1>1, ListingsChange
<1>2. CASE \E c \in Callers : ListFolder(c)
    BY <1>2, FolderListed
<1>3. CASE ~Others /\ ~ \E c \in Callers : ListFolder(c)
  <2>0. UNCHANGED past /\ Now' = Now /\ listings \in [Callers -> Listings \union {None}]
      BY <1>3, Undriven DEF Types, CallsOK
  <2>1. ASSUME NEW c \in Callers, listings' = [listings EXCEPT ![c] = None]
               \/ Lists(c) \/ UNCHANGED listings
        PROVE  \A o \in Callers : listings'[o] \in {listings[o], None, Started}
      BY <2>0, <2>1 DEF Lists
  <2>2. CASE UNCHANGED vars \/ StartLists \/ EngineLists \/ EventRefreshes \/ PollFails
    <3>1. UNCHANGED listings \/ Lists("engine") \/ Lists("feed")
        BY <2>2 DEF vars, calls, StartLists, EngineLists, EventRefreshes, PollFails
    <3>2. \A o \in Callers : listings'[o] \in {listings[o], None, Started}
        BY <2>1, <3>1 DEF Callers
    <3> QED
        BY <2>0, <3>2, ListingsKept
  <2>3. CASE \E c \in Callers : ListingEnds(c) \/ ListingFails(c)
    <3>1. \E c \in Callers : listings' = [listings EXCEPT ![c] = None]
        BY <2>3 DEF ListingEnds, ListingFails, ListingReturns
    <3>2. \A o \in Callers : listings'[o] \in {listings[o], None, Started}
        BY <2>1, <3>1
    <3> QED
        BY <2>0, <3>2, ListingsKept
  <2>4. CASE PollBegins \/ PollAnswered \/ EventReads \/ EventApplied \/ EventDeletes
             \/ CursorStored
    <3>1. UNCHANGED listings
        BY <2>4 DEF PollBegins, PollAnswered, EventReads, EventApplied, EventDeletes,
           CursorStored
    <3> QED
        BY <2>0, <3>1, ListingsKept
  <2>5. CASE Crash
    <3>1. \A c \in Callers : listings'[c] = None
        BY <2>5 DEF Crash
    <3> QED
        BY <2>0, <3>1, ListingsKept
  <2> QED
      BY <1>3, ProgramOrOthers, <2>2, <2>3, <2>4, <2>5
<1> QED
    BY <1>1, <1>2, <1>3

-----------------------------------------------------------------------------
(* The invariant.                                                          *)

LEMMA InitInv ==
    ASSUME Init
    PROVE  Inv
<1>1. Types
    BY InitTypes
<1>2. Len(events) = 0 /\ poll.pc = "idle"
    BY DEF Init, Idle
<1>3. DeletedStay /\ ReadingTrue
    BY <1>2 DEF DeletedStay, ReadingTrue
<1>4. ListingsTrue
    BY DEF Init, ListingsTrue
<1> QED
    BY <1>1, <1>3, <1>4 DEF Inv, Types

LEMMA InvStep ==
    ASSUME Inv, [Next]_vars
    PROVE  Inv'
    BY TypesStep, DeletedStep, ReadingStep, ListingsStep DEF Inv, Types

LEMMA Invariant == Spec => []Inv
    BY InitInv, InvStep, PTL DEF Spec

(* The feed, the mirror and the listings keep their types: the cursor is   *)
(* an event of the stream, the mirror is never newer than now, a batch is  *)
(* empty exactly while no event is handled.                                *)
THEOREM FeedTypeCorrect == Spec => []TypeOK
<1>1. Inv => TypeOK
  <2> SUFFICES ASSUME Inv PROVE TypeOK
      OBVIOUS
  <2>1. /\ past \in Seq(Trees) /\ Now = Len(events) + 1
      BY DEF Inv, DriveOK, Now
  <2>2. poll.pc \in PollPcs /\ (poll.pc \in {"idle", "asking", "healing"} <=> poll.batch = <<>>)
      BY DEF Inv, PollOK
  <2> QED
      BY <2>1, <2>2 DEF TypeOK, Inv, CallsOK
<1> QED
    BY <1>1, Invariant, PTL

-----------------------------------------------------------------------------
(* The steps of the view.                                                  *)

ShownNow == [u \in Uids |-> Shown(u)]
ReadingsNow ==
    {listings[c].since : c \in {o \in Callers : listings[o] # None}}
    \union (IF poll.pc = "applying" THEN {poll.seen} ELSE {})

LEMMA LookStep ==
    ASSUME NEW r \in ReadingsNow \union {Now}, UNCHANGED past,
           ReadingsNow' \subseteq ReadingsNow,
           \A u \in Uids : Shown(u)' \in {Shown(u), Unknown} \union View!Seen(u, r)
    PROVE  View!Next
<1>1. View!Look(r)
    BY DEF View!Look, ReadingsNow
<1> QED
    BY <1>1 DEF View!Next, ReadingsNow, Now

LEMMA BeginStep ==
    ASSUME UNCHANGED <<past, nodes, complete, available>>,
           ReadingsNow' = ReadingsNow \union {Now}
    PROVE  View!Next
<1>1. \A u \in Uids : Shown(u)' = Shown(u)
    BY DEF Shown
<1>2. View!Begin
    BY <1>1 DEF View!Begin, ReadingsNow, Now
<1> QED
    BY <1>2 DEF View!Next

LEMMA StutterStep ==
    ASSUME UNCHANGED <<past, nodes, complete, available>>, ReadingsNow' = ReadingsNow
    PROVE  UNCHANGED View!vars
<1>1. \A u \in Uids : Shown(u)' = Shown(u)
    BY DEF Shown
<1> QED
    BY <1>1 DEF View!vars, ReadingsNow

LEMMA DriveViewed ==
    ASSUME Inv, Others
    PROVE  View!Next
<1> PICK u \in Uids, node \in Node \union {None}, type \in EventTypes :
        ChangeOf(u, node, type)
    BY OthersChange DEF Inv
<1>0. DriveOK /\ Change(u, node, type) /\ Now \in Nat \ {0}
    BY DriveFacts DEF Inv, ChangeOf
<1>1. Now' = Now + 1 /\ (\A i \in 1 .. Now : past'[i] = past[i]) /\ UNCHANGED <<mirror, calls>>
    BY <1>0, ChangeFacts
<1>2. SubSeq(past', 1, Len(past)) = past
  <2>1. past \in Seq(Trees) /\ past' \in Seq(Trees) /\ Len(past') = Len(past) + 1
      BY <1>0, <1>1, ChangeFacts DEF DriveOK, Now
  <2>2. SubSeq(past', 1, Len(past)) \in Seq(Trees)
        /\ Len(SubSeq(past', 1, Len(past))) = Len(past)
        /\ \A i \in 1 .. Len(past) : SubSeq(past', 1, Len(past))[i] = past'[i]
      BY <2>1, <1>0 DEF Now
  <2> QED
      BY <1>1, <2>1, <2>2, SeqEqual DEF Now
<1>3. UNCHANGED <<[u2 \in Uids |-> Shown(u2)], ReadingsNow>>
    BY <1>1 DEF mirror, calls, Shown, ReadingsNow
<1>4. View!Change
    BY <1>1, <1>2, <1>3 DEF View!Change, ReadingsNow, Now
<1> QED
    BY <1>4 DEF View!Next

(* A caller that did not list starts to.                                   *)
LEMMA ListsViewed ==
    ASSUME Inv, NEW c \in Callers, Lists(c), listings[c] = None, poll.pc # "applying",
           poll'.pc # "applying", UNCHANGED <<past, mirror>>
    PROVE  View!Next
<1>1. /\ listings' = [listings EXCEPT ![c] = Started]
      /\ listings \in [Callers -> Listings \union {None}]
    BY DEF Lists, Inv, CallsOK
<1>2. Started # None /\ Started.since = Now
    BY NewListing DEF Inv, Started
<1>3. /\ listings'[c] = Started
      /\ \A o \in Callers \ {c} : listings'[o] = listings[o]
    BY <1>1
<1>4. ReadingsNow' = ReadingsNow \union {Now}
    BY <1>2, <1>3 DEF ReadingsNow
<1> QED
    BY <1>4, BeginStep DEF mirror

(* A listing that ends, and one that fails.                                *)
LEMMA ListingEndViewed ==
    ASSUME Inv, NEW c \in Callers, ListingEnds(c)
    PROVE  View!Next
<1> PICK l : l = listings[c]
    OBVIOUS
<1>1. l \in Listings /\ ListingTrue(l) /\ l.queue = {} /\ nodes' = l.found
      /\ complete' = TRUE /\ available' = TRUE /\ listings' = [listings EXCEPT ![c] = None]
      /\ l # None /\ UNCHANGED past /\ l.since \in 1 .. Now
    BY DEF Inv, CallsOK, ListingsTrue, ListingEnds, ListingReturns, remote
<1>2. l.since \in ReadingsNow
    BY <1>1 DEF ReadingsNow
<1>3. poll'.pc = "applying" => poll.pc = "applying" /\ poll' = poll
    BY <1>1 DEF Inv, PollOK, ListingEnds, ListingReturns, Callers
<1>4. ReadingsNow' \subseteq ReadingsNow
  <2>1. \A o \in Callers : listings'[o] # None => listings'[o] = listings[o]
      BY <1>1 DEF Inv, CallsOK
  <2> QED
      BY <1>3, <2>1 DEF ReadingsNow
<1>5. ASSUME NEW u \in Uids
      PROVE  Shown(u)' \in {Shown(u), Unknown} \union View!Seen(u, l.since)
  <2>1. Shown(u)' = l.found[u]
      BY <1>1 DEF Shown
  <2>2. CASE l.found[u] # None
    <3>1. PICK i \in l.since .. Now : past[i][u] = l.found[u]
        BY <1>1, <2>2 DEF ListingTrue
    <3> QED
        BY <2>1, <3>1 DEF View!Seen, Own, Now
  <2>3. CASE l.found[u] = None
    <3>1. ~ View!Steady(u, l.since)
        BY <1>1, <2>3 DEF ListingTrue
    <3> QED
        BY <2>1, <2>3, <3>1 DEF View!Seen
  <2> QED
      BY <2>2, <2>3
<1> QED
    BY <1>1, <1>2, <1>4, <1>5, LookStep

LEMMA ListingFailViewed ==
    ASSUME Inv, NEW c \in Callers, ListingFails(c)
    PROVE  View!Next
<1>1. /\ listings[c] # None /\ listings' = [listings EXCEPT ![c] = None]
      /\ complete' = FALSE /\ available' = FALSE /\ UNCHANGED <<past, nodes>>
    BY DEF ListingFails, ListingReturns, remote
<1>2. poll'.pc = "applying" => poll.pc = "applying" /\ poll' = poll
    BY <1>1 DEF Inv, PollOK, ListingFails, ListingReturns, Callers
<1>3. ReadingsNow' \subseteq ReadingsNow
  <2>1. \A o \in Callers : listings'[o] # None => listings'[o] = listings[o]
      BY <1>1 DEF Inv, CallsOK
  <2> QED
      BY <1>2, <2>1 DEF ReadingsNow
<1>4. \A u \in Uids : Shown(u)' \in {Shown(u), Unknown}
    BY <1>1 DEF Shown
<1> QED
    BY <1>1, <1>3, <1>4, LookStep

(* An event that is applied, and one of a deletion.                        *)
LEMMA EventViewed ==
    ASSUME Inv, EventApplied
    PROVE  View!Next
<1> PICK r, e, node : r = poll.seen /\ e = Event.uid /\ node = poll.got
    OBVIOUS
<1>1. /\ poll.pc = "applying" /\ poll'.pc = "storing"
      /\ nodes' = [nodes EXCEPT ![e] = node] /\ nodes \in [Uids -> Node \union {None}]
      /\ available' = TRUE /\ complete \in BOOLEAN /\ (complete => available)
      /\ UNCHANGED <<past, complete, listings>>
    BY DEF EventApplied, Inv, CallsOK, PollOK, WithNode, remote, Trees
<1>2. r \in 1 .. Now /\ node = past[r][e] /\ r \in ReadingsNow
    BY <1>1 DEF Inv, ReadingTrue, ReadingsNow
<1>3. ReadingsNow' \subseteq ReadingsNow
    BY <1>1 DEF ReadingsNow
<1>4. ASSUME NEW u \in Uids
      PROVE  Shown(u)' \in {Shown(u), Unknown} \union View!Seen(u, r)
  <2>1. CASE u = e
    <3>1. Shown(u)' \in {node, Unknown}
        BY <1>1, <2>1 DEF Shown
    <3>2. node \in View!Seen(u, r)
        BY <1>2, <2>1 DEF View!Seen, Own, Now
    <3> QED
        BY <3>1, <3>2
  <2>2. CASE u # e
      BY <1>1, <2>2 DEF Shown
  <2> QED
      BY <2>1, <2>2
<1> QED
    BY <1>1, <1>2, <1>3, <1>4, LookStep

LEMMA DeletionViewed ==
    ASSUME Inv, EventDeletes
    PROVE  View!Next
<1> PICK e : e = Event.uid
    OBVIOUS
<1>1. /\ poll.pc = "handling" /\ poll'.pc = "storing" /\ Event.type = "node_deleted"
      /\ nodes' = [nodes EXCEPT ![e] = None] /\ nodes \in [Uids -> Node \union {None}]
      /\ UNCHANGED <<past, complete, available, listings>>
    BY DEF EventDeletes, Inv, CallsOK, PollOK, WithNode, remote, Trees
<1>2. drive[e] = None
  <2>1. Served(Event)
      BY <1>1, EventFacts DEF Inv, Types, PollOK
  <2>2. Event.id \in 1 .. Len(events) /\ e = events[Event.id].uid
        /\ events[Event.id].type = "node_deleted"
      BY <1>1, <2>1 DEF Served, EventTypes
  <2> QED
      BY <2>2 DEF Inv, DeletedStay
<1>3. ReadingsNow' \subseteq ReadingsNow
    BY <1>1 DEF ReadingsNow
<1>4. ASSUME NEW u \in Uids
      PROVE  Shown(u)' \in {Shown(u), Unknown} \union View!Seen(u, Now)
  <2>1. CASE u = e
    <3>1. Shown(u)' \in {None, Unknown}
        BY <1>1, <2>1 DEF Shown
    <3>2. None \in View!Seen(u, Now)
        BY <1>2, <2>1, DriveFacts DEF View!Seen, Own, Now, drive, Inv
    <3> QED
        BY <3>1, <3>2
  <2>2. CASE u # e
      BY <1>1, <2>2 DEF Shown
  <2> QED
      BY <2>1, <2>2
<1> SUFFICES ASSUME NEW r, r = Now PROVE View!Next
    OBVIOUS
<1> QED
    BY <1>1, <1>3, <1>4, LookStep

LEMMA CrashViewed ==
    ASSUME Inv, Crash
    PROVE  View!Next
<1>1. /\ nodes' = NoNodes /\ complete' = FALSE /\ available' = TRUE /\ UNCHANGED past
      /\ listings' = [c \in Callers |-> None] /\ poll' = Idle
    BY DEF Crash, remote
<1>2. \A u \in Uids : Shown(u)' = Unknown
    BY <1>1 DEF Shown, NoNodes
<1>3. ReadingsNow' \subseteq ReadingsNow
    BY <1>1 DEF ReadingsNow, Idle
<1> QED
    BY <1>1, <1>2, <1>3, LookStep

(* The mirror and the event feed implement a view that lags (RemoteMirror):*)
(* whatever listings, events, failures and crashes overlap, the mirror     *)
(* never shows a node older than the beginning of the reading that put it  *)
(* there, and never denies one that stood in one place all the while.      *)
THEOREM FeedImplementsView == Spec => LagsOnly
<1>1. Init => View!Init
  <2> SUFFICES ASSUME Init PROVE View!Init
      OBVIOUS
  <2>1. Len(past) = 1
      BY FeedAssumption DEF Init
  <2>2. \A u \in Uids : Shown(u) = Unknown
      BY DEF Init, Shown, NoNodes
  <2>3. (\A c \in Callers : listings[c] = None) /\ poll.pc = "idle"
      BY DEF Init, Idle
  <2> QED
      BY <2>1, <2>2, <2>3 DEF View!Init
<1>2. Inv /\ [Next]_vars => [View!Next]_View!vars
  <2> SUFFICES ASSUME Inv, [Next]_vars PROVE View!Next \/ UNCHANGED View!vars
      OBVIOUS
  <2>0. Types /\ listings \in [Callers -> Listings \union {None}]
      BY DEF Inv, Types, CallsOK
  <2>1. CASE Others
      BY <2>1, DriveViewed
  <2>2. CASE UNCHANGED vars
    <3>1. ReadingsNow' = ReadingsNow
        BY <2>2 DEF vars, calls, ReadingsNow
    <3> QED
        BY <2>2, <3>1, StutterStep DEF vars, remote, mirror
  <2>3. CASE StartLists \/ EngineLists
    <3>1. /\ Lists("engine") /\ listings["engine"] = None /\ UNCHANGED <<past, mirror, poll>>
        BY <2>3 DEF StartLists, EngineLists, Inv, CallsOK, remote
    <3>2. ReadingsNow' = ReadingsNow \union {Now}
      <4>1. listings' = [listings EXCEPT !["engine"] = Started]
            /\ Started # None /\ Started.since = Now
          BY <2>0, <3>1, NewListing DEF Lists, Started, Types
      <4>2. listings'["engine"] = Started
            /\ \A o \in Callers \ {"engine"} : listings'[o] = listings[o]
          BY <2>0, <4>1 DEF Callers
      <4> QED
          BY <3>1, <4>1, <4>2 DEF ReadingsNow, Callers
    <3> QED
        BY <3>1, <3>2, BeginStep DEF mirror
  <2>4. CASE EventRefreshes
    <3>1. /\ Lists("feed") /\ listings["feed"] = None /\ poll.pc # "applying"
          /\ UNCHANGED <<past, mirror>>
        BY <2>4 DEF EventRefreshes, Inv, PollOK, remote
    <3>2. poll \in PollType /\ poll' = [poll EXCEPT !.pc = "refreshing"]
        BY <2>4 DEF EventRefreshes, Inv, PollOK, PollType
    <3>3. poll'.pc # "applying"
        BY <3>2 DEF PollType
    <3> QED
        BY <3>1, <3>3, ListsViewed DEF Callers
  <2>5. CASE PollFails
    <3>1. listings["feed"] = None /\ poll.pc # "applying" /\ UNCHANGED <<past, mirror>>
        BY <2>5 DEF PollFails, Inv, PollOK, remote
    <3>2. poll'.pc # "applying"
        BY <2>5 DEF PollFails, Idle
    <3>3. CASE Lists("feed")
        BY <3>1, <3>2, <3>3, ListsViewed DEF Callers
    <3>4. CASE UNCHANGED listings
      <4>1. ReadingsNow' = ReadingsNow
          BY <3>1, <3>2, <3>4 DEF ReadingsNow
      <4> QED
          BY <3>1, <4>1, StutterStep DEF mirror
    <3> QED
        BY <2>5, <3>3, <3>4 DEF PollFails
  <2>6. CASE EventReads
    <3>1. /\ poll.pc = "handling" /\ UNCHANGED <<past, mirror, listings>>
          /\ poll' = [poll EXCEPT !.pc = "applying", !.got = drive[Event.uid], !.seen = Now]
        BY <2>6 DEF EventReads, remote
    <3>2. poll \in PollType
        BY DEF Inv, PollOK, PollType
    <3>3. poll'.pc = "applying" /\ poll'.seen = Now
        BY <3>1, <3>2 DEF PollType
    <3>4. ReadingsNow' = ReadingsNow \union {Now}
        BY <3>1, <3>3 DEF ReadingsNow
    <3> QED
        BY <3>1, <3>4, BeginStep DEF mirror
  <2>7. CASE \E c \in Callers : ListFolder(c)
    <3> PICK c \in Callers : ListFolder(c)
        BY <2>7
    <3>1. listings[c] # None /\ UNCHANGED <<past, mirror, poll>>
        BY FolderFacts DEF Inv, remote
    <3>2. PICK new \in Listings :
            listings' = [listings EXCEPT ![c] = new] /\ new.since = listings[c].since
        BY FolderFacts DEF Inv
    <3>3. /\ listings'[c] = new /\ new # None
          /\ \A o \in Callers \ {c} : listings'[o] = listings[o]
        BY <2>0, <3>2, FeedAssumption
    <3>4. ReadingsNow' = ReadingsNow
        BY <3>1, <3>2, <3>3 DEF ReadingsNow
    <3> QED
        BY <3>1, <3>4, StutterStep DEF mirror
  <2>8. CASE PollBegins \/ PollAnswered \/ CursorStored
    <3>1. poll \in PollType
        BY DEF Inv, PollOK, PollType
    <3>2. poll.pc # "applying" /\ UNCHANGED <<past, nodes, complete, available, listings>>
        BY <2>8 DEF PollBegins, PollAnswered, CursorStored, remote, mirror
    <3>3. poll'.pc # "applying"
      <4>1. CASE PollBegins
          BY <3>1, <4>1 DEF PollBegins, Idle
      <4>2. CASE PollAnswered
          BY <3>1, <4>2 DEF PollAnswered, PollType
      <4>3. CASE CursorStored
        <5>1. CASE poll' = Idle
            BY <5>1 DEF Idle
        <5>2. CASE \E b : poll' = [poll EXCEPT !.pc = "handling", !.batch = b]
          <6> PICK b : poll' = [poll EXCEPT !.pc = "handling", !.batch = b]
              BY <5>2
          <6> QED
              BY <3>1 DEF PollType
        <5> QED
            BY <4>3, <5>1, <5>2 DEF CursorStored
      <4> QED
          BY <2>8, <4>1, <4>2, <4>3
    <3>4. ReadingsNow' = ReadingsNow
        BY <3>2, <3>3 DEF ReadingsNow
    <3> QED
        BY <3>2, <3>4, StutterStep
  <2> QED
      BY ProgramOrOthers, <2>1, <2>2, <2>3, <2>4, <2>5, <2>6, <2>7, <2>8, ListingEndViewed,
         ListingFailViewed, EventViewed, DeletionViewed, CrashViewed
<1> QED
    BY <1>1, <1>2, Invariant, PTL DEF Spec, View!Spec, LagsOnly

-----------------------------------------------------------------------------
(* The feed that has caught up.                                            *)

(* Folders stand in the root or outside of it.                             *)
Flat == \A d \in Dirs : drive[d] # None => drive[d].parent \in {Root, Outside}

(* A node that changed since moment i has an event since then.             *)
ChangesTold == \A u \in Uids, i \in 1 .. Now :
    (\A j \in i .. Len(events) : events[j].uid # u) => past[i][u] = drive[u]

(* A batch continues the stream where the cursor stands, or is one entry   *)
(* that stands for all that was there.                                     *)
InOrder ==
    \/ \A k \in 1 .. Len(poll.batch) :
          /\ poll.batch[k].type \in EventTypes
          /\ cursor # None /\ poll.batch[k].id = cursor + k
    \/ /\ Len(poll.batch) = 1 /\ Event.type \notin EventTypes
       /\ cursor # None => Event.id >= cursor

(* A node is read after the event that asks for it.                        *)
ReadLater == poll.pc = "applying" => Event.id < poll.seen

(* The feed is started after the first listing.                            *)
StartsLater == phase # "up" => poll.pc = "idle" /\ listings["feed"] = None

Order == Flat /\ ChangesTold /\ InOrder /\ ReadLater /\ StartsLater

(* The last event that is handled, and a node with an event still to come. *)
Handled == IF poll.pc = "storing" THEN Event.id ELSE cursor
Due(u) == Handled # None /\ \E j \in 1 .. Len(events) : j > Handled /\ events[j].uid = u

(* What a complete mirror is wrong about, the feed will hear of.           *)
MirrorTrue == complete => \A u \in Uids \ excused : True(u) \/ Due(u)

(* A listing has u as it is now, or still comes by.                        *)
Knows(l, u) ==
    IF l.found[u] # None THEN l.found[u] = drive[u]
    ELSE Way(drive, u) = None \/ \E k \in DOMAIN Way(drive, u) : Way(drive, u)[k] \in l.queue
ListingsKnow ==
    \A c \in Callers : listings[c] # None =>
        \A u \in Uids \ excused : Knows(listings[c], u) \/ (phase = "starting" /\ Due(u))

-----------------------------------------------------------------------------
(* Changes of the drive.                                                   *)

LEMMA FlatChange ==
    ASSUME Types, Flat, Others
    PROVE  Flat'
<1> PICK u \in Uids : Creates(u) \/ Edits(u) \/ Moves(u) \/ Trashes(u) \/ Deletes(u)
    BY DEF Others
<1>0. DriveOK /\ drive \in Trees
    BY DriveFacts DEF Types
<1>1. ASSUME NEW node \in Node \union {None}, NEW type \in EventTypes, Change(u, node, type),
             u \in Dirs /\ node # None => node.parent \in {Root, Outside}
      PROVE  Flat'
  <2>1. drive' = [drive EXCEPT ![u] = node]
      BY <1>0, <1>1, ChangeFacts
  <2> QED
      BY <1>0, <1>1, <2>1 DEF Flat, Trees, Uids
<1>2. CASE Creates(u)
  <2> PICK p \in Places(u) :
        Change(u, [parent |-> p, rev |-> 0, trashed |-> FALSE], "node_created")
      BY <1>2 DEF Creates
  <2>1. [parent |-> p, rev |-> 0, trashed |-> FALSE] \in Node
      BY DEF Node, Places
  <2> QED
      BY <1>1, <2>1 DEF Places, EventTypes
<1>3. CASE Edits(u)
  <2>1. drive[u] \in Node /\ [drive[u] EXCEPT !.rev = @ + 1] \in Node /\ u \notin Dirs
      BY <1>0, <1>3, FeedAssumption DEF Edits, Node, Trees
  <2> QED
      BY <1>1, <1>3, <2>1 DEF Edits, EventTypes
<1>4. CASE Moves(u)
  <2> PICK p \in Places(u) :
        drive[u] # None /\ Change(u, [drive[u] EXCEPT !.parent = p], "node_updated")
      BY <1>4 DEF Moves
  <2>1. drive[u] \in Node /\ p \in Dirs \union {Root, Outside}
      BY <1>0 DEF Places, Trees
  <2>2. [drive[u] EXCEPT !.parent = p] \in Node /\ [drive[u] EXCEPT !.parent = p].parent = p
      BY <2>1 DEF Node
  <2> QED
      BY <1>1, <2>2 DEF Places, EventTypes
<1>5. CASE Trashes(u)
  <2>1. drive[u] \in Node /\ drive[u].parent \in {Root, Outside}
      BY <1>0, <1>5 DEF Trashes, Trees, Flat
  <2>2. /\ [drive[u] EXCEPT !.trashed = ~@] \in Node
        /\ [drive[u] EXCEPT !.trashed = ~@].parent = drive[u].parent
      BY <2>1 DEF Node
  <2> QED
      BY <1>1, <1>5, <2>1, <2>2 DEF Trashes, EventTypes
<1>6. CASE Deletes(u)
    BY <1>1, <1>6 DEF Deletes, EventTypes
<1> QED
    BY <1>2, <1>3, <1>4, <1>5, <1>6

(* A change disturbs the node and, when it is a folder, what is below it.  *)
LEMMA ChangeElsewhere ==
    ASSUME NEW tree \in Trees, NEW tree2 \in Trees, NEW u \in Uids,
           \A w \in Uids \ {u} : tree2[w] = tree[w],
           NEW v \in Uids \ {u}, v \notin Below(tree, u)
    PROVE  tree2[v] = tree[v] /\ Way(tree2, v) = Way(tree, v)
<1>1. tree2[v] = tree[v]
    OBVIOUS
<1>2. CASE tree[v] = None
    BY <1>1, <1>2 DEF Way
<1>3. CASE tree[v] # None
  <2> PICK p : p = tree[v].parent
      OBVIOUS
  <2>1. p \in Dirs \union {Root, Outside}
      BY <1>3 DEF Trees, Node
  <2>2. p \in Dirs => tree2[p] = tree[p]
    <3>1. p \in Dirs => p # u
        BY <1>3 DEF Below, Children
    <3> QED
        BY <3>1 DEF Uids
  <2> QED
      BY <1>1, <1>3, <2>1, <2>2 DEF Way
<1> QED
    BY <1>1, <1>2, <1>3

(* A node that is not excused after a change: what the change says of it.  *)
LEMMA NotExcused ==
    ASSUME Types, Flat, NEW u \in Uids, NEW node \in Node \union {None},
           NEW type \in EventTypes, Change(u, node, type), NEW v \in Uids \ excused'
    PROVE  /\ v \notin excused
           /\ v = u => ~Unfollowed /\ ~(Listing /\ phase = "up")
           /\ v \in Below(drive, u) =>
                 /\ ~Listing /\ v # u /\ drive[v] # None /\ drive'[v] = drive[v]
                 /\ Way(drive, v) # None
<1>0. DriveOK /\ drive \in Trees
    BY DriveFacts DEF Types
<1>1. drive' = [drive EXCEPT ![u] = node] /\ past'[Now + 1] = drive'
    BY <1>0, ChangeFacts
<1> DEFINE below == Below(drive, u) \union Below(drive', u)
           appears == drive[u] = None \/ Way(drive, u) = None \/ drive[u].trashed
<1>2. excused' = excused \union
            (IF Unfollowed \/ (Listing /\ phase = "up") THEN below \union {u}
             ELSE IF Listing \/ appears THEN below
             ELSE {})
    BY <1>1 DEF Change
<1>3. ASSUME v \in Below(drive, u)
      PROVE  /\ ~Listing /\ v # u /\ drive[v] # None /\ drive'[v] = drive[v]
             /\ Way(drive, v) # None
  <2>1. ~Listing /\ ~appears
      BY <1>2, <1>3
  <2>2. u \in Dirs /\ drive[v] # None /\ drive[v].parent = u
      BY <1>3 DEF Below, Children
  <2>3. u \notin {Root, Outside}
      BY FeedAssumption
  <2>4. drive[u].parent \in {Root, Outside}
      BY <2>1, <2>2 DEF Flat
  <2>5. drive[u].parent = Root
      BY <2>1, <2>4 DEF Way
  <2>6. v # u
      BY <2>2, <2>3, <2>4
  <2>7. Way(drive, v) = <<Root, u>>
      BY <2>1, <2>2, <2>3, <2>5 DEF Way
  <2>8. <<Root, u>> # None
      BY <2>2, FeedAssumption
  <2> QED
      BY <1>0, <1>1, <2>1, <2>2, <2>6, <2>7, <2>8 DEF Trees
<1>4. v \notin excused
    BY <1>2
<1>5. v = u => ~Unfollowed /\ ~(Listing /\ phase = "up")
    BY <1>2
<1> QED
    BY <1>3, <1>4, <1>5

LEMMA ToldChange ==
    ASSUME Types, ChangesTold, Others
    PROVE  ChangesTold'
<1> PICK u \in Uids, node \in Node \union {None}, type \in EventTypes :
        ChangeOf(u, node, type)
    BY OthersChange DEF Types
<1>4. DriveOK /\ Change(u, node, type)
    BY DEF Types, ChangeOf
<1>0. Now = Len(events) + 1 /\ Len(events) \in Nat /\ drive \in Trees
    BY <1>4, DriveFacts DEF DriveOK, Now
<1>1. /\ Now' = Now + 1 /\ \A i \in 1 .. Now : past'[i] = past[i]
      /\ drive' = [drive EXCEPT ![u] = node] /\ past'[Now + 1] = drive'
      /\ Len(events') = Len(events) + 1
      /\ \A j \in 1 .. Len(events) : events'[j] = events[j]
      /\ events'[Len(events) + 1] = [type |-> type, uid |-> u]
    BY <1>4, ChangeFacts
<1> SUFFICES ASSUME NEW v \in Uids, NEW i \in 1 .. Now',
                    \A j \in i .. Len(events') : events'[j].uid # v
             PROVE  past'[i][v] = drive'[v]
    BY DEF ChangesTold
<1>2. CASE i = Now + 1
    BY <1>1, <1>2
<1>3. CASE i \in 1 .. Now
  <2>1. Len(events) + 1 \in i .. Len(events')
      BY <1>0, <1>1, <1>3
  <2>2. v # u
      BY <1>1, <2>1
  <2>3. \A j \in i .. Len(events) : events[j].uid # v
      BY <1>0, <1>1, <1>3
  <2>4. past[i][v] = drive[v]
      BY <1>3, <2>3 DEF ChangesTold
  <2> QED
      BY <1>0, <1>1, <1>3, <2>2, <2>4 DEF Trees
<1> QED
    BY <1>0, <1>1, <1>2, <1>3

(* What was due stays due, and the node that changed becomes due.          *)
LEMMA DueChange ==
    ASSUME Types, NEW u \in Uids, NEW node \in Node \union {None},
           NEW type \in EventTypes, Change(u, node, type)
    PROVE  /\ \A v \in Uids : Due(v) => Due(v)'
           /\ cursor # None => Due(u)'
<1>0. DriveOK /\ Len(events) \in Nat
    BY DEF Types, DriveOK
<1>1. /\ Len(events') = Len(events) + 1
      /\ \A j \in 1 .. Len(events) : events'[j] = events[j]
      /\ events'[Len(events) + 1] = [type |-> type, uid |-> u]
    BY <1>0, ChangeFacts
<1>5. UNCHANGED <<cursor, poll>>
    BY DEF Change, calls
<1>2. Handled' = Handled
    BY <1>5 DEF Handled, Event
<1>3. \A v \in Uids : Due(v) => Due(v)'
    BY <1>0, <1>1, <1>2 DEF Due
<1>4. ASSUME cursor # None PROVE Due(u)'
  <2>1. Handled \in 0 .. Len(events)
    <3>1. cursor \in 0 .. Len(events)
        BY <1>4 DEF Types, CallsOK
    <3>2. poll.pc = "storing" => poll.batch # <<>>
        BY DEF Types, PollOK
    <3>3. poll.pc = "storing" => Event.id \in 0 .. Len(events)
        BY <1>0, <3>2, EventFacts DEF BatchEntry, Served
    <3> QED
        BY <3>1, <3>3 DEF Handled
  <2>2. Len(events) + 1 \in 1 .. Len(events') /\ Len(events) + 1 > Handled /\ Handled # None
    <3>1. Handled # None
        BY <1>0, <2>1, FeedAssumption
    <3> QED
        BY <1>0, <1>1, <2>1, <3>1
  <2>3. events'[Len(events) + 1].uid = u
      BY <1>1
  <2> QED
      BY <1>2, <2>2, <2>3 DEF Due
<1> QED
    BY <1>3, <1>4

(* The mirror, and a listing, when the drive changes: what is wrong is due.*)
LEMMA MirrorChange ==
    ASSUME Types, Flat, MirrorTrue, Others
    PROVE  MirrorTrue'
<1> PICK u \in Uids, node \in Node \union {None}, type \in EventTypes :
        ChangeOf(u, node, type)
    BY OthersChange DEF Types
<1>0. DriveOK /\ Change(u, node, type) /\ drive \in Trees
    BY DriveFacts DEF Types, ChangeOf
<1>1. drive' = [drive EXCEPT ![u] = node] /\ UNCHANGED <<nodes, complete, cursor>>
    BY <1>0, ChangeFacts DEF mirror
<1> PICK tree2 : tree2 = drive'
    OBVIOUS
<1>6. tree2 \in Trees /\ \A w \in Uids \ {u} : tree2[w] = drive[w]
    BY <1>0, <1>1 DEF Trees
<1> SUFFICES ASSUME complete, NEW v \in Uids \ excused' PROVE True(v)' \/ Due(v)'
    BY <1>1 DEF MirrorTrue
<1>2. /\ v \notin excused /\ (v = u => ~Unfollowed)
      /\ v \in Below(drive, u) => /\ v # u /\ drive[v] # None /\ drive'[v] = drive[v]
                                  /\ Way(drive, v) # None
    BY <1>0, NotExcused
<1>3. CASE v = u
  <2>1. cursor # None
      BY <1>2, <1>3 DEF Unfollowed
  <2> QED
      BY <1>0, <1>3, <2>1, DueChange
<1>4. CASE Due(v)
    BY <1>0, <1>4, DueChange
<1>5. CASE v # u /\ ~Due(v)
  <2>1. True(v)
      BY <1>2, <1>5 DEF MirrorTrue
  <2>2. CASE v \in Below(drive, u)
    <3>1. nodes[v] # None /\ nodes[v] = drive'[v]
        BY <1>2, <2>1, <2>2 DEF True
    <3> QED
        BY <1>1, <3>1 DEF True
  <2>3. CASE v \notin Below(drive, u)
    <3>1. tree2[v] = drive[v] /\ Way(tree2, v) = Way(drive, v)
      <4>1. v \in Uids \ {u} /\ drive \in Trees
          BY <1>0, <1>5
      <4> QED
          BY <1>6, <2>3, <4>1, ChangeElsewhere
    <3> QED
        BY <1>1, <2>1, <3>1 DEF True
  <2> QED
      BY <2>2, <2>3
<1> QED
    BY <1>3, <1>4, <1>5

LEMMA KnowledgeChange ==
    ASSUME Types, Flat, StartsLater, ListingsKnow, Others
    PROVE  ListingsKnow'
<1> PICK u \in Uids, node \in Node \union {None}, type \in EventTypes :
        ChangeOf(u, node, type)
    BY OthersChange DEF Types
<1>0. DriveOK /\ Change(u, node, type) /\ drive \in Trees
    BY DriveFacts DEF Types, ChangeOf
<1>1. drive' = [drive EXCEPT ![u] = node] /\ UNCHANGED <<listings, phase, cursor>>
    BY <1>0, ChangeFacts DEF calls
<1> PICK tree2 : tree2 = drive'
    OBVIOUS
<1>7. tree2 \in Trees /\ \A w \in Uids \ {u} : tree2[w] = drive[w]
    BY <1>0, <1>1 DEF Trees
<1> SUFFICES ASSUME NEW c \in Callers, listings[c] # None, NEW v \in Uids \ excused'
             PROVE  Knows(listings[c], v)' \/ (phase = "starting" /\ Due(v)')
    BY <1>1 DEF ListingsKnow
<1> PICK l : l = listings[c]
    OBVIOUS
<1>2. Listing
    BY DEF Listing
<1>3. /\ v \notin excused /\ v \notin Below(drive, u)
      /\ v = u => ~Unfollowed /\ ~(Listing /\ phase = "up")
    BY <1>0, <1>2, NotExcused
<1>4. CASE v = u
  <2>1. cursor # None /\ phase # "up"
      BY <1>2, <1>3, <1>4 DEF Unfollowed
  <2>2. phase = "starting"
    <3>1. phase \in {"down", "starting"}
        BY <2>1 DEF Types, CallsOK
    <3>2. phase # "down"
      <4> SUFFICES ASSUME phase = "down" PROVE FALSE
          OBVIOUS
      <4>1. listings["engine"] = None /\ listings["feed"] = None
          BY DEF Types, CallsOK, StartsLater, Callers
      <4> QED
          BY <2>1, <4>1 DEF Callers
    <3> QED
        BY <3>1, <3>2
  <2> QED
      BY <1>0, <1>4, <2>1, <2>2, DueChange
<1>5. CASE phase = "starting" /\ Due(v)
    BY <1>0, <1>5, DueChange
<1>6. CASE v # u /\ ~(phase = "starting" /\ Due(v))
  <2>1. Knows(l, v)
      BY <1>3, <1>6 DEF ListingsKnow
  <2>2. tree2[v] = drive[v] /\ Way(tree2, v) = Way(drive, v)
    <3>1. v \in Uids \ {u} /\ drive \in Trees
        BY <1>0, <1>6
    <3> QED
        BY <1>3, <1>7, <3>1, ChangeElsewhere
  <2>3. listings'[c] = l
      BY <1>1
  <2> QED
      BY <2>1, <2>2, <2>3 DEF Knows
<1> QED
    BY <1>4, <1>5, <1>6

-----------------------------------------------------------------------------
(* The order of the feed's steps.                                          *)

(* Who touches the batch and the cursor.                                   *)
LEMMA BatchKept ==
    ASSUME Types, [Next]_vars, ~Others
    PROVE  \/ UNCHANGED cursor /\ poll'.batch \in {poll.batch, <<>>}
           \/ PollAnswered \/ CursorStored
<1>0. poll \in PollType
    BY DEF Types, PollOK, PollType
<1>1. CASE UNCHANGED vars \/ StartLists \/ EngineLists \/ \E c \in Callers : ListFolder(c)
    BY <1>1 DEF vars, calls, StartLists, EngineLists, ListFolder
<1>2. CASE \E c \in Callers : ListingEnds(c) \/ ListingFails(c)
    BY <1>0, <1>2 DEF ListingEnds, ListingFails, ListingReturns, PollType
<1>3. CASE PollBegins
    BY <1>3 DEF PollBegins, Idle
<1>4. CASE EventReads \/ EventApplied \/ EventDeletes \/ EventRefreshes
    BY <1>0, <1>4 DEF EventReads, EventApplied, EventDeletes, EventRefreshes, PollType
<1>5. CASE PollFails \/ Crash
    BY <1>5 DEF PollFails, Crash, Idle
<1> QED
    BY ProgramOrOthers, <1>1, <1>2, <1>3, <1>4, <1>5

LEMMA InOrderStep ==
    ASSUME Types, InOrder, [Next]_vars
    PROVE  InOrder'
<1>0. poll \in PollType /\ Len(events) \in Nat
    BY DEF Types, PollOK, PollType, DriveOK
<1>1. ASSUME UNCHANGED cursor, poll'.batch = poll.batch PROVE InOrder'
  <2>1. Event' = Event
      BY <1>1 DEF Event
  <2> QED
      BY <1>1, <2>1 DEF InOrder
<1>2. ASSUME poll'.batch = <<>> PROVE InOrder'
    BY <1>2 DEF InOrder
<1>3. CASE Others
  <2>1. UNCHANGED <<cursor, poll>>
      BY <1>3, OthersChange, ChangeFacts DEF ChangeOf, Types, calls
  <2> QED
      BY <1>1, <2>1
<1>4. CASE PollAnswered
  <2>1. UNCHANGED cursor
      BY <1>4 DEF PollAnswered
  <2>2. ASSUME NEW type \in {"fast_forward", "refresh_required"}, poll'.batch = Single(type)
        PROVE  InOrder'
    <3>1. Event' = [type |-> type, uid |-> None, id |-> Len(events)] /\ Len(poll'.batch) = 1
        BY <2>2 DEF Event, Single
    <3>2. cursor # None => Len(events) >= cursor
        BY <1>0 DEF Types, CallsOK
    <3> QED
        BY <2>1, <3>1, <3>2 DEF InOrder, EventTypes
  <2>3. ASSUME poll'.batch = Pending, cursor \notin {None, Len(events)}
        PROVE  InOrder'
    <3>1. cursor \in 0 .. Len(events) /\ Len(events) - cursor \in Nat
        BY <1>0, <2>3 DEF Types, CallsOK
    <3>2. Len(poll'.batch) = Len(events) - cursor
        BY <2>3, <3>1 DEF Pending
    <3>3. ASSUME NEW k \in 1 .. Len(poll'.batch)
          PROVE  poll'.batch[k].type \in EventTypes /\ poll'.batch[k].id = cursor + k
      <4>1. cursor + k \in 1 .. Len(events)
          BY <1>0, <3>1, <3>2
      <4>2. events[cursor + k] \in ChangeEvent
          BY <4>1 DEF Types, DriveOK
      <4>3. poll'.batch[k] = [type |-> events[cursor + k].type, uid |-> events[cursor + k].uid,
                              id |-> cursor + k]
          BY <2>3, <3>2 DEF Pending
      <4> QED
          BY <4>2, <4>3 DEF ChangeEvent
    <3> QED
        BY <2>1, <2>3, <3>3 DEF InOrder
  <2>4. \/ \E type \in {"fast_forward", "refresh_required"} : poll'.batch = Single(type)
        \/ poll'.batch = Pending /\ cursor \notin {None, Len(events)}
    <3>1. CASE cursor \in {None, Len(events)}
      <4>1. poll' = [poll EXCEPT !.pc = "storing", !.batch = Single("fast_forward")]
          BY <1>4, <3>1 DEF PollAnswered
      <4> QED
          BY <1>0, <4>1 DEF PollType
    <3>2. CASE cursor \notin {None, Len(events)}
      <4>1. \E batch \in {Pending, Single("refresh_required")} :
               poll' = [poll EXCEPT !.pc = "handling", !.batch = batch]
          BY <1>4, <3>2 DEF PollAnswered
      <4>2. poll'.batch \in {Pending, Single("refresh_required")}
          BY <1>0, <4>1 DEF PollType
      <4> QED
          BY <3>2, <4>2
    <3> QED
        BY <3>1, <3>2
  <2> QED
      BY <2>2, <2>3, <2>4
<1>5. CASE CursorStored
  <2>0. poll.pc = "storing" /\ poll.batch # <<>>
      BY <1>5 DEF CursorStored, Types, PollOK
  <2>1. Event = poll.batch[1] /\ Len(poll.batch) \in Nat \ {0} /\ cursor' = Event.id
        /\ Event \in BatchEntry
      BY <1>5, <2>0, EventFacts DEF CursorStored
  <2>2. CASE Len(poll.batch) = 1
      BY <1>2, <1>5, <2>2 DEF CursorStored, Idle
  <2>3. CASE Len(poll.batch) # 1
    <3>1. poll.batch \in Seq(BatchEntry) /\ Len(poll.batch) \in Nat \ {0, 1}
        BY <1>0, <2>1, <2>3 DEF PollType
    <3>2. /\ Len(Tail(poll.batch)) = Len(poll.batch) - 1
          /\ \A k \in 1 .. Len(Tail(poll.batch)) : Tail(poll.batch)[k] = poll.batch[k + 1]
        BY <2>0, <3>1, HeadTailProperties, Zenon
    <3>3. poll'.batch = Tail(poll.batch)
        BY <1>0, <1>5, <2>3 DEF CursorStored, PollType
    <3>4. cursor # None /\ cursor \in Nat
          /\ \A k \in 1 .. Len(poll.batch) : /\ poll.batch[k].type \in EventTypes
                                             /\ poll.batch[k].id = cursor + k
        BY <1>0, <2>3, <3>1 DEF InOrder, Types, CallsOK
    <3>5. cursor' = cursor + 1 /\ cursor' # None
        BY <2>1, <3>1, <3>4, FeedAssumption
    <3>6. ASSUME NEW k \in 1 .. Len(poll'.batch)
          PROVE  poll'.batch[k].type \in EventTypes /\ poll'.batch[k].id = cursor' + k
      <4>1. k + 1 \in 1 .. Len(poll.batch) /\ poll'.batch[k] = poll.batch[k + 1] /\ k \in Nat
          BY <3>1, <3>2, <3>3
      <4> QED
          BY <3>4, <3>5, <4>1
    <3> QED
        BY <3>5, <3>6 DEF InOrder
  <2> QED
      BY <2>2, <2>3
<1> QED
    BY <1>1, <1>2, <1>3, <1>4, <1>5, BatchKept

LEMMA ReadLaterStep ==
    ASSUME Types, ReadLater, [Next]_vars
    PROVE  ReadLater'
<1>1. CASE UNCHANGED poll
  <2>1. Event' = Event
      BY <1>1 DEF Event
  <2> QED
      BY <1>1, <2>1 DEF ReadLater
<1>2. CASE Others
    BY <1>1, <1>2, OthersChange, ChangeFacts DEF ChangeOf, Types, calls
<1>3. CASE EventReads
  <2>1. poll \in PollType /\ poll.batch # <<>>
      BY <1>3 DEF EventReads, Types, PollOK, PollType
  <2>2. poll'.seen = Now /\ poll'.batch = poll.batch
      BY <1>3, <2>1 DEF EventReads, PollType
  <2>3. Event' = Event
      BY <2>2 DEF Event
  <2>4. Event.id <= Len(events) /\ Event.id \in Nat /\ Now = Len(events) + 1
        /\ Len(events) \in Nat
      BY <2>1, EventFacts DEF Served, BatchEntry, Types, DriveOK, Now
  <2> QED
      BY <2>2, <2>3, <2>4 DEF ReadLater
<1>4. CASE poll'.pc # "applying"
    BY <1>4 DEF ReadLater
<1> QED
    BY <1>1, <1>2, <1>3, <1>4, ReadsOnly

LEMMA StartsLaterStep ==
    ASSUME Types, StartsLater, [Next]_vars
    PROVE  StartsLater'
<1>0. listings \in [Callers -> Listings \union {None}]
    BY DEF Types, CallsOK
<1>1. CASE UNCHANGED <<phase, poll, listings>>
    BY <1>1 DEF StartsLater
<1>2. CASE Others
    BY <1>1, <1>2, OthersChange, ChangeFacts DEF ChangeOf, Types, calls
<1>3. CASE phase' = "up"
    BY <1>3 DEF StartsLater
<1>4. CASE StartLists
  <2>1. phase = "down" /\ UNCHANGED poll /\ listings' = [listings EXCEPT !["engine"] = Started]
      BY <1>4 DEF StartLists, Lists
  <2> QED
      BY <1>0, <2>1 DEF StartsLater, Callers
<1>5. CASE \E c \in Callers : ListFolder(c)
  <2> PICK c \in Callers : ListFolder(c)
      BY <1>5
  <2>1. listings[c] # None /\ UNCHANGED <<phase, poll>>
        /\ \A o \in Callers \ {c} : listings'[o] = listings[o]
      BY <1>0 DEF ListFolder
  <2> QED
      BY <2>1 DEF StartsLater, Callers
<1>6. CASE \E c \in Callers : ListingEnds(c) \/ ListingFails(c)
  <2> PICK c \in Callers : ListingEnds(c) \/ ListingFails(c)
      BY <1>6
  <2>1. listings[c] # None /\ phase' = IF c = "engine" THEN "up" ELSE phase
      BY DEF ListingEnds, ListingFails, ListingReturns
  <2> QED
      BY <1>3, <2>1 DEF StartsLater, Callers
<1>7. CASE Crash
    BY <1>7 DEF Crash, StartsLater, Idle, Callers
<1>8. CASE EngineLists \/ PollBegins
    BY <1>3, <1>8 DEF EngineLists, PollBegins
<1>9. CASE PollAnswered \/ EventReads \/ EventApplied \/ EventDeletes \/ EventRefreshes
           \/ CursorStored \/ PollFails
  <2>1. poll.pc # "idle" /\ UNCHANGED phase
      BY <1>9 DEF PollAnswered, EventReads, EventApplied, EventDeletes, EventRefreshes,
         CursorStored, PollFails
  <2> QED
      BY <1>3, <2>1 DEF StartsLater
<1> QED
    BY <1>1, <1>2, <1>4, <1>5, <1>6, <1>7, <1>8, <1>9, ProgramOrOthers DEF vars, calls

LEMMA OrderStep ==
    ASSUME Types, Order, [Next]_vars
    PROVE  Order'
<1>1. Flat' /\ ChangesTold'
  <2>1. CASE Others
      BY <2>1, FlatChange, ToldChange DEF Order
  <2>2. CASE ~Others
      BY <2>2, Undriven DEF Order, Flat, ChangesTold
  <2> QED
      BY <2>1, <2>2
<1> QED
    BY <1>1, InOrderStep, ReadLaterStep, StartsLaterStep DEF Order

-----------------------------------------------------------------------------
(* What is due stays due until the feed handles it.                        *)

LEMMA DueKept ==
    ASSUME Types, InOrder, [Next]_vars, ~Others, ~Crash,
           ~ \E c \in Callers : ListingEnds(c) \/ ListingFails(c),
           NEW u \in Uids, Due(u)
    PROVE  Due(u)' \/ ((EventApplied \/ EventDeletes) /\ u = Event.uid)
<1>0. poll \in PollType /\ Len(events) \in Nat /\ UNCHANGED events
    BY Undriven DEF Types, PollOK, PollType, DriveOK
<1>1. ASSUME Handled' = Handled PROVE Due(u)'
    BY <1>0, <1>1 DEF Due
<1>2. CASE UNCHANGED <<poll, cursor>>
  <2>1. Handled' = Handled
      BY <1>2 DEF Handled, Event
  <2> QED
      BY <1>1, <2>1
<1>3. CASE PollBegins \/ PollFails
  <2>1. poll.pc # "storing" /\ UNCHANGED cursor
      BY <1>3 DEF PollBegins, PollFails
  <2>2. poll'.pc # "storing"
    <3>1. poll' = Idle \/ (\E n \in Nat : poll' = [Idle EXCEPT !.pc = "asking", !.since = n])
          \/ poll' = [Idle EXCEPT !.pc = "healing"]
        BY <1>3, DriveFacts DEF PollBegins, PollFails, Types
    <3>2. CASE poll' = Idle
        BY <3>2 DEF Idle
    <3>3. CASE \E n \in Nat : poll' = [Idle EXCEPT !.pc = "asking", !.since = n]
      <4> PICK n \in Nat : poll' = [Idle EXCEPT !.pc = "asking", !.since = n]
          BY <3>3
      <4> QED
          BY DEF Idle
    <3>4. CASE poll' = [Idle EXCEPT !.pc = "healing"]
        BY <3>4 DEF Idle
    <3> QED
        BY <3>1, <3>2, <3>3, <3>4
  <2> QED
      BY <1>1, <2>1, <2>2 DEF Handled
<1>4. CASE EventReads \/ EventRefreshes
  <2>1. poll.pc # "storing" /\ UNCHANGED cursor /\ poll'.pc # "storing"
      BY <1>0, <1>4 DEF EventReads, EventRefreshes, PollType
  <2> QED
      BY <1>1, <2>1 DEF Handled
<1>5. CASE PollAnswered
  <2>1. poll.pc = "asking" /\ UNCHANGED cursor
      BY <1>5 DEF PollAnswered
  <2>2. cursor # None /\ cursor # Len(events)
      BY <1>0, <2>1 DEF Handled, Due
  <2>3. poll'.pc = "handling"
      BY <1>0, <1>5, <2>2 DEF PollAnswered, PollType
  <2> QED
      BY <1>1, <2>1, <2>3 DEF Handled
<1>6. CASE EventApplied \/ EventDeletes
  <2>1. /\ poll.pc \in {"applying", "handling"} /\ poll.batch # <<>>
        /\ Event.type \in EventTypes /\ poll'.pc = "storing" /\ poll'.batch = poll.batch
      BY <1>0, <1>6 DEF EventApplied, EventDeletes, Types, PollOK, PollType, EventTypes
  <2>2. Event = poll.batch[1] /\ Served(Event) /\ 1 \in 1 .. Len(poll.batch)
      BY <2>1, EventFacts
  <2>3. Event.id = cursor + 1 /\ cursor \in Nat
      BY <1>0, <2>1, <2>2 DEF InOrder, Types, CallsOK
  <2>4. Handled = cursor /\ Handled' = Event.id
      BY <2>1 DEF Handled, Event
  <2>5. PICK j \in 1 .. Len(events) : j > cursor /\ events[j].uid = u
      BY <2>4 DEF Due
  <2>6. CASE j = Event.id
      BY <1>6, <2>1, <2>2, <2>5, <2>6 DEF Served
  <2>7. CASE j > Event.id
      BY <1>0, <2>3, <2>4, <2>5, <2>7, FeedAssumption DEF Due
  <2> QED
      BY <2>3, <2>5, <2>6, <2>7
<1>7. CASE CursorStored
  <2>1. poll.pc = "storing" /\ cursor' = Event.id
      BY <1>7 DEF CursorStored
  <2>2. poll'.pc # "storing"
    <3>1. CASE Len(poll.batch) = 1
        BY <1>7, <3>1 DEF CursorStored, Idle
    <3>2. CASE Len(poll.batch) # 1
        BY <1>0, <1>7, <3>2 DEF CursorStored, PollType
    <3> QED
        BY <3>1, <3>2
  <2> QED
      BY <1>1, <2>1, <2>2 DEF Handled
<1>8. CASE StartLists \/ EngineLists \/ \E c \in Callers : ListFolder(c)
    BY <1>2, <1>8 DEF StartLists, EngineLists, ListFolder
<1> QED
    BY <1>2, <1>3, <1>4, <1>5, <1>6, <1>7, <1>8, ProgramOrOthers DEF vars, calls

(* A listing that has ended knows every node that it is not excused of.    *)
LEMMA ListingEndTrue ==
    ASSUME Inv, StartsLater, MirrorTrue, ListingsKnow, NEW c \in Callers, ListingEnds(c),
           UNCHANGED <<past, events>>
    PROVE  MirrorTrue'
<1> PICK l : l = listings[c]
    OBVIOUS
<1>1. l \in Listings /\ l # None /\ l.queue = {} /\ nodes' = l.found /\ ListingTrue(l)
      /\ l.since \in 1 .. Now
    BY DEF ListingEnds, Inv, CallsOK, ListingsTrue
<1>2. drive' = drive /\ drive \in Trees /\ Now \in Nat \ {0}
    BY DriveFacts DEF drive, Now, Inv
<1> SUFFICES ASSUME NEW u \in Uids \ excused' PROVE True(u)' \/ Due(u)'
    BY DEF MirrorTrue
<1>3. CASE l.since = Now
  <2>1. CASE l.found[u] # None
    <3>1. PICK i \in l.since .. Now : past[i][u] = l.found[u]
        BY <1>1, <2>1 DEF ListingTrue
    <3>2. i = Now
        BY <1>2, <1>3
    <3> QED
        BY <1>1, <1>2, <2>1, <3>1, <3>2 DEF True, drive
  <2>2. CASE l.found[u] = None
    <3>1. ~ View!Steady(u, Now)
        BY <1>1, <1>3, <2>2 DEF ListingTrue
    <3>2. \A i \in Now .. Now : i = Now
        BY <1>2
    <3>3. Way(drive, u) = None
        BY <3>1, <3>2 DEF View!Steady, drive, Now
    <3> QED
        BY <1>1, <1>2, <2>2, <3>3 DEF True
  <2> QED
      BY <2>1, <2>2
<1>4. CASE u \notin excused
  <2>1. Knows(l, u) \/ (phase = "starting" /\ Due(u))
      BY <1>1, <1>4 DEF ListingsKnow
  <2>2. CASE Knows(l, u)
      BY <1>1, <1>2, <2>2 DEF Knows, True
  <2>3. CASE phase = "starting" /\ Due(u)
    <3>1. c = "engine" /\ poll.pc = "idle"
        BY <1>1, <2>3 DEF StartsLater, Callers
    <3>2. UNCHANGED <<poll, cursor>>
        BY <3>1 DEF ListingEnds, ListingReturns
    <3>3. Handled' = Handled
        BY <3>2 DEF Handled, Event
    <3> QED
        BY <2>3, <3>3 DEF Due
  <2> QED
      BY <2>1, <2>2, <2>3
<1>5. u \notin excused \/ l.since = Now
    BY DEF ListingEnds
<1> QED
    BY <1>3, <1>4, <1>5

LEMMA MirrorStep ==
    ASSUME Inv, Order, MirrorTrue, ListingsKnow, [Next]_vars
    PROVE  MirrorTrue'
<1>0. Types /\ DriveOK /\ drive \in Trees
    BY DriveFacts DEF Inv, Types
<1>1. CASE Others
    BY <1>0, <1>1, MirrorChange DEF Order
<1>2. CASE \E c \in Callers : ListingFails(c)
    BY <1>2 DEF ListingFails, MirrorTrue
<1>3. CASE Crash
    BY <1>3 DEF Crash, MirrorTrue
<1>4. CASE ~Others /\ ~Crash /\ ~ \E c \in Callers : ListingFails(c)
  <2>0. UNCHANGED <<past, events>> /\ Now' = Now /\ drive' = drive
      BY <1>4, Undriven
  <2>1. CASE \E c \in Callers : ListingEnds(c)
      BY <2>0, <2>1, ListingEndTrue DEF Order
  <2>2. CASE ~ \E c \in Callers : ListingEnds(c)
    <3>0. UNCHANGED <<complete, excused>>
        BY <1>4, <2>2, ProgramOrOthers DEF vars, mirror, StartLists, EngineLists, ListFolder,
           PollBegins, PollAnswered, EventReads, EventApplied, EventDeletes, EventRefreshes,
           CursorStored, PollFails
    <3> SUFFICES ASSUME complete, NEW u \in Uids \ excused PROVE True(u)' \/ Due(u)'
        BY <3>0 DEF MirrorTrue
    <3>1. True(u) \/ Due(u)
        BY DEF MirrorTrue
    <3>2. CASE (EventApplied \/ EventDeletes) /\ u = Event.uid
      <4>0. /\ poll.pc \in {"applying", "handling"} /\ poll.batch # <<>> /\ poll \in PollType
            /\ Event.type \in EventTypes /\ nodes \in [Uids -> Node \union {None}]
          BY <3>2 DEF EventApplied, EventDeletes, Inv, CallsOK, PollOK, PollType, EventTypes,
             Trees
      <4>1. CASE EventDeletes
        <5>1. nodes'[u] = None
            BY <3>2, <4>0, <4>1 DEF EventDeletes, WithNode
        <5>2. Event.type = "node_deleted" /\ Served(Event)
            BY <1>0, <4>0, <4>1, EventFacts DEF EventDeletes
        <5>3. Event.id \in 1 .. Len(events) /\ events[Event.id].type = "node_deleted"
              /\ events[Event.id].uid = u
            BY <3>2, <4>0, <5>2 DEF Served
        <5>4. drive[u] = None
            BY <5>3 DEF Inv, DeletedStay
        <5> QED
            BY <2>0, <5>1, <5>4 DEF True, Way
      <4>2. CASE EventApplied
        <5>1. /\ nodes'[u] = poll.got /\ poll.pc = "applying" /\ UNCHANGED cursor
              /\ poll'.pc = "storing" /\ poll'.batch = poll.batch
            BY <3>2, <4>0, <4>2 DEF EventApplied, WithNode, PollType
        <5>2. poll.seen \in 1 .. Now /\ poll.got = past[poll.seen][u] /\ Event.id < poll.seen
            BY <3>2, <5>1 DEF Inv, ReadingTrue, Order, ReadLater
        <5>3. CASE poll.got = drive[u]
            BY <2>0, <5>1, <5>3 DEF True, Way
        <5>4. CASE poll.got # drive[u]
          <6>1. PICK j \in poll.seen .. Len(events) : events[j].uid = u
              BY <5>2, <5>4 DEF Order, ChangesTold
          <6>2. j \in 1 .. Len(events) /\ j > Event.id /\ Event.id \in Nat
            <7>1. Event \in BatchEntry /\ Len(events) \in Nat
                BY <1>0, <4>0, EventFacts DEF DriveOK
            <7> QED
                BY <5>2, <6>1, <7>1, <1>0, DriveFacts DEF BatchEntry
          <6>3. Handled' = Event.id
              BY <5>1 DEF Handled, Event
          <6> QED
              BY <2>0, <6>1, <6>2, <6>3, FeedAssumption DEF Due
        <5> QED
            BY <5>3, <5>4
      <4> QED
          BY <3>2, <4>1, <4>2
    <3>3. CASE Due(u) /\ ~((EventApplied \/ EventDeletes) /\ u = Event.uid)
        BY <1>0, <1>4, <2>2, <3>3, DueKept DEF Order
    <3>4. CASE True(u) /\ ~((EventApplied \/ EventDeletes) /\ u = Event.uid)
      <4>1. CASE UNCHANGED nodes
          BY <2>0, <3>4, <4>1 DEF True
      <4>2. CASE EventApplied \/ EventDeletes
        <5>1. nodes'[u] = nodes[u]
            BY <3>4, <4>2 DEF EventApplied, EventDeletes, WithNode, Inv, CallsOK, Trees
        <5> QED
            BY <2>0, <3>4, <5>1 DEF True
      <4>3. UNCHANGED nodes \/ EventApplied \/ EventDeletes
          BY <1>4, <2>2, ProgramOrOthers DEF vars, mirror, StartLists, EngineLists, ListFolder,
             PollBegins, PollAnswered, EventReads, EventRefreshes, CursorStored, PollFails
      <4> QED
          BY <4>1, <4>2, <4>3
    <3> QED
        BY <3>1, <3>2, <3>3, <3>4
  <2> QED
      BY <2>1, <2>2
<1> QED
    BY <1>1, <1>2, <1>3, <1>4

-----------------------------------------------------------------------------
(* What the listings know.                                                 *)

LEMMA StartedKnows ==
    ASSUME Types, NEW u \in Uids
    PROVE  Knows(Started, u)
<1>1. Started.found[u] = None /\ Started.queue = {Root}
    BY DEF Started, NoNodes
<1>2. ASSUME Way(drive, u) # None
      PROVE  \E k \in DOMAIN Way(drive, u) : Way(drive, u)[k] = Root
  <2>1. drive \in Trees
      BY DriveFacts DEF Types
  <2>2. 1 \in DOMAIN Way(drive, u) /\ Way(drive, u)[1] = Root
      BY <1>2, <2>1, WayFacts
  <2> QED
      BY <2>2
<1> QED
    BY <1>1, <1>2 DEF Knows

LEMMA FolderKnows ==
    ASSUME Types, ListingsKnow, NEW c \in Callers, ListFolder(c)
    PROVE  ListingsKnow'
<1> PICK l : l = listings[c]
    OBVIOUS
<1>2. /\ UNCHANGED <<remote, cursor, mirror, phase, poll, degraded, faults, excused>>
      /\ l # None
      /\ \E d \in l.queue, Q \in SUBSET (Dirs \union {Root}), F \in Trees, new \in Listings :
           /\ Q = (l.queue \ {d}) \union
                     {u \in Children(drive, d) \intersect Dirs : ~drive[u].trashed}
           /\ F = [u \in Uids |-> IF u \in Children(drive, d) THEN drive[u] ELSE l.found[u]]
           /\ new = [since |-> l.since, queue |-> Q, found |-> F]
           /\ listings' = [listings EXCEPT ![c] = new]
    BY FolderFacts DEF Types
<1> PICK d \in l.queue, Q \in SUBSET (Dirs \union {Root}), F \in Trees, new \in Listings :
      /\ Q = (l.queue \ {d}) \union
                {u \in Children(drive, d) \intersect Dirs : ~drive[u].trashed}
      /\ F = [u \in Uids |-> IF u \in Children(drive, d) THEN drive[u] ELSE l.found[u]]
      /\ new = [since |-> l.since, queue |-> Q, found |-> F]
      /\ listings' = [listings EXCEPT ![c] = new]
    BY <1>2
<1>3. drive' = drive /\ drive \in Trees /\ UNCHANGED <<events, cursor, poll, phase, excused>>
    BY <1>2, DriveFacts DEF remote, Now, drive, Types
<1>4. listings'[c] = new /\ \A o \in Callers \ {c} : listings'[o] = listings[o]
    BY DEF Types, CallsOK
<1>5. Handled' = Handled
    BY <1>3 DEF Handled, Event
<1>6. \A u \in Uids : Due(u)' = Due(u)
    BY <1>3, <1>5 DEF Due
<1>7. ASSUME NEW u \in Uids, Knows(l, u)
      PROVE  IF F[u] # None THEN F[u] = drive[u]
             ELSE Way(drive, u) = None \/ \E k \in DOMAIN Way(drive, u) : Way(drive, u)[k] \in Q
  <2>1. CASE u \in Children(drive, d)
    <3>1. F[u] = drive[u] /\ drive[u] # None
        BY <2>1 DEF Children
    <3> QED
        BY <3>1
  <2>2. CASE u \notin Children(drive, d)
    <3>1. F[u] = l.found[u]
        BY <2>2
    <3>2. CASE l.found[u] # None
        BY <1>7, <3>1, <3>2 DEF Knows
    <3>3. CASE Way(drive, u) = None /\ l.found[u] = None
        BY <3>1, <3>3
    <3>4. CASE Way(drive, u) # None /\ l.found[u] = None
      <4>1. drive[u] # None /\ drive[u].parent # d
            /\ \/ drive[u].parent = Root /\ Way(drive, u) = <<Root>>
               \/ /\ Way(drive, u) = <<Root, drive[u].parent>>
                  /\ drive[u].parent \in Dirs /\ drive[drive[u].parent] # None
                  /\ drive[drive[u].parent].parent = Root /\ ~drive[drive[u].parent].trashed
          BY <1>3, <2>2, <3>4, WayFacts DEF Children
      <4>2. PICK k \in DOMAIN Way(drive, u) : Way(drive, u)[k] \in l.queue
          BY <1>7, <3>4 DEF Knows
      <4>3. CASE drive[u].parent = Root /\ Way(drive, u) = <<Root>>
        <5>1. Way(drive, u)[k] = Root
            BY <4>2, <4>3
        <5> QED
            BY <3>1, <3>4, <4>1, <4>2, <4>3, <5>1
      <4>4. CASE /\ Way(drive, u) = <<Root, drive[u].parent>>
                 /\ drive[u].parent \in Dirs /\ drive[drive[u].parent] # None
                 /\ drive[drive[u].parent].parent = Root /\ ~drive[drive[u].parent].trashed
        <5>1. \/ k = 1 /\ Way(drive, u)[k] = Root
              \/ k = 2 /\ Way(drive, u)[k] = drive[u].parent
            BY <4>2, <4>4
        <5>2. CASE Way(drive, u)[k] # d
            BY <3>1, <3>4, <4>2, <5>2
        <5>3. CASE Way(drive, u)[k] = d
          <6>1. d = Root
              BY <4>1, <5>1, <5>3
          <6>2. drive[u].parent \in Q
              BY <4>4, <6>1 DEF Children, Uids
          <6>3. 2 \in DOMAIN Way(drive, u) /\ Way(drive, u)[2] = drive[u].parent
              BY <4>4
          <6> QED
              BY <3>1, <3>4, <6>2, <6>3
        <5> QED
            BY <5>2, <5>3
      <4> QED
          BY <4>1, <4>3, <4>4
    <3> QED
        BY <3>2, <3>3, <3>4
  <2> QED
      BY <2>1, <2>2
<1>8. ASSUME NEW u \in Uids, Knows(l, u)
      PROVE  Knows(listings[c], u)'
  <2>1. new.found = F /\ new.queue = Q
      OBVIOUS
  <2> QED
      BY <1>3, <1>4, <1>7, <1>8, <2>1 DEF Knows
<1>9. ASSUME NEW o \in Callers \ {c}, NEW u \in Uids, Knows(listings[o], u)
      PROVE  Knows(listings[o], u)'
    BY <1>3, <1>4, <1>9 DEF Knows
<1> SUFFICES ASSUME NEW o \in Callers, listings'[o] # None, NEW u \in Uids \ excused
             PROVE  Knows(listings[o], u)' \/ (phase = "starting" /\ Due(u)')
    BY <1>3 DEF ListingsKnow
<1>10. CASE o = c
    BY <1>2, <1>6, <1>8, <1>10 DEF ListingsKnow
<1>11. CASE o # c
    BY <1>4, <1>6, <1>9, <1>11 DEF ListingsKnow
<1> QED
    BY <1>10, <1>11

(* A step of a program that is up keeps the listings, ends some or starts  *)
(* some.                                                                   *)
LEMMA ListingsKnowKept ==
    ASSUME Types, ListingsKnow, drive' = drive, Now' = Now,
           \A c \in Callers : \/ listings'[c] = None \/ listings'[c] = Started
                              \/ listings'[c] = listings[c] /\ phase = "up" /\ excused' = excused
    PROVE  ListingsKnow'
<1> SUFFICES ASSUME NEW c \in Callers, listings'[c] # None, NEW u \in Uids \ excused'
             PROVE  Knows(listings[c], u)'
    BY DEF ListingsKnow
<1>1. CASE listings'[c] = Started
  <2>1. Knows(Started, u)
      BY StartedKnows
  <2> QED
      BY <1>1, <2>1 DEF Knows
<1>2. CASE listings'[c] = listings[c] /\ phase = "up" /\ excused' = excused
  <2>1. Knows(listings[c], u)
      BY <1>2 DEF ListingsKnow
  <2> QED
      BY <1>2, <2>1 DEF Knows
<1> QED
    BY <1>1, <1>2

LEMMA ListingsKnowStep ==
    ASSUME Types, Order, ListingsKnow, [Next]_vars
    PROVE  ListingsKnow'
<1>1. CASE Others
    BY <1>1, KnowledgeChange DEF Order
<1>2. CASE \E c \in Callers : ListFolder(c)
    BY <1>2, FolderKnows
<1>3. CASE ~Others /\ ~ \E c \in Callers : ListFolder(c)
  <2>0. UNCHANGED <<past, events>> /\ Now' = Now /\ drive' = drive
        /\ listings \in [Callers -> Listings \union {None}]
      BY <1>3, Undriven DEF Types, CallsOK
  <2> USE <2>0
  <2>kept. ASSUME phase = "up", UNCHANGED excused,
                  UNCHANGED listings \/ \E c \in Callers : Lists(c)
           PROVE  ListingsKnow'
    <3>1. \A c \in Callers : listings'[c] = Started \/ listings'[c] = listings[c]
        BY <2>kept DEF Lists
    <3> QED
        BY <2>kept, <3>1, ListingsKnowKept
  <2>1. CASE UNCHANGED vars
    <3>1. UNCHANGED <<phase, listings, poll, cursor, excused>>
        BY <2>1 DEF vars, calls
    <3>2. Handled' = Handled
        BY <3>1 DEF Handled, Event
    <3> QED
        BY <3>1, <3>2 DEF ListingsKnow, Knows, Due
  <2>2. CASE StartLists
    <3>1. phase = "down" /\ listings["engine"] = None /\ listings["feed"] = None
          /\ listings' = [listings EXCEPT !["engine"] = Started]
        BY <2>2 DEF StartLists, Lists, Types, CallsOK, Order, StartsLater
    <3>2. \A c \in Callers : listings'[c] \in {None, Started}
        BY <3>1 DEF Callers
    <3> QED
        BY <3>2, ListingsKnowKept
  <2>3. CASE \E c \in Callers : ListingEnds(c) \/ ListingFails(c)
    <3> PICK c \in Callers : ListingEnds(c) \/ ListingFails(c)
        BY <2>3
    <3>1. listings[c] # None /\ listings' = [listings EXCEPT ![c] = None]
          /\ \/ UNCHANGED excused \/ \A o \in Callers \ {c} : listings[o] = None
        BY DEF ListingEnds, ListingFails, ListingReturns
    <3>2. \A o \in Callers \ {c} : listings[o] # None => phase = "up"
        BY <3>1 DEF Order, StartsLater, Callers
    <3>3. \A o \in Callers : \/ listings'[o] = None
                             \/ listings'[o] = listings[o] /\ phase = "up" /\ excused' = excused
        BY <3>1, <3>2
    <3> QED
        BY <3>3, ListingsKnowKept
  <2>4. CASE EngineLists \/ PollBegins
      BY <2>kept, <2>4 DEF EngineLists, PollBegins, Callers
  <2>5. CASE PollAnswered \/ EventReads \/ EventApplied \/ EventDeletes \/ EventRefreshes
             \/ CursorStored \/ PollFails
    <3>1. poll.pc # "idle" /\ UNCHANGED excused
          /\ (UNCHANGED listings \/ Lists("feed"))
        BY <2>5 DEF PollAnswered, EventReads, EventApplied, EventDeletes, EventRefreshes,
           CursorStored, PollFails
    <3>2. phase = "up"
        BY <3>1 DEF Order, StartsLater
    <3> QED
        BY <2>kept, <3>1, <3>2 DEF Callers
  <2>6. CASE Crash
    <3>1. \A c \in Callers : listings'[c] = None
        BY <2>6 DEF Crash
    <3> QED
        BY <3>1, ListingsKnowKept
  <2> QED
      BY <1>3, ProgramOrOthers, <2>1, <2>2, <2>3, <2>4, <2>5, <2>6
<1> QED
    BY <1>1, <1>2, <1>3

(* A feed that has handled every event leaves a complete mirror right      *)
(* about every node but the excused ones: whatever a complete mirror is    *)
(* wrong about, an event behind the cursor is still to come (events.ts:96),*)
(* and a listing that overlaps with the feed does not undo what the feed   *)
(* did, since it reads later or is excused.                                *)
THEOREM FeedCatchesUp == Spec => []CaughtUpIsTrue
<1> DEFINE Caught == Inv /\ Order /\ MirrorTrue /\ ListingsKnow
<1>1. Init => Caught
  <2> SUFFICES ASSUME Init PROVE Caught
      OBVIOUS
  <2>1. PICK tree \in StartTrees : past = <<tree>>
      BY DEF Init
  <2>2. Now = 1 /\ drive = tree /\ past[1] = tree
      BY <2>1 DEF Now, drive
  <2>3. events = <<>> /\ Len(events) = 0 /\ poll = Idle /\ complete = FALSE
        /\ \A c \in Callers : listings[c] = None
      BY DEF Init
  <2>4. Flat
      BY <2>2, FeedAssumption DEF Flat
  <2>5. ChangesTold
      BY <2>2 DEF ChangesTold
  <2>6. InOrder /\ ReadLater /\ StartsLater
      BY <2>3 DEF InOrder, ReadLater, StartsLater, Idle, Callers
  <2>7. MirrorTrue /\ ListingsKnow
      BY <2>3 DEF MirrorTrue, ListingsKnow
  <2> QED
      BY <2>4, <2>5, <2>6, <2>7, InitInv DEF Order
<1>2. Caught /\ [Next]_vars => Caught'
    BY InvStep, OrderStep, MirrorStep, ListingsKnowStep DEF Inv, Types
<1>3. Caught => CaughtUpIsTrue
  <2> SUFFICES ASSUME Caught, complete, cursor = Len(events), NEW u \in Uids \ excused
               PROVE  True(u)
      BY DEF CaughtUpIsTrue
  <2>1. Handled >= Len(events) /\ Handled \in Nat
    <3>1. Len(events) \in Nat /\ cursor # None
        BY FeedAssumption DEF Inv, DriveOK
    <3>2. CASE poll.pc = "storing"
      <4>1. poll.batch # <<>>
          BY <3>2 DEF Inv, PollOK
      <4>2. Event = poll.batch[1] /\ 1 \in 1 .. Len(poll.batch) /\ Event.id \in Nat
          BY <4>1, EventFacts DEF Inv, Types, BatchEntry
      <4>3. Event.id >= cursor
          BY <3>1, <4>2 DEF Order, InOrder
      <4> QED
          BY <3>2, <4>2, <4>3 DEF Handled
    <3>3. CASE poll.pc # "storing"
        BY <3>1, <3>3 DEF Handled
    <3> QED
        BY <3>2, <3>3
  <2>2. ~Due(u)
      BY <2>1 DEF Due, Inv, DriveOK
  <2> QED
      BY <2>2 DEF MirrorTrue
<1> QED
    BY <1>1, <1>2, <1>3, PTL DEF Spec

=============================================================================
