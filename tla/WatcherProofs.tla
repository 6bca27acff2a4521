---------------------------- MODULE WatcherProofs ----------------------------
(***************************************************************************)
(* Proofs about LocalWatcher: the types, the refinement of LaggingView,    *)
(* and what a watcher that caught up and a caller of refreshNow() may rely *)
(* on.                                                                     *)
(***************************************************************************)
EXTENDS LocalWatcher, SequenceTheorems, TLAPS

Busy == job # None
Behind == IF Busy THEN 1 ELSE 0

(* Until the subscription nothing is reported or asked for; batches run    *)
(* after it, one at a time, on a snapshot that stays as it was.            *)
Ordered ==
    /\ phase # "up" => /\ notices = {} /\ dirty = {} /\ ~debounce /\ ~requested
                       /\ refresh.pc = "none" /\ tasks \in {<<>>, <<"scan">>}
    /\ phase = "down" => tasks = <<>>
    /\ jobs["starter"] # None => phase = "scanning" /\ jobs["starter"].kind = "scan"
    /\ Busy => phase # "down"
    /\ Busy /\ job.kind # "scan" =>
          /\ phase = "up" /\ snapshot # None /\ Head(tasks) = job.kind
          /\ job.root = snapshot.root /\ job.root = past[job.since].root

(* A scan lists the root first; a folder that is to be scanned has an      *)
(* entry, and nothing below it has.                                        *)
ScanShape(j) ==
    /\ j.todo \subseteq Dirs \union {Top}
    /\ Top \in j.todo => j.todo = {Top} /\ j.entries = NoEntries /\ j.unsyncable = {}
    /\ j.root \in {None} \union (Roots \ {"gone"})
    /\ j.root = None => Top \in j.todo
    /\ j.unsettled = {} /\ j.took = {} /\ j.todo \intersect j.unsyncable = {}
    /\ \A d \in j.todo \ {Top} : d \in DOMAIN j.entries /\ Below(d) \intersect DOMAIN j.entries = {}

(* A batch waits at a path it took; its own claims about what it will look *)
(* at again are gone.                                                      *)
BatchShape(j) ==
    /\ j.todo \subseteq j.took /\ j.unsettled \subseteq j.took
    /\ j.todo \intersect j.unsyncable = {}
    /\ j.at # None => j.at \in j.todo /\ (Upto(j.at) \ {j.at}) \intersect j.todo = {}
    /\ j.kind = "refresh" => j.unsettled = {} /\ j.at \notin Files

Shapes == \A s \in Slots : jobs[s] # None =>
    /\ jobs[s].since \in 1 .. Now
    /\ IF jobs[s].kind = "scan" THEN ScanShape(jobs[s]) ELSE BatchShape(jobs[s])

(* What a path was since moment r.                                         *)
Reads(p, r) == {Own(past[i], p) : i \in r .. Now}

(* A scan has not looked at p, a batch is to replace what it has on p.     *)
Unread(j, p) ==
    IF j.kind = "scan" THEN {Top, Up(p)} \intersect j.todo # {}
    ELSE (IF p \in Dirs THEN p ELSE Up(p)) \in j.todo

(* What a job has is what the snapshot shows already, or was so since it   *)
(* began.                                                                  *)
JobTrue(j) == \A p \in Paths :
    \/ Unread(j, p)
    \/ Sight(j, p) \in {Unknown} \union Reads(p, j.since)
    \/ j.kind # "scan" /\ Sight(j, p) = Shown(p)
JobsTrue == \A s \in Slots : jobs[s] # None => JobTrue(jobs[s])

(* What is requested, or dirty, has a task that did not begin yet.         *)
RefreshQueued ==
    /\ refresh.pc = "waiting" => refresh.path \in Files /\ refresh.since \in 1 .. Now
    /\ refresh.pc = "done" => refresh.path \in Files /\ refresh.since \in 1 .. Now
    /\ refresh.pc # "waiting" => \A i \in 1 .. Len(tasks) : tasks[i] # "refresh"
    /\ \A i, k \in 1 .. Len(tasks) : tasks[i] = "refresh" /\ tasks[k] = "refresh" => i = k

Fresh == Shown(refresh.path) \in {Unknown} \union Reads(refresh.path, refresh.since)
Later == Busy => job.since >= refresh.since
Covers ==
    \/ job.kind = "scan"
    \/ refresh.path \in job.todo \union job.unsettled
    \/ Sight(job, refresh.path) \in {Unknown} \union Reads(refresh.path, refresh.since)

RefreshTrue ==
    /\ refresh.pc = "waiting" /\ ~refresh.skipped =>
          \/ refresh.path \in dirty /\ (Busy => Head(tasks) # "refresh")
          \/ Later /\ (Fresh \/ (Busy /\ Covers))
    /\ refresh.pc = "done" /\ ~refresh.skipped => Later /\ Fresh

Inv2 == RefreshQueued /\ RefreshTrue

ScanDue == requested => \E i \in (1 + Behind) .. Len(tasks) : tasks[i] = "scan"
BatchDue == dirty # {} => debounce \/ Len(tasks) > Behind

(* What is excused is so with what is below it, and a root that was ever   *)
(* away excuses everything.                                                *)
Excuses ==
    /\ \A p \in Paths : Up(p) \in excused => p \in excused
    /\ excused = Paths \/ /\ tree.root = "here"
                          /\ snapshot # None => snapshot.root = "here"
                          /\ \A s \in Slots : jobs[s] # None =>
                                jobs[s].root \in {None, "here"}

(* p will be looked at by a batch or a scan that did not begin.            *)
Due(p) == requested \/ Upto(p) \intersect (notices \union dirty) # {}

(* What a job has to say of p it will look at, or is what is there now;    *)
(* what a scan noted of a folder it will list is so still; what a batch    *)
(* did not take was right already.                                         *)
Right(j, p) ==
    \/ ({Top} \union Upto(p)) \intersect (j.todo \union j.unsettled) # {}
    \/ Sight(j, p) = Want(p)
Marked(j, p) == p \in j.todo => j.entries[p] = Own(tree, p)

JobKnows(j, p) ==
    /\ Right(j, p)
    /\ j.kind = "scan" => Marked(j, p)
    /\ j.kind # "scan" /\ Upto(p) \intersect j.took = {} => True(p)

Known(p) ==
    \/ Due(p)
    \/ /\ AtRest /\ snapshot # None => True(p)
       /\ \A s \in Slots : jobs[s] # None => JobKnows(jobs[s], p)

AllKnown == \A p \in Paths \ excused : Known(p)

(* A scan that saw no change is right about all it read.                   *)
Exact(j) ==
    /\ j.root \in {None, tree.root}
    /\ \A p \in Paths : Right(j, p) /\ Marked(j, p)
AllExact == \A s \in Slots :
    jobs[s] # None /\ jobs[s].kind = "scan" /\ jobs[s].since = Now => Exact(jobs[s])

-----------------------------------------------------------------------------
(* Paths, trees and entries.                                               *)

(* The folder that hides p when it cannot be read, if p can be hidden.     *)
Home(p) == IF p \in Dirs THEN p ELSE Up(p)

(* What the entries e of a snapshot say of p.                              *)
Shows(e, p) == IF p \in DOMAIN e THEN e[p] ELSE None

LEMMA PathFacts ==
    ASSUME NEW p \in Paths
    PROVE  /\ Up(p) \in Dirs \union {Top} /\ Top \notin Paths
           /\ p \in Dirs => Up(p) = Top /\ Home(p) = p /\ Upto(p) = {p}
           /\ p \in Files => p \notin Dirs /\ Home(p) = Up(p) /\ Below(p) = {}
           /\ p \in Files /\ Up(p) # Top => Upto(p) = {p, Up(p)} /\ Home(p) \in Dirs
           /\ p \in Files /\ Up(p) = Top => Upto(p) = {p}
           /\ Below(p) \subseteq Files
           /\ Home(p) # Top => Home(p) \in Dirs /\ Up(Home(p)) = Top
           /\ Home(p) # p => p \in Below(Home(p))
BY WatcherAssumption DEF Paths, Up, Upto, Home, Below

(* Nothing but folders hides a path.                                       *)
LEMMA SightFacts ==
    ASSUME NEW x, x.unsyncable \subseteq Dirs, NEW p \in Paths
    PROVE  Sight(x, p) = IF Home(p) \in x.unsyncable THEN Unknown ELSE Shows(x.entries, p)
BY PathFacts, WatcherAssumption DEF Sight, Shows, Paths

LEMMA AtFacts ==
    ASSUME NEW t \in Tree, NEW p \in Paths
    PROVE  /\ At(t, p) = None \/ At(t, p) \in Node
           /\ p \in Files /\ At(t, p) # None => At(t, p).kind = "file" /\ At(t, p).open
           /\ p \in Dirs /\ At(t, p) # None => At(t, p).kind # "file"
           /\ Up(p) = Top /\ t.root = "here" => At(t, p) = t.items[p]
           /\ Up(p) # Top /\ At(t, Up(p)) # None /\ At(t, Up(p)).kind = "dir" /\ At(t, Up(p)).open
                 => At(t, p) = t.items[p]
           /\ Up(p) # Top /\ ~Listable(t, Up(p)) => At(t, p) = None
           /\ t.root # "here" => At(t, p) = None
<1>1. /\ t.items[p] = None \/ t.items[p] \in Node
      /\ Fits(p, t.items[p])
      /\ Up(p) # Top => Up(p) \in Paths /\ Up(Up(p)) = Top
      /\ Up(p) # Top => Fits(Up(p), t.items[Up(p)])
    BY PathFacts DEF Tree, Items, Paths, Home
<1>2. /\ p \in Files => p \notin Dirs
      /\ Up(p) # Top => Up(p) \in Dirs
    BY PathFacts
<1> QED
    BY <1>1, <1>2, WatcherAssumption DEF At, Stands, Listable, Fits, Node, Paths

LEMMA OwnFacts ==
    ASSUME NEW t \in Tree, NEW p \in Paths
    PROVE  /\ Own(t, p) \in Fingerprint \union {None}
           /\ Own(t, p) # None <=> At(t, p) # None /\ At(t, p).kind # "link"
           /\ Own(t, p) # None => Own(t, p) = Entry(At(t, p))
           /\ p \in Files => (Own(t, p) # None <=> At(t, p) # None)
<1>1. /\ At(t, p) = None \/ At(t, p) \in Node
      /\ p \in Files /\ At(t, p) # None => At(t, p).kind = "file"
    BY AtFacts
<1>2. At(t, p) # None /\ At(t, p).kind # "link" => Entry(At(t, p)) \in Fingerprint
    BY <1>1 DEF Entry, Fingerprint, Node
<1> QED
    BY <1>1, <1>2, WatcherAssumption DEF Own

(* A path is hidden by the folder it is in, or is, only.                   *)
LEMMA HiddenFacts ==
    ASSUME NEW t \in Tree, NEW p \in Paths
    PROVE  Hidden(t, p) <=> /\ Home(p) # Top /\ At(t, Home(p)) # None
                            /\ At(t, Home(p)).kind = "link" \/ ~At(t, Home(p)).open
<1>1. CASE p \in Dirs
    BY <1>1, PathFacts DEF Hidden
<1>2. CASE p \in Files
  <2>1. At(t, p) # None => At(t, p).kind # "link" /\ At(t, p).open
      BY <1>2, AtFacts
  <2> QED
      BY <1>2, <2>1, PathFacts DEF Hidden
<1> QED
    BY <1>1, <1>2 DEF Paths

LEMMA EntriesAre ==
    ASSUME NEW e
    PROVE  e \in Entries <=> /\ DOMAIN e \subseteq Paths
                             /\ e = [q \in DOMAIN e |-> e[q]]
                             /\ \A q \in DOMAIN e : e[q] \in Fingerprint
<1>1. ASSUME e \in Entries
      PROVE  /\ DOMAIN e \subseteq Paths
             /\ e = [q \in DOMAIN e |-> e[q]]
             /\ \A q \in DOMAIN e : e[q] \in Fingerprint
  <2> PICK D \in SUBSET Paths : e \in [D -> Fingerprint]
      BY <1>1 DEF Entries
  <2> QED
      OBVIOUS
<1>2. ASSUME /\ DOMAIN e \subseteq Paths
             /\ e = [q \in DOMAIN e |-> e[q]]
             /\ \A q \in DOMAIN e : e[q] \in Fingerprint
      PROVE  e \in Entries
  <2>1. e \in [DOMAIN e -> Fingerprint]
      BY <1>2
  <2> QED
      BY <1>2, <2>1 DEF Entries
<1> QED
    BY <1>1, <1>2

LEMMA ShowsFacts ==
    ASSUME NEW e \in Entries, NEW q \in Paths
    PROVE  /\ Shows(e, q) \in Fingerprint \union {None}
           /\ Shows(e, q) # None <=> q \in DOMAIN e
BY EntriesAre, WatcherAssumption DEF Shows

(* Entries that are put on others, and entries that are left.              *)
LEMMA PutOn ==
    ASSUME NEW f \in Entries, NEW g \in Entries
    PROVE  /\ Over(f, g) \in Entries
           /\ DOMAIN Over(f, g) = DOMAIN f \union DOMAIN g
           /\ \A q \in Paths :
                Shows(Over(f, g), q) = IF q \in DOMAIN f THEN f[q] ELSE Shows(g, q)
<1> DEFINE h == Over(f, g)
<1>1. /\ h = [q \in DOMAIN f \union DOMAIN g |-> IF q \in DOMAIN f THEN f[q] ELSE g[q]]
      /\ DOMAIN h = DOMAIN f \union DOMAIN g
    BY DEF Over
<1>2. /\ DOMAIN f \subseteq Paths /\ \A q \in DOMAIN f : f[q] \in Fingerprint
      /\ DOMAIN g \subseteq Paths /\ \A q \in DOMAIN g : g[q] \in Fingerprint
    BY EntriesAre
<1>3. \A q \in DOMAIN h : h[q] = IF q \in DOMAIN f THEN f[q] ELSE g[q]
    BY <1>1
<1>4. DOMAIN h \subseteq Paths /\ \A q \in DOMAIN h : h[q] \in Fingerprint
    BY <1>1, <1>2, <1>3
<1>5. h = [q \in DOMAIN h |-> h[q]]
    BY <1>1
<1>6. h \in Entries
    BY <1>4, <1>5, EntriesAre
<1>7. \A q \in Paths : Shows(h, q) = IF q \in DOMAIN f THEN f[q] ELSE Shows(g, q)
    BY <1>1, <1>3 DEF Shows
<1> QED
    BY <1>1, <1>6, <1>7

LEMMA LeftOf ==
    ASSUME NEW e \in Entries, NEW D
    PROVE  /\ Restrict(e, DOMAIN e \ D) \in Entries
           /\ DOMAIN Restrict(e, DOMAIN e \ D) = DOMAIN e \ D
           /\ \A q \in Paths :
                Shows(Restrict(e, DOMAIN e \ D), q) = IF q \in D THEN None ELSE Shows(e, q)
<1> DEFINE h == Restrict(e, DOMAIN e \ D)
<1>1. /\ h = [q \in DOMAIN e \ D |-> e[q]] /\ DOMAIN h = DOMAIN e \ D
      /\ \A q \in DOMAIN h : h[q] = e[q]
    BY DEF Restrict
<1>2. DOMAIN e \subseteq Paths /\ \A q \in DOMAIN e : e[q] \in Fingerprint
    BY EntriesAre
<1>3. h = [q \in DOMAIN h |-> h[q]]
    BY <1>1
<1>4. h \in Entries
    BY <1>1, <1>2, <1>3, EntriesAre
<1> QED
    BY <1>1, <1>4 DEF Shows

LEMMA Single ==
    ASSUME NEW t \in Tree, NEW p \in Paths, Own(t, p) # None
    PROVE  /\ Only(p, At(t, p)) \in Entries
           /\ DOMAIN Only(p, At(t, p)) = {p} /\ Only(p, At(t, p))[p] = Own(t, p)
<1> DEFINE h == Only(p, At(t, p))
<1>1. h = [q \in {p} |-> Own(t, p)] /\ DOMAIN h = {p} /\ \A q \in DOMAIN h : h[q] = Own(t, p)
    BY OwnFacts DEF Only
<1>2. h = [q \in DOMAIN h |-> h[q]]
    BY <1>1
<1>3. Own(t, p) \in Fingerprint
    BY OwnFacts
<1> QED
    BY <1>1, <1>2, <1>3, EntriesAre

(* The entries of what was found in a set of paths.                        *)
LEMMA FoundEntries ==
    ASSUME NEW t \in Tree, NEW F \in SUBSET Paths,
           \A q \in F : At(t, q) # None /\ At(t, q).kind # "link"
    PROVE  /\ [q \in F |-> Entry(At(t, q))] \in Entries
           /\ DOMAIN [q \in F |-> Entry(At(t, q))] = F
           /\ \A q \in F : [r \in F |-> Entry(At(t, r))][q] = Own(t, q)
<1> DEFINE h == [q \in F |-> Entry(At(t, q))]
<1>1. DOMAIN h = F /\ \A q \in F : h[q] = Entry(At(t, q))
    OBVIOUS
<1>2. \A q \in F : h[q] = Own(t, q) /\ h[q] \in Fingerprint
    BY <1>1, OwnFacts
<1>3. h = [q \in DOMAIN h |-> h[q]]
    OBVIOUS
<1>4. h \in Entries
    BY <1>1, <1>2, <1>3, EntriesAre
<1> QED
    BY <1>1, <1>2, <1>4

-----------------------------------------------------------------------------
(* What the steps of a job do to it.                                       *)

(* j2 knows of the paths in C what they are now, and that the folders in U *)
(* cannot be read; of the rest it knows what j knows.                      *)
Looked(j, j2, C, U) ==
    /\ j2 \in Job
    /\ j2.kind = j.kind /\ j2.since = j.since /\ j2.took = j.took
    /\ j2.unsyncable = j.unsyncable \union U
    /\ \A q \in Paths :
          Shows(j2.entries, q) = IF q \in C THEN Own(tree, q) ELSE Shows(j.entries, q)

ListsTop(j, j2) ==
    /\ j.root # None /\ Top \in j.todo /\ tree.root # "gone" /\ j2.root = j.root
    /\ j2.todo = {d \in Dirs : Own(tree, d) # None}
    /\ j2.unsettled = j.unsettled
    /\ Looked(j, j2, {q \in Paths : Up(q) = Top \/ At(tree, Up(q)) = None},
                     {d \in Dirs : At(tree, d) # None /\ At(tree, d).kind = "link"})

ListsFolder(j, j2, d) ==
    /\ d \in j.todo \ {Top} /\ Listable(tree, d)
    /\ j2.todo = j.todo \ {d} /\ j2.unsettled = j.unsettled /\ j2.root = j.root
    /\ Looked(j, j2, Below(d), {})

ShutFolder(j, j2, d) ==
    /\ d \in j.todo \ {Top} /\ ~Listable(tree, d)
    /\ j2.todo = j.todo \ {d} /\ j2.unsettled = j.unsettled /\ j2.root = j.root
    /\ Looked(j, j2, {}, {d})

LooksAtRoot(j, j2) ==
    /\ j.root = None /\ tree.root # "gone" /\ j2.root = tree.root
    /\ j2.todo = j.todo /\ j2.unsettled = j.unsettled
    /\ Looked(j, j2, {}, {})

(* A step of a scan.                                                       *)
ScanReads(s) == ScanRoot(s) \/ ScanFolder(s)
ScanLooks(j, j2) ==
    \/ LooksAtRoot(j, j2)
    \/ ListsTop(j, j2)
    \/ \E d \in Dirs : ListsFolder(j, j2, d) \/ ShutFolder(j, j2, d)

LEMMA NowFacts ==
    ASSUME TypeOK
    PROVE  /\ Now \in Nat /\ Now >= 1 /\ past[Now] \in Tree /\ tree \in Tree
           /\ \A i \in 1 .. Now : past[i] \in Tree
BY DEF TypeOK, Now, tree

LEMMA TopListed ==
    ASSUME TypeOK, NEW j \in Job, ScanShape(j), j.root # None, Top \in j.todo,
           Listable(tree, Top), NEW j2, j2 = Listed(j, Top)
    PROVE  ListsTop(j, j2)
<1> DEFINE F == {q \in Children(tree, Top) : At(tree, q).kind # "link"}
           f == [q \in F |-> Entry(At(tree, q))]
<1>0. tree \in Tree
    BY NowFacts
<1>1. /\ Children(tree, Top) = {q \in Paths : Up(q) = Top /\ At(tree, q) # None}
      /\ F = {q \in Paths : Up(q) = Top /\ Own(tree, q) # None}
  <2>1. \A q \in Paths : Own(tree, q) # None <=> At(tree, q) # None /\ At(tree, q).kind # "link"
      BY <1>0, OwnFacts
  <2> QED
      BY <2>1 DEF Children, Below
<1>2. f \in Entries /\ DOMAIN f = F /\ \A q \in F : f[q] = Own(tree, q)
  <2>1. F \in SUBSET Paths /\ \A q \in F : At(tree, q) # None /\ At(tree, q).kind # "link"
      BY <1>0, <1>1, OwnFacts
  <2> QED
      BY <1>0, <2>1, FoundEntries
<1>3. j.entries \in Entries /\ DOMAIN j.entries = {}
    BY DEF Job, ScanShape, NoEntries
<1>4. /\ Over(f, j.entries) \in Entries
      /\ \A q \in Paths : Shows(Over(f, j.entries), q) = IF q \in F THEN Own(tree, q) ELSE None
    BY <1>2, <1>3, PutOn DEF Shows
<1>5. F \intersect Dirs = {d \in Dirs : Own(tree, d) # None}
    BY <1>1, PathFacts DEF Paths
<1>6. Children(tree, Top) \ F = {d \in Dirs : At(tree, d) # None /\ At(tree, d).kind = "link"}
  <2>1. \A q \in Children(tree, Top) \ F :
           q \in Dirs /\ At(tree, q) # None /\ At(tree, q).kind = "link"
      BY <1>0, <1>1, OwnFacts DEF Paths
  <2>2. \A d \in Dirs :
           At(tree, d) # None /\ At(tree, d).kind = "link" => d \in Children(tree, Top) \ F
      BY <1>0, <1>1, OwnFacts, PathFacts DEF Paths
  <2> QED
      BY <2>1, <2>2
<1>7. tree.root # "gone" /\ tree.root \in Roots
    BY <1>0 DEF Listable, Tree
<1>8. /\ j2.root = j.root /\ j2.todo = (j.todo \ {Top}) \union (F \intersect Dirs)
      /\ j2.entries = Over(f, j.entries)
      /\ j2.unsyncable = j.unsyncable \union (Children(tree, Top) \ F)
      /\ j2.kind = j.kind /\ j2.since = j.since /\ j2.took = j.took /\ j2.unsettled = j.unsettled
      /\ j2 = [j EXCEPT !.todo = j2.todo, !.entries = j2.entries, !.unsyncable = j2.unsyncable]
    BY DEF Job, Listed
<1>9. j.todo = {Top} /\ j.unsyncable = {}
    BY DEF ScanShape
<1>10. j2 \in Job
    BY <1>4, <1>5, <1>6, <1>7, <1>8 DEF Job, Paths
<1>11. \A q \in Paths : Shows(j2.entries, q) =
          IF Up(q) = Top \/ At(tree, Up(q)) = None THEN Own(tree, q) ELSE Shows(j.entries, q)
  <2> TAKE q \in Paths
  <2>1. Shows(j.entries, q) = None
      BY <1>3 DEF Shows
  <2>2. Up(q) # Top /\ At(tree, Up(q)) = None => Own(tree, q) = None /\ q \notin F
      BY <1>0, <1>1, AtFacts, OwnFacts DEF Listable
  <2>3. Up(q) # Top => q \notin F
      BY <1>1
  <2> QED
      BY <1>1, <1>4, <1>8, <2>1, <2>2, <2>3
<1> QED
    BY <1>5, <1>6, <1>7, <1>8, <1>9, <1>10, <1>11 DEF ListsTop, Looked

LEMMA FolderListed ==
    ASSUME TypeOK, NEW j \in Job, NEW p \in Dirs, p \in j.todo, Listable(tree, p),
           ScanShape(j), NEW j2, j2 = Listed(j, p)
    PROVE  ListsFolder(j, j2, p)
<1> DEFINE F == {q \in Children(tree, p) : At(tree, q).kind # "link"}
           f == [q \in F |-> Entry(At(tree, q))]
<1>0. tree \in Tree /\ p \in Paths /\ p # Top
    BY NowFacts, PathFacts DEF Paths
<1>1. /\ Children(tree, p) = F /\ F = {q \in Below(p) : Own(tree, q) # None}
      /\ F \in SUBSET Paths /\ F \intersect Dirs = {} /\ Below(p) \subseteq Paths
  <2>1. /\ Children(tree, p) = {q \in Below(p) : At(tree, q) # None}
        /\ Below(p) \subseteq Files /\ Below(p) \subseteq Paths
      BY <1>0, PathFacts DEF Children, Below
  <2>2. \A q \in Below(p) : /\ q \notin Dirs
                            /\ Own(tree, q) # None <=> At(tree, q) # None
                            /\ At(tree, q) # None => At(tree, q).kind # "link"
      BY <1>0, <2>1, OwnFacts, AtFacts, PathFacts
  <2> QED
      BY <2>1, <2>2
<1>2. f \in Entries /\ DOMAIN f = F /\ \A q \in F : f[q] = Own(tree, q)
  <2>1. \A q \in F : At(tree, q) # None /\ At(tree, q).kind # "link"
      BY <1>0, <1>1, OwnFacts
  <2> QED
      BY <1>0, <1>1, <2>1, FoundEntries
<1>3. j.entries \in Entries /\ \A q \in Below(p) : Shows(j.entries, q) = None
    BY <1>0 DEF Job, ScanShape, Shows
<1>4. /\ Over(f, j.entries) \in Entries
      /\ \A q \in Paths : Shows(Over(f, j.entries), q) =
            IF q \in F THEN Own(tree, q) ELSE Shows(j.entries, q)
    BY <1>2, <1>3, PutOn, ZenonT(60)
<1>5. /\ j2.root = j.root /\ j2.todo = j.todo \ {p}
      /\ j2.entries = Over(f, j.entries) /\ j2.unsyncable = j.unsyncable
      /\ j2.kind = j.kind /\ j2.since = j.since /\ j2.took = j.took /\ j2.unsettled = j.unsettled
      /\ j2 = [j EXCEPT !.todo = j2.todo, !.entries = j2.entries, !.unsyncable = j2.unsyncable]
    BY <1>0, <1>1 DEF Job, Listed
<1>6. j2 \in Job
    BY <1>1, <1>4, <1>5 DEF Job
<1>7. \A q \in Paths : Shows(j2.entries, q) =
          IF q \in Below(p) THEN Own(tree, q) ELSE Shows(j.entries, q)
    BY <1>1, <1>3, <1>4, <1>5
<1> QED
    BY <1>0, <1>5, <1>6, <1>7 DEF ListsFolder, Looked

LEMMA FolderShut ==
    ASSUME TypeOK, NEW j \in Job, NEW p \in Dirs, p \in j.todo, ~Listable(tree, p), NEW j2,
           j2 = Shut(j, p)
    PROVE  ShutFolder(j, j2, p)
<1>1. p # Top
    BY PathFacts DEF Paths
<1> QED
    BY <1>1 DEF ShutFolder, Looked, Job, Shut

LEMMA ScanReadsFacts ==
    ASSUME TypeOK, Shapes, NEW s \in Slots, ScanReads(s)
    PROVE  /\ jobs[s] # None /\ jobs[s] \in Job /\ jobs[s].kind = "scan" /\ ScanShape(jobs[s])
           /\ UNCHANGED <<disk, watch, tasks, refresh, bounds, excused>>
           /\ \E j2 \in Job : jobs' = [jobs EXCEPT ![s] = j2] /\ ScanLooks(jobs[s], j2)
<1> DEFINE j == jobs[s]
<1>1. /\ jobs[s] # None /\ jobs[s] \in Job /\ jobs[s].kind = "scan" /\ ScanShape(jobs[s])
      /\ UNCHANGED <<disk, watch, tasks, refresh, bounds, excused>>
    BY DEF ScanReads, ScanRoot, ScanFolder, Scanning, TypeOK, Shapes
<1>2. CASE ScanRoot(s)
  <2> DEFINE j2 == [j EXCEPT !.root = tree.root]
  <2>1. j.root = None /\ tree.root \in Roots \ {"gone"} /\ jobs' = [jobs EXCEPT ![s] = j2]
      BY <1>2, NowFacts DEF ScanRoot, Listable, Tree
  <2>2. /\ j2 \in Job /\ j2.root = tree.root /\ j2.todo = j.todo /\ j2.unsettled = j.unsettled
        /\ Looked(j, j2, {}, {})
      BY <1>1, <2>1 DEF Job, Looked
  <2> QED
    <3> HIDE DEF j2
    <3> QED
        BY <1>1, <2>1, <2>2 DEF ScanLooks, LooksAtRoot
<1>3. CASE ScanFolder(s)
  <2> PICK p \in jobs[s].todo :
          /\ p = Top => Listable(tree, Top)
          /\ jobs' = [jobs EXCEPT ![s] = IF Listable(tree, p) THEN Listed(jobs[s], p)
                                        ELSE Shut(jobs[s], p)]
      BY <1>3 DEF ScanFolder
  <2>1. CASE p = Top
    <3>1. ListsTop(j, Listed(j, p))
        BY <1>1, <1>3, <2>1, TopListed DEF ScanFolder
    <3> QED
        BY <1>1, <2>1, <3>1 DEF ScanLooks, ListsTop, Looked
  <2>2. CASE p # Top
    <3>1. p \in Dirs
        BY <1>1, <2>2 DEF ScanShape
    <3>2. CASE Listable(tree, p)
      <4>1. ListsFolder(j, Listed(j, p), p)
          BY <1>1, <3>1, <3>2, FolderListed
      <4> QED
          BY <1>1, <3>1, <3>2, <4>1 DEF ScanLooks, ListsFolder, Looked
    <3>3. CASE ~Listable(tree, p)
      <4>1. ShutFolder(j, Shut(j, p), p)
          BY <1>1, <3>1, <3>3, FolderShut
      <4> QED
          BY <1>1, <3>1, <3>3, <4>1 DEF ScanLooks, ShutFolder, Looked
    <3> QED
        BY <3>2, <3>3
  <2> QED
      BY <2>1, <2>2
<1> QED
    BY <1>1, <1>2, <1>3 DEF ScanReads

(* A step of a batch: p is known anew, it stays dirty, or it is looked at  *)
(* a second time.                                                          *)
Refreshes(j, j2, p, C, U) ==
    /\ j2.todo = j.todo \ {p} /\ j2.unsettled = j.unsettled /\ j2.at = None
    /\ Looked(j, j2, C, U)

BatchLooksAt(j, j2, p) ==
    /\ p \in j.todo /\ (Upto(p) \ {p}) \intersect j.todo = {} /\ j2.root = j.root
    /\ \/ At(tree, p) = None /\ Refreshes(j, j2, p, {p} \union Below(p), {})
       \/ /\ p \in Dirs /\ At(tree, p) # None /\ At(tree, p).kind = "link"
          /\ Refreshes(j, j2, p, {p}, {p})
       \/ p \in Files /\ At(tree, p) # None /\ Refreshes(j, j2, p, {p}, {})
       \/ p \in Dirs /\ Listable(tree, p) /\ Refreshes(j, j2, p, {p} \union Below(p), {})
       \/ /\ p \in Files /\ j.kind # "refresh"
          /\ j2.todo = j.todo \ {p} /\ j2.unsettled = j.unsettled \union {p} /\ j2.at = None
          /\ Looked(j, j2, {}, {})
       \/ /\ p \in Dirs \/ j.kind # "refresh"
          /\ j2.todo = j.todo /\ j2.unsettled = j.unsettled /\ j2.at = p
          /\ Looked(j, j2, {}, {})

LEMMA SetLooks ==
    ASSUME TypeOK, NEW j \in Job, NEW p \in Files, At(tree, p) # None
    PROVE  /\ Refreshes(j, IsSet(j, p), p, {p}, {}) /\ IsSet(j, p).root = j.root
           /\ IsSet(j, p) \in Job
<1> DEFINE j2 == IsSet(j, p)
           e == Over(Only(p, At(tree, p)), j.entries)
<1>0. tree \in Tree /\ p \in Paths /\ j.entries \in Entries
    BY NowFacts DEF Paths, Job
<1>1. Own(tree, p) # None
    BY <1>0, OwnFacts
<1>2. /\ e \in Entries
      /\ \A q \in Paths : Shows(e, q) = IF q \in {p} THEN Own(tree, q) ELSE Shows(j.entries, q)
  <2> DEFINE f == Only(p, At(tree, p))
             g == j.entries
  <2>1. f \in Entries /\ DOMAIN f = {p} /\ f[p] = Own(tree, p) /\ g \in Entries
      BY <1>0, <1>1, Single
  <2>2. /\ Over(f, g) \in Entries
        /\ \A q \in Paths : Shows(Over(f, g), q) = IF q \in DOMAIN f THEN f[q] ELSE Shows(g, q)
    <3> HIDE DEF f, g
    <3> QED
        BY <2>1, PutOn
  <2> QED
      BY <2>1, <2>2
<1>3. /\ j2.entries = e /\ j2.todo = j.todo \ {p} /\ j2.at = None /\ j2.root = j.root
      /\ j2.unsettled = j.unsettled /\ j2.unsyncable = j.unsyncable
      /\ j2.kind = j.kind /\ j2.since = j.since /\ j2.took = j.took
      /\ j2 = [j EXCEPT !.todo = j2.todo, !.at = None, !.ver = None, !.entries = j2.entries]
    BY DEF Job, IsSet
<1>4. j2 \in Job
    BY <1>2, <1>3 DEF Job
<1> QED
    BY <1>2, <1>3, <1>4 DEF Refreshes, Looked

LEMMA DropLooks ==
    ASSUME TypeOK, NEW j \in Job, NEW p \in Paths, j.at = None,
           NEW D \in SUBSET Paths, NEW U \in SUBSET Dirs, \A q \in D : Own(tree, q) = None
    PROVE  /\ Refreshes(j, Dropped(j, p, D, U), p, D, U) /\ Dropped(j, p, D, U).root = j.root
           /\ Dropped(j, p, D, U) \in Job
<1> DEFINE j2 == Dropped(j, p, D, U)
           e == Restrict(j.entries, DOMAIN j.entries \ D)
<1>0. j.entries \in Entries
    BY DEF Job
<1>1. /\ e \in Entries
      /\ \A q \in Paths : Shows(e, q) = IF q \in D THEN Own(tree, q) ELSE Shows(j.entries, q)
  <2> DEFINE g == j.entries
             h == Restrict(g, DOMAIN g \ D)
  <2>1. h \in Entries /\ \A q \in Paths : Shows(h, q) = IF q \in D THEN None ELSE Shows(g, q)
    <3> HIDE DEF g
    <3> QED
        BY <1>0, LeftOf DEF g
  <2> QED
      BY <2>1
<1>2. /\ j2.entries = e /\ j2.todo = j.todo \ {p} /\ j2.at = None /\ j2.root = j.root
      /\ j2.unsettled = j.unsettled /\ j2.unsyncable = j.unsyncable \union U
      /\ j2.kind = j.kind /\ j2.since = j.since /\ j2.took = j.took
      /\ j2 = [j EXCEPT !.todo = j2.todo, !.entries = j2.entries, !.unsyncable = j2.unsyncable]
    BY DEF Job, Dropped
<1>3. j2 \in Job
    BY <1>1, <1>2 DEF Job
<1> QED
    BY <1>1, <1>2, <1>3 DEF Refreshes, Looked

LEMMA StaysLooks ==
    ASSUME NEW j \in Job, NEW p \in Files
    PROVE  LET j2 == StaysDirty(j, p)
           IN /\ j2.todo = j.todo \ {p} /\ j2.unsettled = j.unsettled \union {p} /\ j2.at = None
              /\ j2 \in Job /\ j2.root = j.root /\ Looked(j, j2, {}, {})
<1> DEFINE j2 == StaysDirty(j, p)
<1>1. /\ j2.todo = j.todo \ {p} /\ j2.unsettled = j.unsettled \union {p} /\ j2.at = None
      /\ j2.entries = j.entries /\ j2.unsyncable = j.unsyncable
      /\ j2.kind = j.kind /\ j2.since = j.since /\ j2.took = j.took /\ j2.root = j.root
      /\ j2 \in Job
    BY DEF Job, StaysDirty
<1> QED
    BY <1>1 DEF Looked

LEMMA WaitLooks ==
    ASSUME NEW j \in Job, NEW p \in Paths, NEW v \in Versions \union {None}
    PROVE  LET j2 == [j EXCEPT !.at = p, !.ver = v]
           IN /\ j2.todo = j.todo /\ j2.unsettled = j.unsettled /\ j2.at = p
              /\ j2 \in Job /\ j2.root = j.root /\ Looked(j, j2, {}, {})
<1> DEFINE j2 == [j EXCEPT !.at = p, !.ver = v]
<1>1. /\ j2.todo = j.todo /\ j2.unsettled = j.unsettled /\ j2.at = p
      /\ j2.entries = j.entries /\ j2.unsyncable = j.unsyncable
      /\ j2.kind = j.kind /\ j2.since = j.since /\ j2.took = j.took /\ j2.root = j.root
      /\ j2 \in Job
    BY DEF Job
<1> QED
    BY <1>1 DEF Looked

LEMMA EnterLooks ==
    ASSUME NEW j \in Job, NEW p \in Paths
    PROVE  LET j2 == [j EXCEPT !.at = p]
           IN /\ j2.todo = j.todo /\ j2.unsettled = j.unsettled /\ j2.at = p
              /\ j2 \in Job /\ j2.root = j.root /\ Looked(j, j2, {}, {})
<1> DEFINE j2 == [j EXCEPT !.at = p]
<1>1. /\ j2.todo = j.todo /\ j2.unsettled = j.unsettled /\ j2.at = p
      /\ j2.entries = j.entries /\ j2.unsyncable = j.unsyncable
      /\ j2.kind = j.kind /\ j2.since = j.since /\ j2.took = j.took /\ j2.root = j.root
      /\ j2 \in Job
    BY DEF Job
<1> QED
    BY <1>1 DEF Looked

LEMMA WorkingFacts ==
    ASSUME TypeOK, Shapes, Working
    PROVE  /\ job # None /\ job \in Job /\ job.kind # "scan" /\ BatchShape(job) /\ "queue" \in Slots
           /\ jobs["queue"] = job
BY DEF Working, TypeOK, Shapes, Slots, job

LEMMA PathReadLooks ==
    ASSUME TypeOK, Shapes, PathRead
    PROVE  \E j2 \in Job, p \in Paths : Does(j2) /\ BatchLooksAt(job, j2, p)
<1>1. /\ job \in Job /\ job.at = None /\ BatchShape(job) /\ tree \in Tree
    BY WorkingFacts, NowFacts DEF PathRead
<1> DEFINE node(p) == At(tree, p)
<1> PICK p \in NextPath :
         \/ node(p) = None /\ Does(Dropped(job, p, {p} \union Below(p), {}))
         \/ node(p) # None /\ node(p).kind = "link" /\ Does(Dropped(job, p, {p}, {p}))
         \/ node(p) # None /\ node(p).kind = "dir" /\ Does([job EXCEPT !.at = p])
         \/ node(p) # None /\ node(p).kind = "file" /\ job.kind = "refresh" /\ Does(IsSet(job, p))
         \/ /\ node(p) # None /\ node(p).kind = "file" /\ job.kind # "refresh"
            /\ Does(StaysDirty(job, p))
         \/ node(p) # None /\ node(p).kind = "file" /\ job.kind # "refresh"
            /\ Does([job EXCEPT !.at = p, !.ver = node(p).ver])
    BY DEF PathRead
<1>2. p \in job.todo /\ (Upto(p) \ {p}) \intersect job.todo = {} /\ p \in Paths
    BY <1>1 DEF NextPath, BatchShape, Job
<1>3. /\ node(p) # None /\ node(p).kind = "file" => p \in Files
      /\ node(p) # None /\ node(p).kind # "file" => p \in Dirs
      /\ node(p) # None => node(p).ver \in Versions
  <2>1. /\ node(p) = None \/ node(p) \in Node
        /\ p \in Files /\ node(p) # None => node(p).kind = "file"
        /\ p \in Dirs /\ node(p) # None => node(p).kind # "file"
      BY <1>1, <1>2, AtFacts
  <2> QED
      BY <1>2, <2>1 DEF Node, Paths
<1>4. CASE node(p) = None /\ Does(Dropped(job, p, {p} \union Below(p), {}))
  <2>1. \A q \in {p} \union Below(p) : q \in Paths /\ Own(tree, q) = None
    <3> TAKE q \in {p} \union Below(p)
    <3>1. CASE q = p
        BY <1>1, <1>2, <1>4, <3>1, OwnFacts
    <3>2. CASE q \in Below(p)
      <4>1. q \in Paths /\ Up(q) = p /\ p # Top
          BY <1>2, <3>2, PathFacts DEF Below
      <4>2. At(tree, q) = None
          BY <1>1, <1>4, <4>1, AtFacts DEF Listable
      <4> QED
          BY <1>1, <4>1, <4>2, OwnFacts
    <3> QED
        BY <3>1, <3>2
  <2>2. /\ Refreshes(job, Dropped(job, p, {p} \union Below(p), {}), p, {p} \union Below(p), {})
        /\ Dropped(job, p, {p} \union Below(p), {}).root = job.root
        /\ Dropped(job, p, {p} \union Below(p), {}) \in Job
    <3>1. {p} \union Below(p) \in SUBSET Paths
        BY <2>1
    <3> QED
        BY <1>1, <1>2, <2>1, <3>1, DropLooks
  <2> QED
      BY <1>2, <1>4, <2>2 DEF BatchLooksAt
<1>5. CASE node(p) # None /\ node(p).kind = "link" /\ Does(Dropped(job, p, {p}, {p}))
  <2>1. p \in Dirs /\ Own(tree, p) = None
      BY <1>1, <1>2, <1>3, <1>5, OwnFacts
  <2>2. /\ Refreshes(job, Dropped(job, p, {p}, {p}), p, {p}, {p})
        /\ Dropped(job, p, {p}, {p}).root = job.root /\ Dropped(job, p, {p}, {p}) \in Job
      BY <1>1, <1>2, <2>1, DropLooks
  <2> QED
      BY <1>2, <1>5, <2>1, <2>2 DEF BatchLooksAt
<1>6. CASE node(p) # None /\ node(p).kind = "dir" /\ Does([job EXCEPT !.at = p])
    BY <1>1, <1>2, <1>3, <1>6, EnterLooks DEF BatchLooksAt
<1>7. CASE /\ node(p) # None /\ node(p).kind = "file" /\ job.kind = "refresh"
           /\ Does(IsSet(job, p))
  <2>1. p \in Files
      BY <1>3, <1>7
  <2>2. /\ Refreshes(job, IsSet(job, p), p, {p}, {}) /\ IsSet(job, p).root = job.root
        /\ IsSet(job, p) \in Job
      BY <1>1, <1>7, <2>1, SetLooks
  <2> QED
      BY <1>2, <1>7, <2>1, <2>2 DEF BatchLooksAt
<1>8. CASE /\ node(p) # None /\ node(p).kind = "file" /\ job.kind # "refresh"
           /\ Does(StaysDirty(job, p))
    BY <1>1, <1>2, <1>3, <1>8, StaysLooks DEF BatchLooksAt
<1>9. CASE /\ node(p) # None /\ node(p).kind = "file" /\ job.kind # "refresh"
           /\ Does([job EXCEPT !.at = p, !.ver = node(p).ver])
  <2> DEFINE j2 == [job EXCEPT !.at = p, !.ver = node(p).ver]
  <2>1. /\ j2.todo = job.todo /\ j2.unsettled = job.unsettled /\ j2.at = p
        /\ j2 \in Job /\ j2.root = job.root /\ Looked(job, j2, {}, {})
    <3>1. node(p).ver \in Versions \union {None}
        BY <1>3, <1>9
    <3> QED
        BY <1>1, <1>2, <3>1, WaitLooks
  <2>2. Does(j2) /\ job.kind # "refresh"
      BY <1>9
  <2> QED
    <3> HIDE DEF j2
    <3> QED
        BY <1>2, <2>1, <2>2 DEF BatchLooksAt
<1> QED
    BY <1>4, <1>5, <1>6, <1>7, <1>8, <1>9

LEMMA FileSettlesLooks ==
    ASSUME TypeOK, Shapes, FileSettles
    PROVE  \E j2 \in Job, p \in Paths : Does(j2) /\ BatchLooksAt(job, j2, p)
<1>1. /\ job \in Job /\ job.at \in Files /\ BatchShape(job)
    BY WorkingFacts DEF FileSettles
<1> DEFINE p == job.at
<1>2. /\ p \in job.todo /\ (Upto(p) \ {p}) \intersect job.todo = {} /\ p \in Paths
      /\ job.kind # "refresh"
    BY <1>1, WatcherAssumption DEF BatchShape, Paths
<1>3. CASE At(tree, p) # None /\ Does(IsSet(job, p))
    BY <1>1, <1>2, <1>3, SetLooks DEF BatchLooksAt
<1>4. CASE Does(StaysDirty(job, p))
    BY <1>1, <1>2, <1>4, StaysLooks DEF BatchLooksAt
<1> QED
    BY <1>3, <1>4 DEF FileSettles

LEMMA FolderScannedLooks ==
    ASSUME TypeOK, Shapes, FolderScanned
    PROVE  \E j2 \in Job, p \in Paths : Does(j2) /\ BatchLooksAt(job, j2, p)
<1>1. /\ job \in Job /\ job.at \in Dirs /\ BatchShape(job) /\ tree \in Tree
      /\ Listable(tree, job.at)
    BY WorkingFacts, NowFacts DEF FolderScanned
<1> DEFINE p == job.at
           F == Children(tree, p)
           kept == Restrict(job.entries, DOMAIN job.entries \ Below(p))
           found == [q \in F |-> Entry(At(tree, q))]
           inner == Over(Only(p, At(tree, p)), kept)
           e == Over(found, inner)
           j2 == [job EXCEPT !.todo = job.todo \ {p}, !.at = None, !.entries = e]
<1>2. /\ p \in job.todo /\ (Upto(p) \ {p}) \intersect job.todo = {} /\ p \in Paths
      /\ job.entries \in Entries
    BY <1>1, WatcherAssumption DEF BatchShape, Paths, Job
<1>3. Own(tree, p) # None
  <2>1. p # Top
      BY <1>2, PathFacts
  <2> QED
      BY <1>1, <1>2, <2>1, OwnFacts DEF Listable
<1>4. /\ F = {q \in Below(p) : Own(tree, q) # None} /\ F \in SUBSET Paths
      /\ \A q \in F : At(tree, q) # None /\ At(tree, q).kind # "link"
      /\ p \notin Below(p) /\ Below(p) \subseteq Files
  <2>1. Below(p) \subseteq Files /\ Below(p) \subseteq Paths /\ p \notin Below(p)
      BY <1>1, <1>2, PathFacts DEF Below
  <2>2. \A q \in Below(p) : /\ Own(tree, q) # None <=> At(tree, q) # None
                            /\ At(tree, q) # None => At(tree, q).kind # "link"
      BY <1>1, <2>1, OwnFacts, AtFacts
  <2> QED
      BY <2>1, <2>2 DEF Children
<1>5. found \in Entries /\ DOMAIN found = F /\ \A q \in F : found[q] = Own(tree, q)
  <2> HIDE DEF F
  <2> QED
      BY <1>1, <1>4, FoundEntries
<1>6. /\ kept \in Entries
      /\ \A q \in Paths : Shows(kept, q) = IF q \in Below(p) THEN None ELSE Shows(job.entries, q)
    BY <1>2, LeftOf
<1>7. /\ inner \in Entries
      /\ \A q \in Paths : Shows(inner, q) = IF q = p THEN Own(tree, q) ELSE Shows(kept, q)
  <2> DEFINE f == Only(p, At(tree, p))
  <2>1. f \in Entries /\ DOMAIN f = {p} /\ f[p] = Own(tree, p)
      BY <1>1, <1>2, <1>3, Single
  <2>2. /\ Over(f, kept) \in Entries
        /\ \A q \in Paths :
              Shows(Over(f, kept), q) = IF q \in DOMAIN f THEN f[q] ELSE Shows(kept, q)
    <3> HIDE DEF f, kept
    <3> QED
        BY <1>6, <2>1, PutOn
  <2> QED
      BY <2>1, <2>2
<1>8. /\ e \in Entries
      /\ \A q \in Paths : Shows(e, q) = IF q \in F THEN Own(tree, q) ELSE Shows(inner, q)
  <2> HIDE DEF inner, found, F
  <2> QED
      BY <1>5, <1>7, PutOn, ZenonT(60)
<1>9. \A q \in Paths :
         Shows(e, q) = IF q \in {p} \union Below(p) THEN Own(tree, q) ELSE Shows(job.entries, q)
  <2> HIDE DEF e, inner, kept, F
  <2> QED
      BY <1>4, <1>6, <1>7, <1>8
<1>10. /\ j2.entries = e /\ j2.todo = job.todo \ {p} /\ j2.at = None /\ j2.root = job.root
       /\ j2.unsettled = job.unsettled /\ j2.unsyncable = job.unsyncable
       /\ j2.kind = job.kind /\ j2.since = job.since /\ j2.took = job.took
       /\ j2 \in Job
  <2> HIDE DEF e
  <2> QED
      BY <1>1, <1>8 DEF Job
<1>11. Refreshes(job, j2, p, {p} \union Below(p), {})
  <2> HIDE DEF j2, e
  <2> QED
      BY <1>9, <1>10 DEF Refreshes, Looked
<1>12. Does(j2)
    BY DEF FolderScanned, Does
<1> QED
  <2> HIDE DEF j2, e
  <2> QED
      BY <1>1, <1>2, <1>10, <1>11, <1>12 DEF BatchLooksAt

(* A step of a batch.                                                      *)
BatchReads == PathRead \/ FileSettles \/ FolderScanned

LEMMA BatchFacts ==
    ASSUME TypeOK, Shapes, BatchReads
    PROVE  /\ job # None /\ job \in Job /\ job.kind # "scan" /\ BatchShape(job)
           /\ "queue" \in Slots /\ jobs["queue"] = job
           /\ UNCHANGED <<disk, watch, tasks, refresh, bounds, excused>>
           /\ \E j2 \in Job, p \in Paths :
                jobs' = [jobs EXCEPT !["queue"] = j2] /\ BatchLooksAt(job, j2, p)
<1>1. Working /\ UNCHANGED <<disk, watch, tasks, refresh, bounds, excused>>
    BY DEF BatchReads, PathRead, FileSettles, FolderScanned
<1>2. \E j2 \in Job, p \in Paths : Does(j2) /\ BatchLooksAt(job, j2, p)
    BY PathReadLooks, FileSettlesLooks, FolderScannedLooks DEF BatchReads
<1> QED
    BY <1>1, <1>2, WorkingFacts DEF Does

-----------------------------------------------------------------------------
(* The other steps.                                                        *)

World == Others \/ RootChanges \/ Ages
Asks == EventsArrive \/ WatcherFails \/ DebounceFires \/ ScanRequested \/ RefreshCalled
BatchLeaves == BatchSkipped \/ BatchFindsNoRoot \/ BatchThrows \/ BatchEnds

LEMMA NextCases ==
    ASSUME [Next]_vars
    PROVE  \/ World \/ Asks \/ Start \/ Subscribes \/ ScanTaken \/ BatchTaken \/ BatchReads
           \/ BatchPostpones \/ BatchLeaves \/ UNCHANGED vars
           \/ \E s \in Slots : ScanReads(s) \/ ScanFindsNoRoot(s) \/ ScanEnds(s)
<1>1. Next => \/ Others \/ RootChanges \/ Ages
              \/ EventsArrive \/ WatcherFails \/ DebounceFires \/ ScanRequested \/ RefreshCalled
              \/ Start \/ Subscribes \/ ScanTaken
              \/ (\E s \in Slots : ScanSteps(s)) \/ BatchSteps
    BY DEF Next
<1> QED
    BY <1>1 DEF World, Asks, BatchLeaves, BatchReads, ScanReads, ScanSteps, BatchSteps

LEMMA Queues ==
    ASSUME TypeOK, NEW task \in Tasks, Queued(task)
    PROVE  /\ tasks' \in Seq(Tasks) /\ tasks' # <<>> /\ Len(tasks) \in Nat
           /\ Len(tasks') = Len(tasks) + 1 /\ tasks'[Len(tasks')] = task
           /\ \A i \in 1 .. Len(tasks) : tasks'[i] = tasks[i]
           /\ tasks # <<>> => Head(tasks') = Head(tasks)
           /\ Range(tasks') = Range(tasks) \union {task}
<1>1. tasks \in Seq(Tasks) /\ tasks' = Append(tasks, task)
    BY DEF TypeOK, Queued
<1> QED
    BY <1>1 DEF Range

LEMMA Dequeues ==
    ASSUME TypeOK, tasks # <<>>, NEW t, t = Tail(tasks)
    PROVE  /\ t \in Seq(Tasks) /\ Len(tasks) \in Nat /\ Len(tasks) >= 1
           /\ Len(t) = Len(tasks) - 1 /\ Head(tasks) = tasks[1] /\ Head(tasks) \in Tasks
           /\ \A i \in 1 .. Len(t) : t[i] = tasks[i + 1]
           /\ \A x \in Range(tasks) : x # Head(tasks) => x \in Range(t)
<1>1. tasks \in Seq(Tasks)
    BY DEF TypeOK
<1>2. /\ t \in Seq(Tasks) /\ Len(tasks) \in Nat /\ Len(tasks) >= 1
      /\ Len(t) = Len(tasks) - 1 /\ Head(tasks) = tasks[1] /\ Head(tasks) \in Tasks
      /\ \A i \in 1 .. Len(t) : t[i] = tasks[i + 1]
    BY <1>1
<1>3. ASSUME NEW x \in Range(tasks), x # Head(tasks) PROVE x \in Range(t)
  <2>1. DOMAIN tasks = 1 .. Len(tasks) /\ DOMAIN t = 1 .. Len(t)
      BY <1>1, <1>2
  <2> PICK i \in 1 .. Len(tasks) : tasks[i] = x
      BY <2>1, <1>3 DEF Range
  <2>2. i - 1 \in 1 .. Len(t) /\ t[i - 1] = x
      BY <1>2, <1>3
  <2> QED
      BY <2>1, <2>2 DEF Range
<1> QED
    BY <1>2, <1>3

LEMMA SetJob ==
    ASSUME TypeOK, NEW s \in Slots, NEW j2 \in Job \union {None},
           jobs' = [jobs EXCEPT ![s] = j2]
    PROVE  /\ jobs' \in [Slots -> Job \union {None}] /\ jobs'[s] = j2
           /\ \A o \in Slots : o # s => jobs'[o] = jobs[o]
BY DEF TypeOK

LEMMA EmptyEntries == NoEntries \in Entries /\ DOMAIN NoEntries = {}
<1>1. DOMAIN NoEntries = {} /\ NoEntries = [q \in DOMAIN NoEntries |-> NoEntries[q]]
    BY DEF NoEntries
<1> QED
    BY <1>1, EntriesAre

LEMMA ScanFacts ==
    ASSUME TypeOK
    PROVE  /\ Scan \in Job /\ Scan # None /\ Scan.kind = "scan" /\ Scan.since = Now
           /\ Scan.todo = {Top} /\ Scan.entries = NoEntries /\ Scan.unsyncable = {}
           /\ Scan.unsettled = {} /\ Scan.took = {}
           /\ ScanShape(Scan)
<1>1. Scan \in Job
    BY EmptyEntries, NowFacts DEF Scan, Job, Tasks
<1>2. Scan # None
    BY <1>1, WatcherAssumption
<1> QED
    BY <1>1, <1>2 DEF Scan, ScanShape

LEMMA BatchIs ==
    ASSUME TypeOK, Ordered, NEW task \in {"dirty", "refresh"}, NextTask(task),
           snapshot # None, snapshot.root = tree.root
    PROVE  /\ Batch \in Job /\ Batch # None /\ Batch.kind = task /\ Batch.since = Now
           /\ Batch.todo = dirty /\ Batch.took = dirty /\ Batch.unsettled = {}
           /\ Batch.entries = snapshot.entries /\ Batch.root = snapshot.root
           /\ Batch.unsyncable = {u \in snapshot.unsyncable : u \notin dirty}
           /\ Batch.at = None /\ BatchShape(Batch)
           /\ phase = "up" /\ jobs["queue"] = None /\ Head(tasks) = task
<1>1. /\ snapshot.entries \in Entries /\ snapshot.unsyncable \subseteq Dirs
      /\ snapshot.root \in Roots /\ dirty \subseteq Paths /\ tasks # <<>> /\ Head(tasks) = task
    BY DEF TypeOK, Snapshot, NextTask
<1>2. Batch \in Job
    BY <1>1, NowFacts, WatcherAssumption DEF Batch, Job, Tasks
<1>3. Batch # None
    BY <1>2, WatcherAssumption
<1>4. \A u \in snapshot.unsyncable : Upto(u) \intersect dirty = {} <=> u \notin dirty
    BY <1>1, PathFacts DEF Paths
<1>5. phase = "up"
    BY <1>1 DEF Ordered, NextTask
<1>6. /\ Batch.kind = task /\ Batch.since = Now
      /\ Batch.todo = dirty /\ Batch.took = dirty /\ Batch.unsettled = {}
      /\ Batch.entries = snapshot.entries /\ Batch.root = snapshot.root
      /\ Batch.unsyncable = {u \in snapshot.unsyncable : Upto(u) \intersect dirty = {}}
      /\ Batch.at = None
    BY <1>1 DEF Batch
<1>7. BatchShape(Batch)
    BY <1>1, <1>4, <1>6, WatcherAssumption DEF BatchShape, Paths
<1> QED
    BY <1>1, <1>2, <1>3, <1>4, <1>5, <1>6, <1>7 DEF NextTask

LEMMA TakenFacts ==
    ASSUME NEW j \in Job, j.root \in Roots
    PROVE  /\ Taken(j) \in Snapshot /\ Taken(j) # None /\ Taken(j).root = j.root
           /\ Taken(j).unsyncable = j.unsyncable /\ Taken(j).entries = j.entries
<1>1. Taken(j) \in Snapshot
    BY DEF Taken, Job, Snapshot
<1> QED
    BY <1>1, WatcherAssumption DEF Taken

-----------------------------------------------------------------------------
(* The file system.                                                        *)

(* The tree changes at p and below it; past is one longer.                 *)
Changes(p) ==
    /\ Now <= MaxChanges /\ past' = Append(past, past'[Now + 1])
    /\ past'[Now + 1] \in Tree /\ past'[Now + 1].root = tree.root
    /\ \A q \in Paths \ ({p} \union Below(p)) : past'[Now + 1].items[q] = tree.items[q]
    /\ UNCHANGED <<watch, tasks, jobs, refresh, bounds>>
    /\ fresh' \subseteq Files
    /\ \E heard \in {{}, {p}} :
         /\ heard = {} => Up(p) \in notices
         /\ notices' = IF phase = "up" THEN notices \union heard ELSE notices
         /\ excused' = IF phase = "up" THEN excused
                       ELSE excused \union heard \union UNION {Below(q) : q \in heard}

LEMMA TreeWith ==
    ASSUME TypeOK, NEW p \in Paths, NEW node \in Node, Fits(p, node)
    PROVE  /\ With(p, node) \in Tree /\ With(p, node).root = tree.root
           /\ \A q \in Paths \ {p} : With(p, node).items[q] = tree.items[q]
BY NowFacts DEF With, Tree, Items

LEMMA TreeWithout ==
    ASSUME TypeOK, NEW D
    PROVE  /\ Without(D) \in Tree /\ Without(D).root = tree.root
           /\ \A q \in Paths \ D : Without(D).items[q] = tree.items[q]
<1>1. tree.items \in [Paths -> Node \union {None}] /\ tree \in Tree
      /\ \A p \in Paths : Fits(p, tree.items[p])
    BY NowFacts DEF Tree, Items
<1>2. [p \in Paths |-> IF p \in D THEN None ELSE tree.items[p]] \in Items
    BY <1>1 DEF Items, Fits
<1>3. Without(D) = [tree EXCEPT !.items = [p \in Paths |-> IF p \in D THEN None ELSE tree.items[p]]]
    BY DEF Without
<1> QED
    BY <1>1, <1>2, <1>3 DEF Tree

LEMMA NewVersion ==
    ASSUME TypeOK, Now <= MaxChanges
    PROVE  Now \in Versions /\ 0 \in Versions
BY NowFacts, WatcherAssumption DEF Versions

LEMMA ChangeIs ==
    ASSUME TypeOK, NEW p \in Paths, NEW t \in Tree, t.root = tree.root,
           \A q \in Paths \ ({p} \union Below(p)) : t.items[q] = tree.items[q],
           NEW heard \in {{}, {p}}, heard = {} => Up(p) \in notices,
           Change(t, heard), fresh' \subseteq Files
    PROVE  Changes(p)
<1>1. past' = Append(past, t) /\ Now \in Nat /\ past \in Seq(Tree)
    BY NowFacts DEF Change, TypeOK
<1>2. past'[Now + 1] = t
    BY <1>1 DEF Now
<1> QED
    BY <1>1, <1>2 DEF Change, Changes

LEMMA OthersChange ==
    ASSUME TypeOK, Others
    PROVE  \E p \in Paths : Changes(p)
<1> PICK p \in Paths : Creates(p) \/ Writes(p) \/ Deletes(p) \/ Locks(p) \/ Links(p)
    BY DEF Others
<1>0. /\ fresh \subseteq Files /\ tree \in Tree
      /\ p \in Files => p \notin Dirs
      /\ Fits(p, tree.items[p]) /\ (tree.items[p] = None \/ tree.items[p] \in Node)
    BY NowFacts, PathFacts DEF TypeOK, Tree, Items
<1>1. CASE Creates(p)
  <2> DEFINE node == [kind |-> IF p \in Dirs THEN "dir" ELSE "file", ver |-> Now, open |-> TRUE]
  <2> PICK heard \in Heard(p) : Change(With(p, node), heard)
      BY <1>1 DEF Creates
  <2>1. node \in Node /\ Fits(p, node)
      BY NewVersion DEF Change, Node, Fits
  <2>2. fresh' \subseteq Files
      BY <1>0, <1>1 DEF Creates
  <2>3. heard \in {{}, {p}} /\ (heard = {} => Up(p) \in notices)
      BY DEF Heard
  <2>4. /\ With(p, node) \in Tree /\ With(p, node).root = tree.root
        /\ \A q \in Paths \ {p} : With(p, node).items[q] = tree.items[q]
      BY <2>1, TreeWith
  <2> HIDE DEF node
  <2> QED
      BY <2>2, <2>3, <2>4, ChangeIs
<1>2. CASE Writes(p)
  <2> DEFINE node == [tree.items[p] EXCEPT !.ver = Now]
  <2> PICK heard \in Heard(p) : Change(With(p, node), heard)
      BY <1>2 DEF Writes
  <2>0. tree.items[p] # None
      BY <1>0, <1>2 DEF Writes, At, Stands
  <2>1. node \in Node /\ Fits(p, node)
      BY <1>0, <2>0, NewVersion DEF Change, Node, Fits
  <2>2. fresh' \subseteq Files
      BY <1>0, <1>2 DEF Writes
  <2>3. heard \in {{}, {p}} /\ (heard = {} => Up(p) \in notices)
      BY DEF Heard
  <2>4. /\ With(p, node) \in Tree /\ With(p, node).root = tree.root
        /\ \A q \in Paths \ {p} : With(p, node).items[q] = tree.items[q]
      BY <2>1, TreeWith
  <2> HIDE DEF node
  <2> QED
      BY <2>2, <2>3, <2>4, ChangeIs
<1>3. CASE Deletes(p)
  <2>1. Change(Without({p} \union Below(p)), {p}) /\ fresh' \subseteq Files
      BY <1>0, <1>3 DEF Deletes
  <2>2. {p} \in {{}, {p}} /\ {p} # {}
      OBVIOUS
  <2> QED
      BY <2>1, <2>2, TreeWithout, ChangeIs
<1>4. CASE Locks(p)
  <2> DEFINE node == [tree.items[p] EXCEPT !.open = ~tree.items[p].open]
  <2>0. /\ Change(With(p, node), {p}) /\ fresh' \subseteq Files /\ p \in Dirs
        /\ tree.items[p] # None
      BY <1>0, <1>4 DEF Locks, At, Stands
  <2>1. node \in Node /\ Fits(p, node)
      BY <1>0, <2>0 DEF Node, Fits
  <2>2. /\ With(p, node) \in Tree /\ With(p, node).root = tree.root
        /\ \A q \in Paths \ {p} : With(p, node).items[q] = tree.items[q]
      BY <2>1, TreeWith
  <2>3. {p} \in {{}, {p}} /\ {p} # {}
      OBVIOUS
  <2> HIDE DEF node
  <2> QED
      BY <2>0, <2>2, <2>3, ChangeIs
<1>5. CASE Links(p)
  <2> DEFINE u == Without(Below(p))
             link == [kind |-> "link", ver |-> 0, open |-> TRUE]
             t == [u EXCEPT !.items[p] = link]
  <2>0. Change(t, {p}) /\ fresh' \subseteq Files /\ p \in Dirs
      BY <1>0, <1>5 DEF Links
  <2>1. /\ u \in Tree /\ u.root = tree.root
        /\ \A q \in Paths \ Below(p) : u.items[q] = tree.items[q]
      BY TreeWithout
  <2>2. link \in Node /\ Fits(p, link)
      BY <2>0, NewVersion DEF Change, Node, Fits
  <2>3. /\ t \in Tree /\ t.root = tree.root
        /\ \A q \in Paths \ ({p} \union Below(p)) : t.items[q] = tree.items[q]
    <3> HIDE DEF u, link
    <3> QED
        BY <2>1, <2>2 DEF Tree, Items
  <2>4. {p} \in {{}, {p}} /\ {p} # {}
      OBVIOUS
  <2> HIDE DEF t
  <2> QED
      BY <2>0, <2>3, <2>4, ChangeIs
<1> QED
    BY <1>1, <1>2, <1>3, <1>4, <1>5

(* Whatever happens to the file system, the watcher does not take part.    *)
LEMMA WorldFacts ==
    ASSUME TypeOK, World
    PROVE  /\ UNCHANGED <<watch, tasks, jobs, refresh, bounds>>
           /\ past' \in Seq(Tree) /\ past' # <<>> /\ Now' \in {Now, Now + 1}
           /\ \A i \in 1 .. Now : past'[i] = past[i]
           /\ fresh' \subseteq Files /\ notices' \subseteq Paths
           /\ phase # "up" /\ notices = {} => notices' = {}
           /\ excused' \subseteq Paths
<1>0. /\ past \in Seq(Tree) /\ past # <<>> /\ Now \in Nat /\ tree \in Tree
      /\ fresh \subseteq Files /\ notices \subseteq Paths /\ excused \subseteq Paths
    BY NowFacts DEF TypeOK
<1>1. ASSUME NEW t \in Tree, past' = Append(past, t)
      PROVE  /\ past' \in Seq(Tree) /\ past' # <<>> /\ Now' = Now + 1
             /\ \A i \in 1 .. Now : past'[i] = past[i]
    BY <1>0, <1>1 DEF Now
<1>2. CASE Others
  <2> PICK p \in Paths : Changes(p)
      BY <1>2, OthersChange
  <2>1. past'[Now + 1] \in Tree /\ past' = Append(past, past'[Now + 1])
      BY DEF Changes
  <2>2. /\ past' \in Seq(Tree) /\ past' # <<>> /\ Now' = Now + 1
        /\ \A i \in 1 .. Now : past'[i] = past[i]
      BY <2>1, <1>1
  <2> PICK heard \in {{}, {p}} :
         /\ notices' = IF phase = "up" THEN notices \union heard ELSE notices
         /\ excused' = IF phase = "up" THEN excused
                       ELSE excused \union heard \union UNION {Below(q) : q \in heard}
      BY DEF Changes
  <2>3. notices' \subseteq Paths /\ (phase # "up" => notices' = notices)
      BY <1>0
  <2>4. excused' \subseteq Paths
      BY <1>0 DEF Below
  <2> QED
      BY <2>2, <2>3, <2>4 DEF Changes
<1>3. CASE RootChanges
  <2> PICK r \in Roots : /\ past' = Append(past, [tree EXCEPT !.root = r]) /\ excused' = Paths
                         /\ UNCHANGED <<fresh, notices, watch, tasks, jobs, refresh, bounds>>
      BY <1>3 DEF RootChanges
  <2>1. [tree EXCEPT !.root = r] \in Tree
      BY <1>0 DEF Tree
  <2> QED
      BY <1>0, <1>1, <2>1
<1>4. CASE Ages
    BY <1>0, <1>4 DEF Ages, Now
<1> QED
    BY <1>2, <1>3, <1>4 DEF World

-----------------------------------------------------------------------------
(* The end of a job.                                                       *)

Base == TypeOK /\ Ordered /\ Shapes

Leaves(s) == ScanFindsNoRoot(s) \/ ScanEnds(s) \/ (s = "queue" /\ BatchLeaves)

LEMMA EndFacts ==
    ASSUME Base, NEW s \in Slots, Leaves(s)
    PROVE  /\ jobs' = [jobs EXCEPT ![s] = None]
           /\ phase' = IF s = "starter" THEN "scanned" ELSE phase
           /\ tasks' = IF s = "queue" THEN Tail(tasks) ELSE tasks
           /\ s = "queue" => tasks # <<>> /\ phase # "down"
           /\ s = "starter" => phase = "scanning"
           /\ UNCHANGED <<disk, bounds, requested>>
           /\ refresh' = IF s = "queue" /\ refresh.pc = "waiting"
                  THEN [refresh EXCEPT
                          !.pc = IF Head(tasks) = "refresh" THEN "done" ELSE refresh.pc,
                          !.skipped = refresh'.skipped]
                  ELSE refresh
           /\ refresh'.skipped \in BOOLEAN
<1>0. /\ TypeOK
      /\ jobs[s] # None => jobs[s] \in Job
      /\ refresh \in [pc : {"none", "waiting", "done"}, path : Files \union {None},
                      since : Nat, skipped : BOOLEAN]
    BY DEF Base, TypeOK
<1>1. \E skipped \in BOOLEAN : JobEnds(s, skipped) /\ UNCHANGED <<disk, bounds, requested>>
  <2>1. CASE ScanFindsNoRoot(s)
      BY <2>1 DEF ScanFindsNoRoot, RootMissing
  <2>2. CASE ScanEnds(s)
      BY <2>2 DEF ScanEnds
  <2>3. CASE s = "queue" /\ BatchSkipped
    <3> PICK task \in {"dirty", "refresh"} : JobEnds("queue", requested /\ task = "refresh")
        BY <2>3 DEF BatchSkipped
    <3>1. (requested /\ task = "refresh") \in BOOLEAN
        BY <1>0 DEF TypeOK
    <3> QED
        BY <2>3, <3>1 DEF BatchSkipped
  <2>4. CASE s = "queue" /\ BatchFindsNoRoot
      BY <2>4 DEF BatchFindsNoRoot, RootMissing
  <2>5. CASE s = "queue" /\ BatchThrows
      BY <2>5 DEF BatchThrows
  <2>6. CASE s = "queue" /\ BatchEnds
      BY <2>6 DEF BatchEnds
  <2> QED
      BY <2>1, <2>2, <2>3, <2>4, <2>5, <2>6 DEF Leaves, BatchLeaves
<1>2. s = "queue" => tasks # <<>> /\ phase # "down"
  <2>1. ScanFindsNoRoot(s) \/ ScanEnds(s) => jobs[s] # None
      BY DEF ScanFindsNoRoot, ScanEnds, Scanning
  <2>2. BatchThrows \/ BatchEnds => jobs["queue"] # None
      BY DEF BatchThrows, BatchEnds, Working, job
  <2>3. BatchSkipped \/ BatchFindsNoRoot => tasks # <<>> /\ phase # "down"
      BY DEF BatchSkipped, BatchFindsNoRoot, NextTask
  <2>4. jobs["queue"] # None => tasks # <<>> /\ phase # "down"
      BY DEF Base, TypeOK, Ordered, Busy, job
  <2> QED
      BY <2>1, <2>2, <2>3, <2>4 DEF Leaves, BatchLeaves
<1>3. s = "starter" => phase = "scanning"
    BY DEF Leaves, ScanFindsNoRoot, ScanEnds, Scanning, Base, Ordered
<1> PICK skipped \in BOOLEAN : JobEnds(s, skipped) /\ UNCHANGED <<disk, bounds, requested>>
    BY <1>1
<1>4. /\ jobs' = [jobs EXCEPT ![s] = None]
      /\ phase' = IF s = "starter" THEN "scanned" ELSE phase
      /\ tasks' = IF s = "queue" THEN Tail(tasks) ELSE tasks
    BY DEF JobEnds
<1>5. CASE s = "queue" /\ refresh.pc = "waiting"
  <2> DEFINE k == refresh.skipped \/ skipped
             c == IF Head(tasks) = "refresh" THEN "done" ELSE refresh.pc
  <2>1. refresh' = [refresh EXCEPT !.pc = c, !.skipped = k]
      BY <1>5 DEF JobEnds
  <2>2. k \in BOOLEAN
      OBVIOUS
  <2>3. refresh'.skipped = k
    <3> HIDE DEF c, k
    <3> QED
        BY <1>0, <2>1
  <2> QED
    <3> HIDE DEF k
    <3> QED
        BY <1>2, <1>4, <1>5, <2>1, <2>2, <2>3
<1>6. CASE ~(s = "queue" /\ refresh.pc = "waiting")
  <2>1. refresh' = refresh
      BY <1>6 DEF JobEnds
  <2>2. refresh'.skipped \in BOOLEAN
      BY <1>0, <2>1
  <2> QED
      BY <1>2, <1>3, <1>4, <1>6, <2>1, <2>2
<1> QED
    BY <1>5, <1>6

(* What the end of a job leaves of what the watcher knows.                 *)
LEMMA EndWatch ==
    ASSUME Base, NEW s \in Slots, Leaves(s)
    PROVE  /\ dirty' \subseteq Paths /\ debounce' \in BOOLEAN /\ rootDown' \in BOOLEAN
           /\ phase # "up" => dirty' = {} /\ debounce' = debounce
           /\ excused' \subseteq Paths
           /\ \/ snapshot' = snapshot
              \/ /\ snapshot' = Taken(jobs[s]) /\ jobs[s] # None /\ jobs[s] \in Job
                 /\ jobs[s].todo = {} /\ jobs[s].root \in Roots \ {"gone"}
<1>0. /\ TypeOK
      /\ jobs[s] # None => jobs[s] \in Job
      /\ dirty \subseteq Paths /\ debounce \in BOOLEAN /\ rootDown \in BOOLEAN
      /\ excused \subseteq Paths /\ (phase # "up" => dirty = {})
    BY DEF Base, TypeOK, Ordered
<1>1. CASE ScanFindsNoRoot(s)
    BY <1>0, <1>1 DEF ScanFindsNoRoot, RootMissing
<1>2. CASE ScanEnds(s)
  <2>a. /\ jobs[s] # None /\ jobs[s].kind = "scan" /\ jobs[s].todo = {} /\ jobs[s] \in Job
        /\ snapshot' = Taken(jobs[s]) /\ debounce' = debounce
      BY <1>0, <1>2 DEF ScanEnds, Scanning
  <2>b. excused' \in {{}, excused}
      BY <1>2 DEF ScanEnds
  <2>c. dirty' \in {{}, dirty}
      BY <1>2 DEF ScanEnds
  <2>d. rootDown' \in BOOLEAN
      BY <1>2, Zenon DEF ScanEnds
  <2>1. /\ jobs[s] # None /\ jobs[s].kind = "scan" /\ jobs[s].todo = {} /\ jobs[s] \in Job
        /\ snapshot' = Taken(jobs[s]) /\ debounce' = debounce
        /\ excused' \in {{}, excused} /\ dirty' \in {{}, dirty} /\ rootDown' \in BOOLEAN
      BY <2>a, <2>b, <2>c, <2>d
  <2>2. ScanShape(jobs[s])
      BY <2>1 DEF Base, Shapes
  <2>3. jobs[s].root \in Roots \ {"gone"}
      BY <2>1, <2>2 DEF ScanShape
  <2> QED
      BY <1>0, <2>1, <2>3
<1>3. CASE s = "queue" /\ (BatchSkipped \/ BatchFindsNoRoot)
    BY <1>0, <1>3 DEF BatchSkipped, BatchFindsNoRoot, RootMissing
<1>4. CASE s = "queue" /\ BatchThrows
  <2>1. /\ job \in Job /\ UNCHANGED <<snapshot, dirty, debounce, rootDown>>
        /\ excused' = excused \union job.took \union UNION {Below(p) : p \in job.took}
      BY <1>4, WorkingFacts DEF Base, BatchThrows
  <2>2. excused' \subseteq Paths
      BY <1>0, <2>1 DEF Job, Below
  <2> QED
      BY <1>0, <2>1, <2>2
<1>5. CASE s = "queue" /\ BatchEnds
  <2>1. /\ job \in Job /\ job # None /\ job.kind # "scan" /\ job = jobs[s] /\ job.todo = {}
        /\ snapshot' = Taken(job) /\ UNCHANGED <<dirty, debounce, rootDown, excused>>
      BY <1>5, WorkingFacts DEF Base, BatchEnds
  <2>2. phase = "up" /\ snapshot # None /\ job.root = snapshot.root
      BY <2>1 DEF Base, Ordered, Busy
  <2>3. snapshot.root \in Roots \ {"gone"}
      BY <2>2 DEF Base, TypeOK, Snapshot
  <2> QED
      BY <1>0, <2>1, <2>2, <2>3
<1> QED
    BY <1>1, <1>2, <1>3, <1>4, <1>5 DEF Leaves, BatchLeaves

-----------------------------------------------------------------------------
(* Types and shapes are kept.                                              *)

LEMMA InitBase == Init => Base
<1> SUFFICES ASSUME Init PROVE Base
    OBVIOUS
<1>1. /\ past \in Seq(Tree) /\ past # <<>>
  <2> PICK items \in StartTrees : past = <<[root |-> "here", items |-> items]>>
      BY DEF Init
  <2>1. [root |-> "here", items |-> items] \in Tree
      BY WatcherAssumption DEF Tree, Roots
  <2> QED
      BY <2>1
<1>2. \A s \in Slots : jobs[s] = None
    BY DEF Init
<1>3. TypeOK
  <2>1. /\ fresh \subseteq Files
        /\ notices \subseteq Paths /\ dirty \subseteq Paths /\ excused \subseteq Paths
        /\ {debounce, requested, rootDown} \subseteq BOOLEAN
        /\ phase \in {"down", "scanning", "scanned", "up"}
        /\ snapshot = None
      BY DEF Init
  <2>2. tasks \in Seq(Tasks) /\ jobs["queue"] = None
      BY <1>2 DEF Init, Slots
  <2>3. jobs \in [Slots -> Job \union {None}]
      BY DEF Init
  <2>4. /\ refresh \in [pc : {"none", "waiting", "done"}, path : Files \union {None},
                       since : Nat, skipped : BOOLEAN]
        /\ refresh.pc # "waiting"
      BY DEF Init, NoRefresh
  <2> QED
      BY <1>1, <2>1, <2>2, <2>3, <2>4 DEF TypeOK
<1>4. Ordered
    BY <1>2 DEF Init, Ordered, NoRefresh, Slots, Busy, job
<1>5. Shapes
    BY <1>2 DEF Shapes
<1> QED
    BY <1>3, <1>4, <1>5 DEF Base

LEMMA BaseWorld ==
    ASSUME Base, World
    PROVE  Base'
<1>0. TypeOK
    BY DEF Base
<1>1. /\ UNCHANGED <<watch, tasks, jobs, refresh, bounds>>
      /\ past' \in Seq(Tree) /\ past' # <<>> /\ Now' \in {Now, Now + 1}
      /\ \A i \in 1 .. Now : past'[i] = past[i]
      /\ fresh' \subseteq Files /\ notices' \subseteq Paths
      /\ phase # "up" /\ notices = {} => notices' = {}
      /\ excused' \subseteq Paths
    BY <1>0, WorldFacts
<1>2. TypeOK'
    BY <1>0, <1>1 DEF TypeOK, watch
<1>3. Now \in Nat /\ \A i \in 1 .. Now : i \in 1 .. Now'
    BY <1>0, <1>1, NowFacts
<1>4. \A s \in Slots : jobs[s] # None => jobs[s].since \in 1 .. Now
    BY DEF Base, Shapes
<1>5. Ordered'
  <2>1. Busy /\ job.kind # "scan" => past'[job.since] = past[job.since]
      BY <1>1, <1>4 DEF Busy, job, Slots
  <2> QED
      BY <1>1, <2>1 DEF Base, Ordered, Busy, job, watch
<1>6. Shapes'
    BY <1>1, <1>3, <1>4 DEF Base, Shapes, ScanShape, BatchShape
<1> QED
    BY <1>2, <1>5, <1>6 DEF Base

LEMMA AsksFacts ==
    ASSUME TypeOK, Asks
    PROVE  /\ UNCHANGED <<past, fresh, phase, snapshot, rootDown, jobs, excused>>
           /\ notices' \in {{}, notices}
           /\ dirty' = dirty \/ dirty' = dirty \union notices
              \/ \E p \in Files : dirty' = dirty \union {p}
           /\ {debounce', requested'} \subseteq BOOLEAN
           /\ requested => requested'
           /\ \/ tasks' = tasks
              \/ \E task \in Tasks : Queued(task)
           /\ phase # "up" => notices # {} \/ debounce
           /\ refresh' = refresh \/ RefreshCalled
<1>0. /\ {debounce, requested} \subseteq BOOLEAN /\ "scan" \in Tasks /\ "dirty" \in Tasks
      /\ "refresh" \in Tasks
    BY DEF TypeOK, Tasks
<1>1. CASE EventsArrive
    BY <1>0, <1>1 DEF EventsArrive
<1>2. CASE WatcherFails
    BY <1>0, <1>2 DEF WatcherFails, RequestFullScan
<1>3. CASE DebounceFires
    BY <1>0, <1>3 DEF DebounceFires, disk
<1>4. CASE ScanRequested
    BY <1>0, <1>4 DEF ScanRequested, RequestFullScan, disk
<1>5. CASE RefreshCalled
  <2>1. PICK p \in Files : dirty' = dirty \union {p}
      BY <1>5 DEF RefreshCalled
  <2>2. /\ UNCHANGED <<past, fresh, phase, snapshot, rootDown, jobs, excused>>
        /\ notices' = notices /\ debounce' = debounce /\ requested' = requested
        /\ Queued("refresh") /\ phase = "up"
      BY <1>5 DEF RefreshCalled, disk
  <2> QED
      BY <1>0, <1>5, <2>1, <2>2
<1> QED
    BY <1>1, <1>2, <1>3, <1>4, <1>5 DEF Asks

LEMMA BaseAsks ==
    ASSUME Base, Asks
    PROVE  Base'
<1>0. TypeOK /\ Now \in Nat /\ Now >= 1
    BY NowFacts DEF Base
<1>1. /\ UNCHANGED <<past, fresh, phase, snapshot, rootDown, jobs, excused>>
      /\ notices' \subseteq Paths /\ dirty' \subseteq Paths /\ phase = "up"
      /\ {debounce', requested'} \subseteq BOOLEAN
      /\ \/ tasks' = tasks
         \/ \E task \in Tasks : Queued(task)
      /\ refresh' = refresh \/ RefreshCalled
    BY <1>0, AsksFacts DEF Base, TypeOK, Ordered, Paths
<1>2. /\ tasks' \in Seq(Tasks) /\ (tasks # <<>> => tasks' # <<>> /\ Head(tasks') = Head(tasks))
      /\ Range(tasks) \subseteq Range(tasks')
  <2>1. CASE tasks' = tasks
      BY <1>0, <2>1 DEF TypeOK
  <2>2. CASE \E task \in Tasks : Queued(task)
      BY <1>0, <2>2, Queues
  <2> QED
      BY <1>1, <2>1, <2>2
<1>3. /\ refresh' \in [pc : {"none", "waiting", "done"}, path : Files \union {None},
                      since : Nat, skipped : BOOLEAN]
      /\ refresh'.pc = "waiting" => "refresh" \in Range(tasks')
  <2>1. CASE refresh' = refresh
      BY <1>0, <1>2, <2>1 DEF TypeOK
  <2>2. CASE RefreshCalled
    <3>1. Queued("refresh") /\ "refresh" \in Tasks
        BY <2>2 DEF RefreshCalled, Tasks
    <3>2. "refresh" \in Range(tasks')
        BY <1>0, <3>1, Queues
    <3> QED
        BY <1>0, <2>2, <3>2 DEF RefreshCalled
  <2> QED
      BY <1>1, <2>1, <2>2
<1>4. TypeOK'
    BY <1>0, <1>1, <1>2, <1>3 DEF TypeOK
<1>5. Ordered'
    BY <1>0, <1>1, <1>2 DEF Base, TypeOK, Ordered, Busy, job
<1>6. Shapes'
    BY <1>1 DEF Base, Shapes, ScanShape, BatchShape, Now
<1> QED
    BY <1>4, <1>5, <1>6 DEF Base

(* A job of a slot is another one, and none changes in the other.          *)
LEMMA ShapesKept ==
    ASSUME Base, NEW s \in Slots, NEW j2 \in Job \union {None},
           jobs' = [jobs EXCEPT ![s] = j2], past' = past,
           j2 # None => /\ j2.since \in 1 .. Now
                        /\ j2.kind = "scan" => ScanShape(j2)
                        /\ j2.kind # "scan" => BatchShape(j2)
    PROVE  Shapes'
<1>1. /\ jobs'[s] = j2 /\ \A o \in Slots : o # s => jobs'[o] = jobs[o]
      /\ Now' = Now
    BY SetJob DEF Base, Now
<1>2. ASSUME NEW o \in Slots, jobs'[o] # None
      PROVE  /\ jobs'[o].since \in 1 .. Now
             /\ jobs'[o].kind = "scan" => ScanShape(jobs'[o])
             /\ jobs'[o].kind # "scan" => BatchShape(jobs'[o])
  <2>1. CASE o = s
      BY <1>1, <1>2, <2>1
  <2>2. CASE o # s
    <3>1. jobs'[o] = jobs[o]
        BY <1>1, <2>2
    <3> QED
        BY <1>2, <3>1 DEF Base, Shapes
  <2> QED
      BY <2>1, <2>2
<1> QED
    BY <1>1, <1>2 DEF Shapes, ScanShape, BatchShape

LEMMA BaseLeaves ==
    ASSUME Base, NEW s \in Slots, Leaves(s)
    PROVE  Base'
<1>0. TypeOK /\ Ordered /\ Shapes
    BY DEF Base
<1>1. /\ jobs' = [jobs EXCEPT ![s] = None]
      /\ phase' = IF s = "starter" THEN "scanned" ELSE phase
      /\ tasks' = IF s = "queue" THEN Tail(tasks) ELSE tasks
      /\ s = "queue" => tasks # <<>> /\ phase # "down"
      /\ s = "starter" => phase = "scanning"
      /\ past' = past /\ fresh' = fresh /\ notices' = notices /\ requested' = requested
      /\ refresh' = IF s = "queue" /\ refresh.pc = "waiting"
             THEN [refresh EXCEPT
                     !.pc = IF Head(tasks) = "refresh" THEN "done" ELSE refresh.pc,
                     !.skipped = refresh'.skipped]
             ELSE refresh
      /\ refresh'.skipped \in BOOLEAN
    BY EndFacts DEF disk
<1>2. /\ dirty' \subseteq Paths /\ debounce' \in BOOLEAN /\ rootDown' \in BOOLEAN
      /\ phase # "up" => dirty' = {} /\ debounce' = debounce
      /\ excused' \subseteq Paths
      /\ \/ snapshot' = snapshot
         \/ /\ snapshot' = Taken(jobs[s]) /\ jobs[s] # None /\ jobs[s] \in Job
            /\ jobs[s].todo = {} /\ jobs[s].root \in Roots \ {"gone"}
    BY EndWatch
<1>3. /\ jobs' \in [Slots -> Job \union {None}] /\ jobs'[s] = None
      /\ \A o \in Slots : o # s => jobs'[o] = jobs[o]
    BY <1>0, <1>1, SetJob
<1>4. Shapes'
    BY <1>1, <1>3, ShapesKept
<1>5. snapshot' # None => snapshot' \in Snapshot /\ snapshot'.root # "gone"
  <2>1. CASE snapshot' = snapshot
      BY <1>0, <2>1 DEF TypeOK
  <2>2. CASE /\ snapshot' = Taken(jobs[s]) /\ jobs[s] \in Job
             /\ jobs[s].root \in Roots \ {"gone"}
      BY <2>2, TakenFacts
  <2> QED
      BY <1>2, <2>1, <2>2
<1>6. CASE s = "queue"
  <2>1. /\ tasks' = Tail(tasks) /\ tasks' \in Seq(Tasks) /\ tasks # <<>>
        /\ \A x \in Range(tasks) : x # Head(tasks) => x \in Range(tasks')
      BY <1>0, <1>1, <1>6, Dequeues
  <2>2. /\ refresh' \in [pc : {"none", "waiting", "done"}, path : Files \union {None},
                         since : Nat, skipped : BOOLEAN]
        /\ refresh'.pc = "waiting" => refresh.pc = "waiting" /\ Head(tasks) # "refresh"
    <3>1. CASE refresh.pc = "waiting"
      <4> DEFINE c == IF Head(tasks) = "refresh" THEN "done" ELSE refresh.pc
      <4>1. refresh' = [refresh EXCEPT !.pc = c, !.skipped = refresh'.skipped]
          BY <1>1, <1>6, <3>1
      <4>2. c \in {"waiting", "done"} /\ (c = "waiting" => Head(tasks) # "refresh")
          BY <3>1
      <4> HIDE DEF c
      <4> DEFINE k == refresh'.skipped
      <4>3. refresh' = [refresh EXCEPT !.pc = c, !.skipped = k] /\ k \in BOOLEAN
          BY <1>1, <4>1
      <4> HIDE DEF k
      <4> QED
          BY <1>0, <3>1, <4>2, <4>3 DEF TypeOK
    <3>2. CASE refresh.pc # "waiting"
        BY <1>0, <1>1, <3>2 DEF TypeOK
    <3> QED
        BY <3>1, <3>2
  <2>3. refresh'.pc = "waiting" => "refresh" \in Range(tasks')
      BY <1>0, <2>1, <2>2 DEF TypeOK
  <2>4. /\ phase' = phase /\ phase # "down" /\ jobs'["queue"] = None
        /\ jobs'["starter"] = jobs["starter"]
      BY <1>1, <1>3, <1>6 DEF Slots
  <2>5. TypeOK'
      BY <1>0, <1>1, <1>2, <1>3, <1>5, <2>1, <2>2, <2>3, <2>4 DEF TypeOK
  <2>6. Ordered'
    <3>1. phase # "up" => tasks' = <<>> /\ refresh'.pc = "none"
      <4>1. phase # "up" => tasks = <<"scan">> /\ refresh.pc = "none"
          BY <1>0, <2>1 DEF Ordered
      <4> QED
          BY <1>1, <2>1, <4>1
    <3> QED
        BY <1>0, <1>1, <1>2, <2>4, <3>1 DEF Ordered, Busy, job
  <2> QED
      BY <1>4, <2>5, <2>6 DEF Base
<1>7. CASE s = "starter"
  <2>1. /\ phase = "scanning" /\ phase' = "scanned" /\ tasks' = tasks /\ refresh' = refresh
        /\ jobs'["starter"] = None /\ jobs'["queue"] = jobs["queue"]
      BY <1>1, <1>3, <1>7 DEF Slots
  <2>2. TypeOK'
      BY <1>0, <1>1, <1>2, <1>3, <1>5, <2>1 DEF TypeOK
  <2>3. Ordered'
      BY <1>0, <1>1, <1>2, <2>1 DEF Ordered, Busy, job
  <2> QED
      BY <1>4, <2>2, <2>3 DEF Base
<1> QED
    BY <1>6, <1>7 DEF Slots

(* A job reads, or begins.                                                 *)
LEMMA BaseReads ==
    ASSUME Base, NEW s \in Slots, NEW j2 \in Job, jobs' = [jobs EXCEPT ![s] = j2],
           UNCHANGED <<past, fresh, phase, snapshot, rootDown, tasks, refresh, excused, notices>>,
           dirty' \subseteq Paths, {requested', debounce'} \subseteq BOOLEAN,
           phase # "up" => dirty' = {} /\ ~requested' /\ debounce' = debounce,
           j2.since \in 1 .. Now,
           j2.kind = "scan" => ScanShape(j2),
           j2.kind # "scan" => BatchShape(j2),
           s = "queue" => tasks # <<>> /\ phase # "down",
           s = "starter" => phase = "scanning" /\ j2.kind = "scan",
           j2.kind # "scan" => /\ phase = "up" /\ snapshot # None /\ Head(tasks) = j2.kind
                               /\ j2.root = snapshot.root /\ j2.root = past[j2.since].root
    PROVE  Base'
<1>0. TypeOK /\ Ordered /\ j2 # None
    BY WatcherAssumption DEF Base
<1>1. /\ jobs' \in [Slots -> Job \union {None}] /\ jobs'[s] = j2
      /\ \A o \in Slots : o # s => jobs'[o] = jobs[o]
      /\ "queue" \in Slots /\ "starter" \in Slots
    BY <1>0, SetJob DEF Slots
<1>2. Shapes'
    BY <1>0, ShapesKept
<1>3. TypeOK'
    BY <1>0, <1>1 DEF TypeOK
<1>4. Ordered'
  <2>1. CASE s = "queue"
      BY <1>0, <1>1, <2>1 DEF Ordered, Busy, job
  <2>2. CASE s = "starter"
      BY <1>0, <1>1, <2>2 DEF Ordered, Busy, job
  <2> QED
      BY <2>1, <2>2 DEF Slots
<1> QED
    BY <1>2, <1>3, <1>4 DEF Base

(* What a scan has left to scan has an entry, and nothing below it has.    *)
LEMMA ScanShapeKept ==
    ASSUME Base, NEW j \in Job, ScanShape(j), NEW j2 \in Job, ScanLooks(j, j2)
    PROVE  ScanShape(j2) /\ j2.kind = j.kind /\ j2.since = j.since
<1>0. /\ tree \in Tree /\ j.entries \in Entries /\ j2.entries \in Entries
      /\ j2.kind = j.kind /\ j2.since = j.since
      /\ j2.took = j.took /\ j2.unsettled = j.unsettled /\ j2.root \in Roots \union {None}
      /\ Top \notin Dirs
    BY NowFacts, WatcherAssumption
       DEF Base, Job, ScanLooks, LooksAtRoot, ListsTop, ListsFolder, ShutFolder, Looked, Paths
<1>3. CASE LooksAtRoot(j, j2)
  <2>1. /\ j2.root = tree.root /\ tree.root \in Roots \ {"gone"} /\ j2.todo = j.todo
        /\ j2.unsyncable = j.unsyncable /\ Top \in j.todo
        /\ j.todo = {Top} /\ j.entries = NoEntries /\ j.unsyncable = {}
      BY <1>0, <1>3 DEF LooksAtRoot, Looked, Tree, ScanShape
  <2>2. \A q \in Paths : Shows(j2.entries, q) = Shows(j.entries, q)
      BY <1>3 DEF LooksAtRoot, Looked
  <2>3. DOMAIN j2.entries = {} /\ j2.entries = [q \in DOMAIN j2.entries |-> j2.entries[q]]
    <3>1. DOMAIN j2.entries \subseteq Paths
          /\ j2.entries = [q \in DOMAIN j2.entries |-> j2.entries[q]]
        BY <1>0, EntriesAre
    <3>2. ASSUME NEW q \in DOMAIN j2.entries PROVE FALSE
      <4>1. q \in Paths /\ Shows(j.entries, q) = None
          BY <2>1, <3>1, EmptyEntries DEF Shows
      <4> QED
          BY <1>0, <2>2, <4>1, ShowsFacts
    <3> QED
        BY <3>1, <3>2
  <2>4. j2.entries = NoEntries
      BY <2>3 DEF NoEntries
  <2> QED
      BY <1>0, <2>1, <2>4 DEF ScanShape
<1>1. CASE ListsTop(j, j2)
  <2>1. j.todo = {Top} /\ j.entries = NoEntries /\ j.unsyncable = {}
      BY <1>1 DEF ListsTop, ScanShape
  <2>2. ASSUME NEW d \in j2.todo
        PROVE  d \in Dirs /\ d \in DOMAIN j2.entries /\ Below(d) \intersect DOMAIN j2.entries = {}
    <3>1. d \in Dirs /\ Own(tree, d) # None
        BY <1>1 DEF ListsTop
    <3>2. d \in Paths /\ Up(d) = Top
        BY <3>1, PathFacts DEF Paths
    <3>3. Shows(j2.entries, d) = Own(tree, d)
        BY <1>1, <3>2 DEF ListsTop, Looked
    <3>4. d \in DOMAIN j2.entries
        BY <1>0, <3>1, <3>2, <3>3, ShowsFacts
    <3>5. ASSUME NEW q \in Below(d) PROVE q \notin DOMAIN j2.entries
      <4>1. q \in Paths /\ Up(q) = d /\ d # Top
          BY <1>0, <3>1 DEF Below
      <4>2. At(tree, d) # None
          BY <1>0, <3>1, <3>2, OwnFacts
      <4>3. Shows(j2.entries, q) = Shows(j.entries, q)
          BY <1>1, <4>1, <4>2 DEF ListsTop, Looked
      <4>4. Shows(j.entries, q) = None
          BY <2>1, EmptyEntries DEF Shows
      <4> QED
          BY <1>0, <4>1, <4>3, <4>4, ShowsFacts
    <3> QED
        BY <3>1, <3>4, <3>5
  <2>3. j2.root \in Roots \ {"gone"} /\ j2.root # None /\ {None} \intersect Dirs = {}
      BY <1>0, <1>1, WatcherAssumption DEF ListsTop, ScanShape, Paths
  <2>4. \A d \in j2.todo : d \notin j2.unsyncable
    <3> TAKE d \in j2.todo
    <3>1. d \in Dirs /\ d \in Paths /\ Own(tree, d) # None
        BY <1>1 DEF ListsTop, Paths
    <3>2. At(tree, d).kind # "link"
        BY <1>0, <3>1, OwnFacts
    <3>3. j2.unsyncable = {e \in Dirs : At(tree, e) # None /\ At(tree, e).kind = "link"}
        BY <1>1, <2>1 DEF ListsTop, Looked
    <3> QED
        BY <3>2, <3>3
  <2> QED
      BY <1>0, <2>2, <2>3, <2>4 DEF ScanShape
<1>2. ASSUME NEW d \in Dirs, ListsFolder(j, j2, d) \/ ShutFolder(j, j2, d)
      PROVE  ScanShape(j2)
  <2>1. /\ Top \notin j.todo /\ j2.todo = j.todo \ {d} /\ j2.root = j.root
        /\ j.todo \subseteq Dirs
      BY <1>0, <1>2 DEF ListsFolder, ShutFolder, ScanShape
  <2>2. ASSUME NEW e \in j2.todo
        PROVE  e \in DOMAIN j2.entries /\ Below(e) \intersect DOMAIN j2.entries = {}
    <3>1. /\ e \in j.todo /\ e # d /\ e \in Dirs /\ e \in Paths
          /\ e \in DOMAIN j.entries /\ Below(e) \intersect DOMAIN j.entries = {}
        BY <2>1 DEF ScanShape, Paths
    <3>2. \A q \in Paths : q \notin Below(d) => Shows(j2.entries, q) = Shows(j.entries, q)
        BY <1>2 DEF ListsFolder, ShutFolder, Looked
    <3>3. e \notin Below(d) /\ \A q \in Below(e) : q \in Paths /\ q \notin Below(d)
        BY <1>0, <3>1, PathFacts DEF Below
    <3> QED
        BY <1>0, <3>1, <3>2, <3>3, ShowsFacts
  <2>3. j2.todo \intersect j2.unsyncable = {}
      BY <1>2, <2>1 DEF ListsFolder, ShutFolder, ScanShape, Looked
  <2> QED
      BY <1>0, <2>1, <2>2, <2>3 DEF ScanShape
<1> QED
    BY <1>0, <1>1, <1>2, <1>3 DEF ScanLooks

LEMMA BatchShapeKept ==
    ASSUME Base, NEW j \in Job, BatchShape(j), j.kind # "scan", NEW j2 \in Job,
           NEW p \in Paths, BatchLooksAt(j, j2, p)
    PROVE  /\ BatchShape(j2) /\ j2.kind = j.kind /\ j2.since = j.since /\ j2.root = j.root
<1>0. /\ j2.kind = j.kind /\ j2.since = j.since /\ j2.root = j.root /\ j2.took = j.took
      /\ p \in j.todo /\ (Upto(p) \ {p}) \intersect j.todo = {} /\ p # None
      /\ p \in Files => p \notin Dirs
    BY WatcherAssumption, PathFacts DEF BatchLooksAt, Refreshes, Looked
<1>1. CASE \E C, U : Refreshes(j, j2, p, C, U) /\ U \subseteq {p}
  <2>1. /\ j2.todo = j.todo \ {p} /\ j2.unsettled = j.unsettled /\ j2.at = None
        /\ j2.unsyncable \subseteq j.unsyncable \union {p}
      BY <1>1 DEF Refreshes, Looked
  <2> QED
      BY <1>0, <2>1, WatcherAssumption DEF BatchShape, Paths
<1>2. CASE /\ p \in Files /\ j.kind # "refresh" /\ j2.todo = j.todo \ {p}
           /\ j2.unsettled = j.unsettled \union {p} /\ j2.at = None /\ Looked(j, j2, {}, {})
    BY <1>0, <1>2 DEF BatchShape, Looked
<1>3. CASE /\ p \in Dirs \/ j.kind # "refresh"
           /\ j2.todo = j.todo /\ j2.unsettled = j.unsettled /\ j2.at = p
           /\ Looked(j, j2, {}, {})
    BY <1>0, <1>3 DEF BatchShape, Looked
<1> QED
    BY <1>0, <1>1, <1>2, <1>3 DEF BatchLooksAt

(* The steps of the watcher, by what they do to its jobs.                  *)
Begins(s) == (s = "starter" /\ Start) \/ (s = "queue" /\ ScanTaken)
Scans(s) == jobs[s] # None /\ jobs[s] \in Job /\ jobs[s].kind = "scan" /\ ScanShape(jobs[s])
            /\ UNCHANGED <<disk, watch, tasks, refresh, bounds, excused>>
            /\ \E j2 \in Job : jobs' = [jobs EXCEPT ![s] = j2] /\ ScanLooks(jobs[s], j2)
Batches == job # None /\ job \in Job /\ job.kind # "scan" /\ BatchShape(job)
           /\ UNCHANGED <<disk, watch, tasks, refresh, bounds, excused>>
           /\ \E j2 \in Job, p \in Paths :
                jobs' = [jobs EXCEPT !["queue"] = j2] /\ BatchLooksAt(job, j2, p)

(* A batch at its end makes dirty again what did not settle.               *)
Same(j, j2) == /\ j2 \in Job /\ j2.kind = j.kind /\ j2.since = j.since /\ j2.took = j.took
               /\ j2.root = j.root /\ j2.todo = j.todo /\ j2.at = j.at
               /\ j2.entries = j.entries /\ j2.unsyncable = j.unsyncable
Postpones ==
    /\ job # None /\ job \in Job /\ job.kind = "dirty" /\ BatchShape(job) /\ job.todo = {}
    /\ dirty' = dirty \union job.unsettled /\ debounce' = TRUE
    /\ UNCHANGED <<disk, phase, snapshot, requested, rootDown, tasks, refresh, bounds, excused>>
    /\ \E j2 \in Job : jobs' = [jobs EXCEPT !["queue"] = j2] /\ Same(job, j2) /\ j2.unsettled = {}

LEMMA PostponesFacts ==
    ASSUME Base, BatchPostpones
    PROVE  Postpones
<1>1. /\ job # None /\ job \in Job /\ job.kind # "scan" /\ BatchShape(job) /\ job.todo = {}
      /\ job.unsettled # {}
    BY WorkingFacts DEF Base, BatchPostpones
<1>2. job.kind = "dirty"
    BY <1>1 DEF BatchShape, Job, Tasks
<1> DEFINE j2 == [job EXCEPT !.unsettled = {}]
<1>3. j2 \in Job /\ Same(job, j2) /\ j2.unsettled = {}
    BY <1>1 DEF Job, Same
<1>4. jobs' = [jobs EXCEPT !["queue"] = j2]
    BY DEF BatchPostpones, Does
<1> HIDE DEF j2
<1> QED
    BY <1>1, <1>2, <1>3, <1>4 DEF BatchPostpones, Postpones

LEMMA Steps ==
    ASSUME Base, [Next]_vars
    PROVE  \/ World \/ Asks \/ Subscribes \/ BatchTaken \/ Batches \/ Postpones \/ UNCHANGED vars
           \/ \E s \in Slots : Begins(s) \/ Scans(s) \/ Leaves(s)
<1>1. ASSUME NEW s \in Slots, ScanReads(s) PROVE Scans(s)
    BY <1>1, ScanReadsFacts DEF Base, Scans
<1>2. BatchReads => Batches
    BY BatchFacts DEF Base, Batches
<1>3. "queue" \in Slots /\ "starter" \in Slots
    BY DEF Slots
<1> QED
    BY <1>1, <1>2, <1>3, NextCases, PostponesFacts DEF Begins, Leaves

LEMMA BeginFacts ==
    ASSUME Base, NEW s \in Slots, Begins(s)
    PROVE  /\ jobs' = [jobs EXCEPT ![s] = Scan] /\ requested' = FALSE /\ dirty' = {}
           /\ UNCHANGED <<disk, snapshot, debounce, rootDown, refresh, bounds, excused>>
           /\ s = "starter" => phase = "down" /\ phase' = "scanning" /\ tasks' = <<"scan">>
           /\ s = "queue" => /\ phase # "down" /\ tasks # <<>> /\ jobs["queue"] = None
                             /\ UNCHANGED <<phase, tasks>>
BY DEF Begins, Start, ScanTaken, NextTask, ScanBegins

LEMMA BaseBegins ==
    ASSUME Base, NEW s \in Slots, Begins(s)
    PROVE  Base'
<1>0. /\ TypeOK /\ Ordered /\ Scan \in Job /\ Scan # None /\ Scan.kind = "scan"
      /\ Scan.since = Now /\ Now \in 1 .. Now /\ ScanShape(Scan)
    BY ScanFacts, NowFacts DEF Base
<1>1. CASE s = "queue"
  <2>1. /\ UNCHANGED <<past, fresh, phase, snapshot, rootDown, tasks, refresh, excused, notices,
                       debounce>>
        /\ dirty' = {} /\ requested' = FALSE /\ jobs' = [jobs EXCEPT !["queue"] = Scan]
        /\ phase # "down" /\ tasks # <<>> /\ debounce \in BOOLEAN
      BY <1>0, <1>1, BeginFacts DEF disk, TypeOK
  <2> DEFINE j2 == Scan
  <2>2. j2 \in Job /\ j2.kind = "scan" /\ j2.since \in 1 .. Now /\ ScanShape(j2)
        /\ jobs' = [jobs EXCEPT ![s] = j2]
      BY <1>0, <1>1, <2>1
  <2> HIDE DEF j2
  <2> QED
      BY <1>1, <2>1, <2>2, BaseReads
<1>2. CASE s = "starter"
  <2>1. /\ UNCHANGED <<past, fresh, snapshot, rootDown, refresh, excused, notices, debounce>>
        /\ dirty' = {} /\ requested' = FALSE /\ jobs' = [jobs EXCEPT !["starter"] = Scan]
        /\ phase = "down" /\ phase' = "scanning" /\ tasks' = <<"scan">>
      BY <1>2, BeginFacts DEF disk
  <2>2. /\ jobs' \in [Slots -> Job \union {None}] /\ jobs'["starter"] = Scan
        /\ jobs'["queue"] = jobs["queue"]
    <3> DEFINE j2 == Scan
    <3>1. j2 \in Job
        BY <1>0
    <3> HIDE DEF j2
    <3>2. /\ jobs' \in [Slots -> Job \union {None}] /\ jobs'["starter"] = j2
          /\ jobs'["queue"] = jobs["queue"]
        BY <1>0, <2>1, <3>1, SetJob DEF Slots, j2
    <3> QED
        BY <3>2 DEF j2
  <2>3. Shapes'
    <3> DEFINE j2 == Scan
    <3>1. j2 \in Job /\ j2.since \in 1 .. Now /\ j2.kind = "scan" /\ ScanShape(j2)
          /\ jobs' = [jobs EXCEPT ![s] = j2] /\ past' = past
        BY <1>0, <1>2, <2>1
    <3> HIDE DEF j2
    <3> QED
        BY <3>1, ShapesKept
  <2>4. jobs["queue"] = None
      BY <1>0, <2>1 DEF Ordered, Busy, job
  <2>5. TypeOK'
    <3>1. tasks' \in Seq(Tasks) /\ refresh.pc = "none"
        BY <1>0, <2>1 DEF Tasks, Ordered
    <3> QED
        BY <1>0, <2>1, <2>2, <2>4, <3>1 DEF TypeOK
  <2>6. Ordered'
      BY <1>0, <2>1, <2>2, <2>4 DEF Ordered, Busy, job
  <2> QED
      BY <2>3, <2>5, <2>6 DEF Base
<1> QED
    BY <1>1, <1>2 DEF Slots

LEMMA BaseScans ==
    ASSUME Base, NEW s \in Slots, Scans(s)
    PROVE  Base'
<1> PICK j2 \in Job : jobs' = [jobs EXCEPT ![s] = j2] /\ ScanLooks(jobs[s], j2)
    BY DEF Scans
<1>1. /\ ScanShape(j2) /\ j2.kind = "scan" /\ j2.since = jobs[s].since
      /\ jobs[s] # None /\ jobs[s].kind = "scan"
      /\ UNCHANGED <<disk, watch, tasks, refresh, bounds, excused>>
    BY ScanShapeKept DEF Scans
<1>2. j2.since \in 1 .. Now
    BY <1>1 DEF Base, Shapes
<1>3. /\ s = "queue" => tasks # <<>> /\ phase # "down"
      /\ s = "starter" => phase = "scanning"
      /\ dirty \subseteq Paths /\ {requested, debounce} \subseteq BOOLEAN
      /\ phase # "up" => dirty = {} /\ ~requested
    BY <1>1 DEF Base, TypeOK, Ordered, Busy, job
<1> QED
    BY <1>1, <1>2, <1>3, BaseReads DEF disk, watch

LEMMA BaseBatches ==
    ASSUME Base, Batches
    PROVE  Base'
<1> PICK j2 \in Job, p \in Paths :
        jobs' = [jobs EXCEPT !["queue"] = j2] /\ BatchLooksAt(job, j2, p)
    BY DEF Batches
<1>1. /\ BatchShape(j2) /\ j2.kind = job.kind /\ j2.since = job.since /\ j2.root = job.root
      /\ job # None /\ job.kind # "scan" /\ job = jobs["queue"] /\ "queue" \in Slots
      /\ UNCHANGED <<disk, watch, tasks, refresh, bounds, excused>>
    BY BatchShapeKept DEF Batches, job, Slots
<1>2. j2.since \in 1 .. Now
    BY <1>1 DEF Base, Shapes
<1>3. /\ tasks # <<>> /\ phase = "up" /\ snapshot # None /\ Head(tasks) = j2.kind
      /\ j2.root = snapshot.root /\ j2.root = past[j2.since].root
      /\ dirty \subseteq Paths /\ {requested, debounce} \subseteq BOOLEAN
    BY <1>1 DEF Base, TypeOK, Ordered, Busy, job
<1> QED
    BY <1>1, <1>2, <1>3, BaseReads DEF disk, watch

LEMMA BasePostpones ==
    ASSUME Base, Postpones
    PROVE  Base'
<1> PICK j2 \in Job :
        jobs' = [jobs EXCEPT !["queue"] = j2] /\ Same(job, j2) /\ j2.unsettled = {}
    BY DEF Postpones
<1>1. /\ job # None /\ job.kind = "dirty" /\ BatchShape(job) /\ job \in Job
      /\ "queue" \in Slots /\ job = jobs["queue"]
      /\ dirty' = dirty \union job.unsettled /\ debounce' = TRUE
      /\ UNCHANGED <<disk, phase, snapshot, requested, rootDown, tasks, refresh, bounds, excused>>
    BY DEF Postpones, job, Slots
<1>2. BatchShape(j2) /\ j2.kind # "scan" /\ j2.since \in 1 .. Now
    BY <1>1 DEF Same, BatchShape, Base, Shapes
<1>3. /\ tasks # <<>> /\ phase = "up" /\ snapshot # None /\ Head(tasks) = j2.kind
      /\ j2.root = snapshot.root /\ j2.root = past[j2.since].root
      /\ dirty' \subseteq Paths /\ requested \in BOOLEAN
    BY <1>1 DEF Same, Job, Paths, Base, TypeOK, Ordered, Busy, job
<1> QED
    BY <1>1, <1>2, <1>3, BaseReads DEF disk

LEMMA TakenIs ==
    ASSUME Base, BatchTaken
    PROVE  /\ jobs' = [jobs EXCEPT !["queue"] = Batch] /\ dirty' = {} /\ "queue" \in Slots
           /\ UNCHANGED <<disk, phase, snapshot, debounce, requested, rootDown, tasks, refresh,
                          bounds, excused>>
           /\ Batch \in Job /\ Batch # None /\ Batch.kind = Head(tasks) /\ Batch.since = Now
           /\ Batch.todo = dirty /\ Batch.took = dirty /\ Batch.unsettled = {}
           /\ Batch.entries = snapshot.entries /\ Batch.root = snapshot.root
           /\ Batch.unsyncable = {u \in snapshot.unsyncable : u \notin dirty}
           /\ Batch.at = None /\ BatchShape(Batch) /\ Batch.kind \in {"dirty", "refresh"}
           /\ phase = "up" /\ jobs["queue"] = None /\ tasks # <<>> /\ ~requested
           /\ snapshot # None /\ snapshot \in Snapshot /\ snapshot.root = tree.root
<1> PICK task \in {"dirty", "refresh"} :
    /\ NextTask(task)
    /\ ~requested /\ snapshot # None /\ snapshot.root = tree.root /\ dirty # {}
    /\ jobs' = [jobs EXCEPT !["queue"] = Batch]
    /\ dirty' = {}
    /\ UNCHANGED <<disk, phase, snapshot, debounce, requested, rootDown, tasks, refresh,
                   bounds, excused>>
    BY DEF BatchTaken
<1>1. TypeOK /\ Ordered
    BY DEF Base
<1>2. tasks # <<>> /\ snapshot \in Snapshot
    BY <1>1 DEF TypeOK, NextTask
<1>3. /\ Batch \in Job /\ Batch # None /\ Batch.kind = task /\ Batch.since = Now
           /\ Batch.todo = dirty /\ Batch.took = dirty /\ Batch.unsettled = {}
           /\ Batch.entries = snapshot.entries /\ Batch.root = snapshot.root
           /\ Batch.unsyncable = {u \in snapshot.unsyncable : u \notin dirty}
           /\ Batch.at = None /\ BatchShape(Batch)
           /\ phase = "up" /\ jobs["queue"] = None /\ Head(tasks) = task
    BY <1>1, BatchIs
<1> QED
    BY <1>2, <1>3 DEF Slots

LEMMA BaseTaken ==
    ASSUME Base, BatchTaken
    PROVE  Base'
<1> DEFINE j2 == Batch
<1>1. /\ jobs' = [jobs EXCEPT !["queue"] = j2] /\ dirty' = {} /\ "queue" \in Slots
      /\ UNCHANGED <<disk, phase, snapshot, debounce, requested, rootDown, tasks, refresh,
                     bounds, excused>>
      /\ j2 \in Job /\ j2.since = Now /\ j2.root = snapshot.root /\ BatchShape(j2)
      /\ j2.kind = Head(tasks) /\ j2.kind # "scan" /\ phase = "up" /\ tasks # <<>>
      /\ snapshot # None /\ snapshot.root = tree.root
    BY TakenIs
<1> HIDE DEF j2
<1>2. /\ Now \in 1 .. Now /\ j2.root = past[j2.since].root
      /\ {requested', debounce'} \subseteq BOOLEAN
    BY <1>1, NowFacts DEF Base, TypeOK, tree
<1> QED
    BY <1>1, <1>2, BaseReads DEF disk

LEMMA BaseKept == Base /\ [Next]_vars => Base'
<1> SUFFICES ASSUME Base, [Next]_vars PROVE Base'
    OBVIOUS
<1>1. CASE Subscribes
  <2>1. TypeOK'
      BY <1>1 DEF Base, Subscribes, TypeOK, disk
  <2>2. Ordered'
      BY <1>1 DEF Base, Subscribes, Ordered, Busy, job, disk
  <2>3. Shapes'
      BY <1>1 DEF Base, Subscribes, Shapes, ScanShape, BatchShape, Now, disk
  <2> QED
      BY <2>1, <2>2, <2>3 DEF Base
<1>2. CASE UNCHANGED vars
  <2>1. TypeOK'
      BY <1>2 DEF Base, vars, disk, watch, bounds, TypeOK
  <2>2. Ordered'
      BY <1>2 DEF Base, vars, disk, watch, bounds, Ordered, Busy, job
  <2>3. Shapes'
      BY <1>2 DEF Base, vars, disk, watch, bounds, Shapes, ScanShape, BatchShape, Now
  <2> QED
      BY <2>1, <2>2, <2>3 DEF Base
<1> QED
    BY <1>1, <1>2, Steps, BaseWorld, BaseAsks, BaseBegins, BaseScans, BaseBatches, BaseTaken,
       BasePostpones, BaseLeaves

LEMMA BaseHolds == Spec => []Base
<1> QED
    BY InitBase, BaseKept, PTL DEF Spec

(* Every value that the watcher, its jobs and the history take is of the   *)
(* declared kind; a waiting caller of refreshNow() has a task in the chain *)
(* (watcher.ts:120-124).                                                   *)
THEOREM WatcherTypeCorrect == Spec => []TypeOK
<1>1. Base => TypeOK
    BY DEF Base
<1> QED
    BY <1>1, BaseHolds, PTL

(* A root that was away all through a batch yields no deletes: a batch     *)
(* that ends looked at the root when it began (watcher.ts:10).             *)
THEOREM AwayRootDeletesNothing == Spec => NoDeletesWithoutRoot
<1>1. Base /\ [Next]_vars =>
        [(\A s \in Slots : jobs[s] # None => jobs[s].kind # "scan") /\ snapshot # None
         /\ (\A i \in (IF job = None THEN Now ELSE job.since) .. Now :
                 past[i].root # snapshot.root)
            => snapshot' = snapshot]_vars
  <2> SUFFICES ASSUME Base, Next, \A s \in Slots : jobs[s] # None => jobs[s].kind # "scan",
                      snapshot # None,
                      \A i \in (IF job = None THEN Now ELSE job.since) .. Now :
                         past[i].root # snapshot.root
               PROVE  snapshot' = snapshot
      OBVIOUS
  <2>1. ASSUME NEW s \in Slots, Leaves(s) PROVE snapshot' = snapshot
    <3> SUFFICES ASSUME snapshot' # snapshot PROVE FALSE
        OBVIOUS
    <3>1. jobs[s] # None /\ jobs[s].kind # "scan"
        BY <2>1, EndWatch
    <3>2. s = "queue"
        BY <3>1 DEF Base, Ordered, Slots
    <3>3. /\ job # None /\ job.root = snapshot.root /\ job.root = past[job.since].root
          /\ job.since \in 1 .. Now
        BY <3>1, <3>2 DEF Base, Ordered, Busy, job, Shapes, Slots
    <3>4. job.since \in job.since .. Now
        BY <3>3, NowFacts DEF Base
    <3> QED
        BY <3>3, <3>4
  <2>2. CASE World \/ Asks
      BY <2>2, WorldFacts, AsksFacts DEF Base, watch
  <2>3. CASE Subscribes \/ BatchTaken \/ Postpones
      BY <2>3, TakenIs DEF Subscribes, Postpones
  <2>4. CASE Batches \/ \E s \in Slots : Begins(s) \/ Scans(s)
      BY <2>4, BeginFacts DEF Batches, Scans, watch
  <2> QED
      BY <2>1, <2>2, <2>3, <2>4, Steps DEF vars, watch
<1> QED
    BY <1>1, BaseHolds, PTL DEF Spec, NoDeletesWithoutRoot

-----------------------------------------------------------------------------
(* What a job learns.                                                      *)

LEMMA LookedSight ==
    ASSUME NEW j \in Job, NEW j2, NEW C, NEW U \in SUBSET Dirs, Looked(j, j2, C, U),
           NEW q \in Paths
    PROVE  /\ Home(q) \in U => Sight(j2, q) = Unknown
           /\ q \in C => Sight(j2, q) \in {Unknown, Own(tree, q)}
           /\ q \in C /\ Home(q) \notin j.unsyncable \union U => Sight(j2, q) = Own(tree, q)
           /\ q \notin C /\ Home(q) \notin U => Sight(j2, q) = Sight(j, q)
<1>1. /\ j.unsyncable \subseteq Dirs /\ j2.unsyncable \subseteq Dirs
      /\ j2.unsyncable = j.unsyncable \union U
      /\ Shows(j2.entries, q) = IF q \in C THEN Own(tree, q) ELSE Shows(j.entries, q)
    BY DEF Looked, Job
<1>2. /\ Sight(j2, q) = IF Home(q) \in j2.unsyncable THEN Unknown ELSE Shows(j2.entries, q)
      /\ Sight(j, q) = IF Home(q) \in j.unsyncable THEN Unknown ELSE Shows(j.entries, q)
    BY <1>1, SightFacts
<1> QED
    BY <1>1, <1>2

(* After a look at some paths, a path is unread still, or was seen now, or *)
(* nothing became of it.                                                   *)
Learned(j, j2, q) ==
    \/ Unread(j2, q)
    \/ Sight(j2, q) \in {Unknown, Own(tree, q)}
    \/ ~Unread(j, q) /\ Sight(j2, q) = Sight(j, q)

LEMMA ScanLearns ==
    ASSUME Base, NEW j \in Job, j.kind = "scan", ScanShape(j), NEW j2 \in Job,
           ScanLooks(j, j2), NEW q \in Paths
    PROVE  Learned(j, j2, q)
<1>0. /\ tree \in Tree /\ Top \notin Dirs /\ Top \notin Paths
      /\ j2.kind = "scan" /\ Up(q) \in Dirs \union {Top}
    BY NowFacts, PathFacts, WatcherAssumption
       DEF Base, ScanLooks, LooksAtRoot, ListsTop, ListsFolder, ShutFolder, Looked, Paths
<1>1. CASE ListsTop(j, j2)
  <2> DEFINE C == {p \in Paths : Up(p) = Top \/ At(tree, Up(p)) = None}
             U == {d \in Dirs : At(tree, d) # None /\ At(tree, d).kind = "link"}
  <2>1. Looked(j, j2, C, U) /\ U \in SUBSET Dirs
      BY <1>1 DEF ListsTop
  <2>2. CASE q \in C
    <3> HIDE DEF C, U
    <3> QED
        BY <2>1, <2>2, LookedSight DEF Learned
  <2>3. CASE q \notin C
    <3>1. /\ Up(q) \in Dirs /\ At(tree, Up(q)) # None /\ Up(q) \in Paths
          /\ Home(q) = Up(q)
        BY <1>0, <2>3, PathFacts DEF Paths
    <3>2. CASE At(tree, Up(q)).kind = "link"
      <4>1. Home(q) \in U
          BY <3>1, <3>2
      <4> HIDE DEF C, U
      <4> QED
          BY <2>1, <4>1, LookedSight DEF Learned
    <3>3. CASE At(tree, Up(q)).kind # "link"
      <4>1. Own(tree, Up(q)) # None
          BY <1>0, <3>1, <3>3, OwnFacts
      <4>2. Up(q) \in j2.todo
          BY <1>1, <3>1, <4>1 DEF ListsTop
      <4> QED
          BY <1>0, <4>2 DEF Learned, Unread
    <3> QED
        BY <3>2, <3>3
  <2> QED
      BY <2>2, <2>3
<1>2. ASSUME NEW d \in Dirs, ListsFolder(j, j2, d) \/ ShutFolder(j, j2, d)
      PROVE  Learned(j, j2, q)
  <2>0. /\ d \in j.todo /\ j.todo \subseteq Dirs /\ Top \notin j.todo /\ j2.todo = j.todo \ {d}
        /\ d # Top
      BY <1>0, <1>2 DEF ListsFolder, ShutFolder, ScanShape
  <2>1. CASE Up(q) = d
    <3>0. q \in Below(d) /\ Home(q) = d
        BY <2>0, <2>1, PathFacts DEF Below
    <3>1. CASE ListsFolder(j, j2, d)
      <4>1. Looked(j, j2, Below(d), {})
          BY <3>1 DEF ListsFolder
      <4> QED
          BY <3>0, <4>1, LookedSight DEF Learned
    <3>2. CASE ShutFolder(j, j2, d)
      <4>1. Looked(j, j2, {}, {d}) /\ d \in {d} /\ {d} \in SUBSET Dirs
          BY <3>2 DEF ShutFolder
      <4> QED
          BY <3>0, <4>1, LookedSight DEF Learned
    <3> QED
        BY <1>2, <3>1, <3>2
  <2>2. CASE Up(q) # d
    <3>1. ~Unread(j, q) \/ Unread(j2, q)
        BY <1>0, <2>0, <2>2 DEF Unread
    <3>2. q \notin Below(d)
        BY <2>2 DEF Below
    <3>3. CASE ListsFolder(j, j2, d)
      <4>1. Looked(j, j2, Below(d), {})
          BY <3>3 DEF ListsFolder
      <4> QED
          BY <3>1, <3>2, <4>1, LookedSight DEF Learned
    <3>4. CASE ShutFolder(j, j2, d)
      <4>1. Looked(j, j2, {}, {d}) /\ {d} \in SUBSET Dirs
          BY <3>4 DEF ShutFolder
      <4>2. Home(q) = d => Sight(j2, q) = Unknown
          BY <4>1, LookedSight
      <4>3. Home(q) # d => Sight(j2, q) = Sight(j, q)
          BY <4>1, LookedSight
      <4> QED
          BY <3>1, <4>2, <4>3 DEF Learned
    <3> QED
        BY <1>2, <3>3, <3>4
  <2> QED
      BY <2>1, <2>2
<1>3. CASE LooksAtRoot(j, j2)
  <2>1. Looked(j, j2, {}, {}) /\ j2.todo = j.todo
      BY <1>3 DEF LooksAtRoot
  <2>2. Sight(j2, q) = Sight(j, q) /\ (Unread(j2, q) <=> Unread(j, q))
      BY <1>0, <2>1, LookedSight DEF Unread
  <2> QED
      BY <2>2 DEF Learned
<1> QED
    BY <1>1, <1>2, <1>3 DEF ScanLooks

LEMMA BatchLearns ==
    ASSUME Base, NEW j \in Job, j.kind # "scan", BatchShape(j), NEW j2 \in Job,
           NEW p \in Paths, BatchLooksAt(j, j2, p), NEW q \in Paths
    PROVE  Learned(j, j2, q)
<1>0. /\ j2.kind # "scan" /\ Home(q) \in Dirs \union {Top} /\ Top \notin Paths
      /\ \A i \in {j, j2} : Unread(i, q) <=> Home(q) \in i.todo
      /\ q \in Files => q \notin Dirs
    BY PathFacts, BatchShapeKept DEF Unread, Home
<1>1. ASSUME NEW C, NEW U \in SUBSET Dirs, Refreshes(j, j2, p, C, U), U \subseteq {p},
             p \in Dirs => p \in U \/ {p} \union Below(p) \subseteq C
      PROVE  Learned(j, j2, q)
  <2>0. Looked(j, j2, C, U) /\ j2.todo = j.todo \ {p}
      BY <1>1 DEF Refreshes
  <2>1. CASE Home(q) = p
    <3>1. p \in Dirs /\ q \in {p} \union Below(p)
        BY <1>0, <2>1, PathFacts DEF Home
    <3> QED
        BY <1>1, <2>0, <2>1, <3>1, LookedSight DEF Learned
  <2>2. CASE Home(q) # p
    <3>1. ~Unread(j, q) \/ Unread(j2, q)
        BY <1>0, <2>0, <2>2
    <3>2. Home(q) \notin U
        BY <1>1, <2>2
    <3> QED
        BY <2>0, <3>1, <3>2, LookedSight DEF Learned
  <2> QED
      BY <2>1, <2>2
<1>2. ASSUME Looked(j, j2, {}, {}),
             (p \in Files /\ j2.todo = j.todo \ {p}) \/ j2.todo = j.todo
      PROVE  Learned(j, j2, q)
  <2>1. ~Unread(j, q) \/ Unread(j2, q)
    <3>1. p \in Files => Home(q) # p
        BY <1>0, PathFacts
    <3> QED
        BY <1>0, <1>2, <3>1
  <2>2. Sight(j2, q) = Sight(j, q)
      BY <1>2, LookedSight
  <2> QED
      BY <2>1, <2>2 DEF Learned
<1>3. p \in Files => p \notin Dirs
    BY PathFacts
<1>4. CASE At(tree, p) = None /\ Refreshes(j, j2, p, {p} \union Below(p), {})
    BY <1>1, <1>4
<1>5. CASE p \in Dirs /\ Refreshes(j, j2, p, {p}, {p})
    BY <1>1, <1>5
<1>6. CASE p \in Files /\ Refreshes(j, j2, p, {p}, {})
    BY <1>1, <1>3, <1>6
<1>7. CASE p \in Dirs /\ Refreshes(j, j2, p, {p} \union Below(p), {})
    BY <1>1, <1>7
<1> QED
    BY <1>2, <1>4, <1>5, <1>6, <1>7 DEF BatchLooksAt

(* A job that learned is as true as it was.                                *)
LEMMA LearnedTrue ==
    ASSUME Base, NEW j \in Job, NEW j2 \in Job, j2.kind = j.kind, j2.since = j.since,
           j.since \in 1 .. Now, JobTrue(j), \A q \in Paths : Learned(j, j2, q)
    PROVE  JobTrue(j2)
<1> SUFFICES ASSUME NEW q \in Paths
             PROVE  \/ Unread(j2, q)
                    \/ Sight(j2, q) \in {Unknown} \union Reads(q, j2.since)
                    \/ j2.kind # "scan" /\ Sight(j2, q) = Shown(q)
    BY DEF JobTrue
<1>1. Own(tree, q) \in Reads(q, j2.since)
  <2>1. Now \in j2.since .. Now /\ tree = past[Now]
      BY NowFacts DEF Base, tree
  <2> QED
      BY <2>1 DEF Reads
<1> QED
    BY <1>1 DEF JobTrue, Learned

(* One job is another one, the others and what is shown stay.              *)
LEMMA JobSet ==
    ASSUME Base, JobsTrue, NEW s \in Slots, NEW j2 \in Job, JobTrue(j2),
           jobs' = [jobs EXCEPT ![s] = j2], UNCHANGED <<past, snapshot>>
    PROVE  JobsTrue'
<1>1. /\ jobs'[s] = j2 /\ \A o \in Slots : o # s => jobs'[o] = jobs[o]
    BY SetJob DEF Base
<1>2. /\ \A q \in Paths : Shown(q)' = Shown(q)
      /\ \A q \in Paths, r \in Nat : Reads(q, r)' = Reads(q, r)
    BY DEF Shown, Reads, Now
<1>3. ASSUME NEW o \in Slots, jobs'[o] # None, NEW q \in Paths
      PROVE  \/ Unread(jobs'[o], q)
             \/ Sight(jobs'[o], q) \in {Unknown} \union Reads(q, jobs'[o].since)
             \/ jobs'[o].kind # "scan" /\ Sight(jobs'[o], q) = Shown(q)
  <2>1. CASE o = s
      BY <1>1, <2>1 DEF JobTrue
  <2>2. CASE o # s
    <3>1. jobs'[o] = jobs[o]
        BY <1>1, <2>2
    <3> QED
        BY <1>3, <3>1 DEF JobsTrue, JobTrue
  <2> QED
      BY <2>1, <2>2
<1>4. ASSUME NEW o \in Slots, jobs'[o] # None PROVE jobs'[o].since \in Nat
  <2>1. jobs'[o] \in Job
      BY <1>1, <1>4 DEF Base, TypeOK
  <2> QED
      BY <2>1 DEF Job
<1> QED
    BY <1>2, <1>3, <1>4 DEF JobsTrue, JobTrue, Unread, Sight

LEMMA JobsTrueKept == Base /\ JobsTrue /\ [Next]_vars => JobsTrue'
<1> SUFFICES ASSUME Base, JobsTrue, [Next]_vars PROVE JobsTrue'
    OBVIOUS
<1>0. /\ jobs \in [Slots -> Job \union {None}] /\ "queue" \in Slots
      /\ \A s \in Slots : jobs[s] # None => jobs[s] \in Job /\ jobs[s].since \in 1 .. Now
    BY DEF Base, TypeOK, Shapes, Slots
<1>1. CASE World
  <2>1. /\ UNCHANGED <<snapshot, jobs>> /\ Now' \in {Now, Now + 1} /\ Now \in Nat
        /\ \A i \in 1 .. Now : past'[i] = past[i]
      BY <1>1, WorldFacts, NowFacts DEF Base, watch
  <2>2. ASSUME NEW q \in Paths, NEW r \in 1 .. Now PROVE Reads(q, r) \subseteq Reads(q, r)'
    <3>1. \A i \in r .. Now : i \in r .. Now' /\ past'[i] = past[i]
        BY <2>1
    <3> QED
        BY <3>1 DEF Reads, Own, At, Entry
  <2> QED
      BY <1>0, <2>1, <2>2 DEF JobsTrue, JobTrue, Unread, Shown, Sight
<1>2. CASE Asks \/ Subscribes \/ UNCHANGED vars
  <2>1. UNCHANGED <<past, snapshot, jobs>>
      BY <1>2, AsksFacts DEF Base, Subscribes, disk, watch, vars
  <2>2. \A q \in Paths : Shown(q)' = Shown(q)
      BY <2>1 DEF Shown
  <2>3. \A q \in Paths, r \in Nat : Reads(q, r)' = Reads(q, r)
      BY <2>1 DEF Reads, Now
  <2>4. \A s \in Slots : jobs[s] # None => jobs[s].since \in Nat
      BY <1>0
  <2> QED
      BY <2>1, <2>2, <2>3, <2>4 DEF JobsTrue, JobTrue, Unread, Sight
<1>3. ASSUME NEW s \in Slots, Begins(s) PROVE JobsTrue'
  <2> DEFINE j2 == Scan
  <2>1. /\ j2 \in Job /\ j2.kind = "scan" /\ Top \in j2.todo
        /\ jobs' = [jobs EXCEPT ![s] = j2] /\ UNCHANGED <<past, snapshot>>
      BY <1>3, BeginFacts, ScanFacts DEF Base, disk
  <2> HIDE DEF j2
  <2>2. JobTrue(j2)
      BY <2>1 DEF JobTrue, Unread
  <2> QED
      BY <2>1, <2>2, JobSet
<1>4. CASE BatchTaken
  <2> DEFINE j2 == Batch
  <2>1. /\ j2 \in Job /\ j2.kind # "scan" /\ j2.todo = dirty /\ j2.entries = snapshot.entries
        /\ j2.unsyncable = {u \in snapshot.unsyncable : u \notin dirty}
        /\ jobs' = [jobs EXCEPT !["queue"] = j2] /\ UNCHANGED <<past, snapshot>>
        /\ snapshot # None /\ snapshot \in Snapshot
      BY <1>4, TakenIs DEF disk
  <2> HIDE DEF j2
  <2>2. ASSUME NEW q \in Paths PROVE Unread(j2, q) \/ Sight(j2, q) = Shown(q)
    <3>1. Unread(j2, q) <=> Home(q) \in dirty
        BY <2>1 DEF Unread, Home
    <3>2. /\ Sight(j2, q) = IF Home(q) \in j2.unsyncable THEN Unknown ELSE Shows(j2.entries, q)
          /\ Sight(snapshot, q) = IF Home(q) \in snapshot.unsyncable THEN Unknown
                                  ELSE Shows(snapshot.entries, q)
      <4>1. j2.unsyncable \subseteq Dirs /\ snapshot.unsyncable \subseteq Dirs
          BY <2>1 DEF Job, Snapshot
      <4> QED
          BY <4>1, SightFacts
    <3> QED
        BY <2>1, <3>1, <3>2 DEF Shown
  <2>3. JobTrue(j2)
      BY <2>1, <2>2 DEF JobTrue
  <2> QED
      BY <1>0, <2>1, <2>3, JobSet
<1>5. ASSUME NEW s \in Slots, Scans(s) PROVE JobsTrue'
  <2> PICK j2 \in Job : jobs' = [jobs EXCEPT ![s] = j2] /\ ScanLooks(jobs[s], j2)
      BY <1>5 DEF Scans
  <2> PICK j : j = jobs[s]
      OBVIOUS
  <2>1. /\ j \in Job /\ j.kind = "scan" /\ ScanShape(j) /\ UNCHANGED <<past, snapshot>>
        /\ j.since \in 1 .. Now /\ JobTrue(j) /\ j2.kind = j.kind /\ j2.since = j.since
        /\ ScanLooks(j, j2)
      BY <1>0, <1>5, ScanShapeKept DEF Scans, disk, watch, JobsTrue
  <2>2. \A q \in Paths : Learned(j, j2, q)
      BY <2>1, ScanLearns
  <2>3. JobTrue(j2)
      BY <2>1, <2>2, LearnedTrue
  <2> QED
      BY <2>1, <2>3, JobSet
<1>6. CASE Batches
  <2> PICK j2 \in Job, p \in Paths :
          jobs' = [jobs EXCEPT !["queue"] = j2] /\ BatchLooksAt(job, j2, p)
      BY <1>6 DEF Batches
  <2> PICK j : j = job
      OBVIOUS
  <2>1. /\ j \in Job /\ j.kind # "scan" /\ BatchShape(j) /\ UNCHANGED <<past, snapshot>>
        /\ j.since \in 1 .. Now /\ JobTrue(j) /\ j2.kind = j.kind /\ j2.since = j.since
        /\ BatchLooksAt(j, j2, p)
      BY <1>0, <1>6, BatchShapeKept DEF Batches, disk, watch, JobsTrue, job
  <2>2. \A q \in Paths : Learned(j, j2, q)
      BY <2>1, BatchLearns
  <2>3. JobTrue(j2)
      BY <2>1, <2>2, LearnedTrue
  <2> QED
      BY <1>0, <2>1, <2>3, JobSet
<1>8. CASE Postpones
  <2> PICK j2 \in Job : jobs' = [jobs EXCEPT !["queue"] = j2] /\ Same(job, j2)
      BY <1>8 DEF Postpones
  <2>1. /\ job = jobs["queue"] /\ job # None /\ UNCHANGED <<past, snapshot>>
      BY <1>8 DEF Postpones, disk, job
  <2>2. JobTrue(job)
      BY <1>0, <2>1 DEF JobsTrue
  <2>3. JobTrue(j2)
      BY <2>2 DEF JobTrue, Same, Unread, Sight
  <2> QED
      BY <1>0, <2>1, <2>3, JobSet
<1>7. ASSUME NEW s \in Slots, Leaves(s) PROVE JobsTrue'
  <2>1. /\ jobs' = [jobs EXCEPT ![s] = None] /\ past' = past
        /\ s = "starter" => phase = "scanning"
      BY <1>7, EndFacts DEF disk
  <2>2. ASSUME NEW o \in Slots, jobs'[o] # None
        PROVE  jobs'[o] = jobs[o] /\ o # s /\ jobs[o].kind = "scan"
    <3>1. jobs'[o] = jobs[o] /\ o # s
        BY <1>0, <2>1, <2>2
    <3>2. CASE o = "starter"
        BY <2>2, <3>1, <3>2 DEF Base, Ordered
    <3>3. CASE o = "queue"
        BY <2>1, <2>2, <3>1, <3>3 DEF Base, Ordered, Busy, job, Slots
    <3> QED
        BY <3>1, <3>2, <3>3 DEF Slots
  <2>3. \A q \in Paths, r \in Nat : Reads(q, r)' = Reads(q, r)
      BY <2>1 DEF Reads, Now
  <2>4. \A o \in Slots : jobs'[o] # None => jobs'[o].since \in Nat
      BY <1>0, <2>2
  <2> QED
      BY <2>2, <2>3, <2>4 DEF JobsTrue, JobTrue, Unread, Sight
<1> QED
    BY <1>1, <1>2, <1>3, <1>4, <1>5, <1>6, <1>7, <1>8, Steps

LEMMA JobsTrueHolds == Spec => []JobsTrue
<1>1. Init => JobsTrue
    BY DEF Init, JobsTrue
<1> QED
    BY <1>1, BaseHolds, JobsTrueKept, PTL DEF Spec

-----------------------------------------------------------------------------
(* The view that lags.                                                     *)

Readings == {jobs[s].since : s \in {o \in Slots : jobs[o] # None}}

LEMMA LookStep ==
    ASSUME NEW r \in Readings \union {Now}, UNCHANGED past, Readings' \subseteq Readings,
           \A p \in Paths : Shown(p)' \in {Shown(p), Unknown} \union Reads(p, r)
    PROVE  View!Next
<1>1. \A p \in Paths : Reads(p, r) \subseteq View!Seen(p, r)
    BY DEF View!Seen, Reads, Now
<1>2. View!Look(r)
    BY <1>1 DEF View!Look, Readings
<1> QED
    BY <1>2 DEF View!Next, Readings, Now

LEMMA BeginStep ==
    ASSUME UNCHANGED <<past, snapshot>>, Readings' = Readings \union {Now}
    PROVE  View!Next
<1>1. \A p \in Paths : Shown(p)' = Shown(p)
    BY DEF Shown
<1>2. View!Begin
    BY <1>1 DEF View!Begin, Readings, Now
<1> QED
    BY <1>2 DEF View!Next

LEMMA StutterStep ==
    ASSUME UNCHANGED <<past, snapshot>>, Readings' = Readings
    PROVE  UNCHANGED View!vars
<1>1. \A p \in Paths : Shown(p)' = Shown(p)
    BY DEF Shown
<1> QED
    BY <1>1 DEF View!vars, Readings

LEMMA WorldViewed ==
    ASSUME Base, World
    PROVE  View!Next \/ UNCHANGED View!vars
<1>1. /\ UNCHANGED <<snapshot, jobs>> /\ Now' \in {Now, Now + 1} /\ Now \in Nat
      /\ past' \in Seq(Tree) /\ past \in Seq(Tree)
      /\ \A i \in 1 .. Now : past'[i] = past[i]
    BY WorldFacts, NowFacts DEF Base, TypeOK, watch
<1>2. Readings' = Readings
    BY <1>1 DEF Readings
<1>3. CASE past' = past
    BY <1>1, <1>2, <1>3, StutterStep
<1>4. CASE Now' = Now + 1
  <2>1. SubSeq(past', 1, Len(past)) = past
    <3>1. /\ SubSeq(past', 1, Len(past)) \in Seq(Tree)
          /\ Len(SubSeq(past', 1, Len(past))) = Len(past)
          /\ \A i \in 1 .. Len(past) : SubSeq(past', 1, Len(past))[i] = past'[i]
        BY <1>1, <1>4 DEF Now
    <3> QED
        BY <1>1, <3>1, SeqEqual DEF Now
  <2>2. UNCHANGED <<[p \in Paths |-> Shown(p)], Readings>>
      BY <1>1, <1>2 DEF Shown
  <2>3. View!Change
      BY <1>4, <2>1, <2>2 DEF View!Change, Readings, Now
  <2> QED
      BY <2>3 DEF View!Next
<1>5. Now' = Now => past' = past
  <2> SUFFICES ASSUME Now' = Now PROVE past' = past
      OBVIOUS
  <2> QED
      BY <1>1, SeqEqual DEF Now
<1> QED
    BY <1>1, <1>3, <1>4, <1>5

(* A slot gets a job that begins now.                                      *)
LEMMA BeginViewed ==
    ASSUME Base, NEW s \in Slots, NEW j2 \in Job, jobs' = [jobs EXCEPT ![s] = j2],
           jobs[s] = None, j2.since = Now, UNCHANGED <<past, snapshot>>
    PROVE  View!Next
<1>1. /\ jobs'[s] = j2 /\ j2 # None /\ \A o \in Slots : o # s => jobs'[o] = jobs[o]
    BY SetJob, WatcherAssumption DEF Base
<1>2. Readings' = Readings \union {Now}
    BY <1>1 DEF Readings
<1> QED
    BY <1>2, BeginStep

(* A slot has the same job, which knows more.                              *)
LEMMA SameViewed ==
    ASSUME Base, NEW s \in Slots, NEW j2 \in Job, jobs' = [jobs EXCEPT ![s] = j2],
           jobs[s] # None, j2.since = jobs[s].since, UNCHANGED <<past, snapshot>>
    PROVE  UNCHANGED View!vars
<1>1. /\ jobs'[s] = j2 /\ j2 # None /\ \A o \in Slots : o # s => jobs'[o] = jobs[o]
    BY SetJob, WatcherAssumption DEF Base
<1>2. Readings' = Readings
    BY <1>1 DEF Readings
<1> QED
    BY <1>2, StutterStep

LEMMA LeaveViewed ==
    ASSUME Base, JobsTrue, NEW s \in Slots, Leaves(s)
    PROVE  View!Next
<1>0. /\ jobs' = [jobs EXCEPT ![s] = None] /\ past' = past
      /\ \/ snapshot' = snapshot
         \/ /\ snapshot' = Taken(jobs[s]) /\ jobs[s] # None /\ jobs[s] \in Job
            /\ jobs[s].todo = {} /\ jobs[s].root \in Roots \ {"gone"}
    BY EndFacts, EndWatch DEF disk
<1>1. Readings' \subseteq Readings
  <2>1. jobs'[s] = None /\ \A o \in Slots : o # s => jobs'[o] = jobs[o]
      BY <1>0, SetJob DEF Base
  <2> QED
      BY <2>1 DEF Readings
<1>2. CASE snapshot' = snapshot
  <2>1. \A p \in Paths : Shown(p)' = Shown(p)
      BY <1>2 DEF Shown
  <2> PICK r : r = Now
      OBVIOUS
  <2> QED
      BY <1>0, <1>1, <2>1, LookStep
<1>3. CASE /\ snapshot' = Taken(jobs[s]) /\ jobs[s] # None /\ jobs[s] \in Job
           /\ jobs[s].todo = {} /\ jobs[s].root \in Roots \ {"gone"}
  <2> PICK j, r : j = jobs[s] /\ r = j.since
      OBVIOUS
  <2>1. r \in Readings /\ JobTrue(j)
      BY <1>3 DEF Readings, JobsTrue
  <2>2. ASSUME NEW p \in Paths
        PROVE  Shown(p)' \in {Shown(p), Unknown} \union Reads(p, r)
    <3>1. Shown(p)' = Sight(j, p)
        BY <1>3, TakenFacts DEF Shown, Sight
    <3>2. ~Unread(j, p)
        BY <1>3 DEF Unread
    <3> QED
        BY <2>1, <3>1, <3>2 DEF JobTrue
  <2> QED
      BY <1>0, <1>1, <2>1, <2>2, LookStep
<1> QED
    BY <1>0, <1>2, <1>3

(* Scans, batches and the scan of start() implement a view that lags:      *)
(* whatever overlaps, the snapshot never shows a file older than the       *)
(* beginning of the scan or batch that put it there, and never denies a    *)
(* path that could be looked at all through it.  A path below a folder     *)
(* that was shut meanwhile may be denied: lstat() fails there, and the     *)
(* error is taken for an absence (watcher.ts:236-243).                     *)
THEOREM WatcherImplementsView == Spec => LagsOnly
<1>1. Init => View!Init
  <2> SUFFICES ASSUME Init PROVE View!Init
      OBVIOUS
  <2>1. Len(past) = 1 /\ snapshot = None /\ \A s \in Slots : jobs[s] = None
      BY DEF Init
  <2> QED
      BY <2>1 DEF View!Init, Shown
<1>2. Base /\ JobsTrue /\ [Next]_vars => [View!Next]_View!vars
  <2> SUFFICES ASSUME Base, JobsTrue, [Next]_vars PROVE View!Next \/ UNCHANGED View!vars
      OBVIOUS
  <2>1. CASE World
      BY <2>1, WorldViewed
  <2>2. CASE Asks \/ Subscribes \/ UNCHANGED vars
    <3>1. UNCHANGED <<past, snapshot, jobs>>
        BY <2>2, AsksFacts DEF Base, Subscribes, disk, watch, vars
    <3>2. Readings' = Readings
        BY <3>1 DEF Readings
    <3> QED
        BY <3>1, <3>2, StutterStep
  <2>3. ASSUME NEW s \in Slots, Begins(s) PROVE View!Next
    <3> DEFINE j2 == Scan
    <3>1. /\ j2 \in Job /\ j2.since = Now /\ jobs' = [jobs EXCEPT ![s] = j2]
          /\ UNCHANGED <<past, snapshot>>
        BY <2>3, BeginFacts, ScanFacts DEF Base, disk
    <3>2. jobs[s] = None
        BY <2>3, BeginFacts DEF Base, Ordered, Slots
    <3> HIDE DEF j2
    <3> QED
        BY <3>1, <3>2, BeginViewed
  <2>4. CASE BatchTaken
    <3> DEFINE j2 == Batch
    <3>1. /\ j2 \in Job /\ j2.since = Now /\ jobs' = [jobs EXCEPT !["queue"] = j2]
          /\ UNCHANGED <<past, snapshot>> /\ jobs["queue"] = None /\ "queue" \in Slots
        BY <2>4, TakenIs DEF disk
    <3> HIDE DEF j2
    <3> QED
        BY <3>1, BeginViewed
  <2>5. ASSUME NEW s \in Slots, Scans(s) PROVE UNCHANGED View!vars
    <3> PICK j2 \in Job : jobs' = [jobs EXCEPT ![s] = j2] /\ ScanLooks(jobs[s], j2)
        BY <2>5 DEF Scans
    <3>1. /\ UNCHANGED <<past, snapshot>> /\ jobs[s] # None /\ j2.since = jobs[s].since
        BY <2>5, ScanShapeKept DEF Scans, disk, watch
    <3> QED
        BY <3>1, SameViewed
  <2>6. CASE Batches
    <3> PICK j2 \in Job, p \in Paths :
            jobs' = [jobs EXCEPT !["queue"] = j2] /\ BatchLooksAt(job, j2, p)
        BY <2>6 DEF Batches
    <3>1. /\ UNCHANGED <<past, snapshot>> /\ jobs["queue"] # None
          /\ j2.since = jobs["queue"].since /\ "queue" \in Slots
        BY <2>6, BatchShapeKept DEF Batches, disk, watch, job, Slots
    <3> QED
        BY <3>1, SameViewed
  <2>7. ASSUME NEW s \in Slots, Leaves(s) PROVE View!Next
      BY <2>7, LeaveViewed
  <2>8. CASE Postpones
    <3> PICK j2 \in Job : jobs' = [jobs EXCEPT !["queue"] = j2] /\ Same(job, j2)
        BY <2>8 DEF Postpones
    <3>1. /\ UNCHANGED <<past, snapshot>> /\ jobs["queue"] # None
          /\ j2.since = jobs["queue"].since /\ "queue" \in Slots
        BY <2>8 DEF Postpones, Same, disk, job, Slots
    <3> QED
        BY <3>1, SameViewed
  <2> QED
      BY <2>1, <2>2, <2>3, <2>4, <2>5, <2>6, <2>7, <2>8, Steps
<1> QED
    BY <1>1, <1>2, BaseHolds, JobsTrueHolds, PTL DEF Spec, LagsOnly, View!Spec

-----------------------------------------------------------------------------
(* Callers of refreshNow().                                                *)

(* What a batch was told to look at it looked at, or will.                 *)
LEMMA BatchAnswers ==
    ASSUME Base, NEW j \in Job, j.kind # "scan", BatchShape(j), NEW j2 \in Job,
           NEW p \in Paths, BatchLooksAt(j, j2, p), NEW q \in Paths
    PROVE  \/ q \in j2.todo \union j2.unsettled
           \/ Sight(j2, q) \in {Unknown, Own(tree, q)}
           \/ q \notin j.todo \union j.unsettled /\ Sight(j2, q) = Sight(j, q)
<1>1. ASSUME NEW C, NEW U \in SUBSET Dirs, Refreshes(j, j2, p, C, U), p \in C
      PROVE  \/ q \in j2.todo \union j2.unsettled
             \/ Sight(j2, q) \in {Unknown, Own(tree, q)}
             \/ q \notin j.todo \union j.unsettled /\ Sight(j2, q) = Sight(j, q)
  <2>1. /\ Looked(j, j2, C, U) /\ j2.todo = j.todo \ {p} /\ j2.unsettled = j.unsettled
      BY <1>1 DEF Refreshes
  <2>2. CASE q \in C \/ Home(q) \in U
      BY <2>1, <2>2, LookedSight
  <2>3. CASE q \notin C /\ Home(q) \notin U
    <3>1. Sight(j2, q) = Sight(j, q)
        BY <2>1, <2>3, LookedSight
    <3> QED
        BY <1>1, <2>1, <2>3, <3>1
  <2> QED
      BY <2>2, <2>3
<1>2. ASSUME Looked(j, j2, {}, {}),
             \/ j2.todo = j.todo \ {p} /\ j2.unsettled = j.unsettled \union {p}
             \/ j2.todo = j.todo /\ j2.unsettled = j.unsettled
      PROVE  \/ q \in j2.todo \union j2.unsettled
             \/ q \notin j.todo \union j.unsettled /\ Sight(j2, q) = Sight(j, q)
  <2>1. Sight(j2, q) = Sight(j, q)
      BY <1>2, LookedSight
  <2> QED
      BY <1>2, <2>1
<1>3. CASE At(tree, p) = None /\ Refreshes(j, j2, p, {p} \union Below(p), {})
    BY <1>1, <1>3
<1>4. CASE p \in Dirs /\ Refreshes(j, j2, p, {p}, {p})
    BY <1>1, <1>4
<1>5. CASE p \in Files /\ Refreshes(j, j2, p, {p}, {})
    BY <1>1, <1>5
<1>6. CASE p \in Dirs /\ Refreshes(j, j2, p, {p} \union Below(p), {})
    BY <1>1, <1>6
<1> QED
    BY <1>2, <1>3, <1>4, <1>5, <1>6 DEF BatchLooksAt

LEMMA ReadsSince ==
    ASSUME NEW p \in Paths, NEW r \in Nat, NEW r2 \in Nat, r2 >= r, TypeOK
    PROVE  Reads(p, r2) \subseteq Reads(p, r)
<1>1. \A i \in r2 .. Now : i \in r .. Now
    BY NowFacts
<1> QED
    BY <1>1 DEF Reads

(* What the end of a job of the chain is to the caller.                    *)
LEMMA QueueEnds ==
    ASSUME Base, Leaves("queue")
    PROVE  \E skipped \in BOOLEAN :
             /\ refresh' = IF refresh.pc = "waiting"
                           THEN [refresh EXCEPT
                                   !.pc = IF Head(tasks) = "refresh" THEN "done" ELSE "waiting",
                                   !.skipped = (refresh.skipped \/ skipped)]
                           ELSE refresh
             /\ \/ skipped /\ snapshot' = snapshot
                \/ /\ snapshot' = Taken(job) /\ job # None /\ job \in Job /\ job.todo = {}
                   /\ job.root \in Roots \ {"gone"}
                   /\ skipped \/ dirty \union job.unsettled \subseteq dirty'
                \/ /\ job = None /\ snapshot' = snapshot /\ dirty' = dirty
                   /\ \/ skipped
                      \/ Head(tasks) # "refresh"
                      \/ dirty = {}
<1>0. /\ TypeOK
      /\ refresh \in [pc : {"none", "waiting", "done"}, path : Files \union {None},
                      since : Nat, skipped : BOOLEAN]
      /\ requested \in BOOLEAN
      /\ job # None => job \in Job
    BY DEF Base, TypeOK, job, Slots
<1>a. ASSUME NEW skipped \in BOOLEAN, JobEnds("queue", skipped)
      PROVE  refresh' = IF refresh.pc = "waiting"
                        THEN [refresh EXCEPT
                                !.pc = IF Head(tasks) = "refresh" THEN "done" ELSE "waiting",
                                !.skipped = (refresh.skipped \/ skipped)]
                        ELSE refresh
    BY <1>a DEF JobEnds
<1>b. \/ snapshot' = snapshot
      \/ /\ snapshot' = Taken(job) /\ job # None /\ job \in Job
         /\ job.todo = {} /\ job.root \in Roots \ {"gone"}
    BY EndWatch DEF Slots, job
<1>1. CASE ScanFindsNoRoot("queue") \/ BatchFindsNoRoot
  <2>1. JobEnds("queue", TRUE) /\ snapshot' = snapshot
      BY <1>1 DEF ScanFindsNoRoot, BatchFindsNoRoot, RootMissing
  <2> QED
      BY <1>a, <2>1
<1>2. CASE ScanEnds("queue")
  <2> DEFINE replaced == snapshot # None /\ snapshot.root # jobs["queue"].root
  <2>1. /\ JobEnds("queue", replaced) /\ snapshot' = Taken(job) /\ job # None /\ job \in Job
        /\ job.kind = "scan" /\ job.todo = {} /\ dirty' = IF replaced THEN {} ELSE dirty
      BY <1>0, <1>2 DEF ScanEnds, Scanning, job
  <2>2. replaced \in BOOLEAN
      OBVIOUS
  <2>3. ScanShape(job)
      BY <2>1 DEF Base, Shapes, Slots, job
  <2>4. job.unsettled = {} /\ job.root \in Roots \ {"gone"}
      BY <2>1, <2>3 DEF ScanShape
  <2> HIDE DEF replaced
  <2> QED
      BY <1>a, <2>1, <2>2, <2>4
<1>3. CASE BatchSkipped
  <2> PICK task \in {"dirty", "refresh"} :
        /\ NextTask(task)
        /\ requested \/ (snapshot # None /\ snapshot.root = tree.root /\ dirty = {})
        /\ JobEnds("queue", requested /\ task = "refresh")
        /\ UNCHANGED <<disk, snapshot, dirty, debounce, requested, rootDown, bounds, excused>>
      BY <1>3 DEF BatchSkipped
  <2> DEFINE k == requested /\ task = "refresh"
  <2>1. k \in BOOLEAN /\ JobEnds("queue", k)
      OBVIOUS
  <2>2. k \/ Head(tasks) # "refresh" \/ dirty = {}
      BY DEF NextTask
  <2>3. job = None /\ snapshot' = snapshot /\ dirty' = dirty
      BY DEF NextTask, job
  <2> HIDE DEF k
  <2> QED
      BY <1>a, <2>1, <2>2, <2>3
<1>4. CASE BatchThrows
  <2>1. JobEnds("queue", TRUE) /\ snapshot' = snapshot
      BY <1>4 DEF BatchThrows
  <2> QED
      BY <1>a, <2>1
<1>5. CASE BatchEnds
  <2>1. /\ JobEnds("queue", FALSE) /\ snapshot' = Taken(job) /\ job # None /\ job \in Job
        /\ job.todo = {} /\ dirty' = dirty \union job.unsettled /\ job.kind # "scan"
      BY <1>0, <1>5 DEF BatchEnds, Working
  <2>2. job.root \in Roots \ {"gone"}
      BY <2>1 DEF Base, TypeOK, Snapshot, Ordered, Busy
  <2> QED
      BY <1>a, <2>1, <2>2
<1> QED
    BY <1>1, <1>2, <1>3, <1>4, <1>5 DEF Leaves, BatchLeaves

(* A caller, seen from a state where its path is q and its call was at r.  *)
LEMMA QueueRefresh ==
    ASSUME Base, JobsTrue, Inv2, Leaves("queue")
    PROVE  Inv2'
<1>0. /\ TypeOK /\ "queue" \in Slots
      /\ refresh \in [pc : {"none", "waiting", "done"}, path : Files \union {None},
                      since : Nat, skipped : BOOLEAN]
      /\ jobs' = [jobs EXCEPT !["queue"] = None] /\ past' = past /\ tasks' = Tail(tasks)
      /\ tasks # <<>>
    BY EndFacts DEF Base, TypeOK, disk, Slots
<1> PICK skipped \in BOOLEAN :
     /\ refresh' = IF refresh.pc = "waiting"
                   THEN [refresh EXCEPT
                           !.pc = IF Head(tasks) = "refresh" THEN "done" ELSE "waiting",
                           !.skipped = (refresh.skipped \/ skipped)]
                   ELSE refresh
     /\ \/ skipped /\ snapshot' = snapshot
        \/ /\ snapshot' = Taken(job) /\ job # None /\ job \in Job /\ job.todo = {}
           /\ job.root \in Roots \ {"gone"}
           /\ skipped \/ dirty \union job.unsettled \subseteq dirty'
        \/ /\ job = None /\ snapshot' = snapshot /\ dirty' = dirty
           /\ \/ skipped
              \/ Head(tasks) # "refresh"
              \/ dirty = {}
    BY QueueEnds
<1> PICK q, r : q = refresh.path /\ r = refresh.since
    OBVIOUS
<1>1. /\ refresh'.path = q /\ refresh'.since = r
      /\ refresh'.pc = IF refresh.pc = "waiting"
                       THEN (IF Head(tasks) = "refresh" THEN "done" ELSE "waiting")
                       ELSE refresh.pc
      /\ refresh.pc = "waiting" /\ ~refresh'.skipped => ~refresh.skipped /\ ~skipped
      /\ refresh.pc # "waiting" => refresh' = refresh
  <2>1. CASE refresh.pc = "waiting"
    <3> DEFINE c == IF Head(tasks) = "refresh" THEN "done" ELSE "waiting"
               k == refresh.skipped \/ skipped
    <3>1. refresh' = [refresh EXCEPT !.pc = c, !.skipped = k]
        BY <2>1
    <3>2. refresh'.path = q /\ refresh'.since = r /\ refresh'.pc = c /\ refresh'.skipped = k
      <4> HIDE DEF c, k
      <4> QED
          BY <1>0, <3>1
    <3> QED
        BY <2>1, <3>2
  <2>2. CASE refresh.pc # "waiting"
      BY <2>2
  <2> QED
      BY <2>1, <2>2
<1>2. jobs'["queue"] = None /\ job' = None
    BY <1>0, SetJob DEF job
<1>3. /\ tasks' \in Seq(Tasks) /\ Len(tasks) \in Nat /\ Len(tasks) >= 1
      /\ Len(tasks') = Len(tasks) - 1 /\ Head(tasks) = tasks[1]
      /\ \A i \in 1 .. Len(tasks') : tasks'[i] = tasks[i + 1]
    BY <1>0, Dequeues
<1>4. RefreshQueued'
  <2>1. \A i \in 1 .. Len(tasks') : i + 1 \in 1 .. Len(tasks) /\ i + 1 # 1
      BY <1>3
  <2>2. 1 \in 1 .. Len(tasks)
      BY <1>3
  <2>3. refresh'.pc \in {"waiting", "done"} => q \in Files /\ r \in 1 .. Now'
      BY <1>0, <1>1 DEF Inv2, RefreshQueued, Now
  <2>4. refresh'.pc # "waiting" => \A i \in 1 .. Len(tasks') : tasks'[i] # "refresh"
      BY <1>1, <1>3, <2>1, <2>2 DEF Inv2, RefreshQueued
  <2>5. \A i, k \in 1 .. Len(tasks') : tasks'[i] = "refresh" /\ tasks'[k] = "refresh" => i = k
    <3> SUFFICES ASSUME NEW i \in 1 .. Len(tasks'), NEW k \in 1 .. Len(tasks'),
                        tasks'[i] = "refresh", tasks'[k] = "refresh"
                 PROVE  i = k
        OBVIOUS
    <3>1. i + 1 = k + 1
        BY <1>3, <2>1 DEF Inv2, RefreshQueued
    <3> QED
        BY <1>3, <3>1
  <2> QED
      BY <1>1, <2>3, <2>4, <2>5 DEF RefreshQueued
<1>5. ASSUME refresh.pc \in {"waiting", "done"}
      PROVE  /\ q \in Files /\ q \in Paths /\ r \in 1 .. Now /\ r \in Nat
             /\ Fresh <=> Shown(q) \in {Unknown} \union Reads(q, r)
             /\ Fresh' <=> Shown(q)' \in {Unknown} \union Reads(q, r)
  <2>1. /\ q \in Files /\ q \in Paths /\ r \in 1 .. Now
      BY <1>5 DEF Inv2, RefreshQueued, Paths
  <2>2. r \in Nat
      BY <1>0
  <2>3. Reads(q, r)' = Reads(q, r)
      BY <1>0 DEF Reads, Now
  <2>4. Fresh' <=> Shown(q)' \in {Unknown} \union Reads(q, r)'
      BY <1>1 DEF Fresh, Shown, Reads
  <2> QED
      BY <2>1, <2>2, <2>3, <2>4 DEF Fresh
<1>6. ASSUME refresh.pc \in {"waiting", "done"}, Fresh, snapshot' = snapshot PROVE Fresh'
  <2>1. Shown(q)' = Shown(q)
      BY <1>6 DEF Shown
  <2> QED
      BY <1>5, <1>6, <2>1
<1>7. ASSUME refresh.pc \in {"waiting", "done"}, Later, Fresh \/ (Busy /\ Covers),
             q \notin job.unsettled,
             snapshot' = Taken(job), job # None, job \in Job, job.todo = {}, job.root \in Roots
      PROVE  Fresh'
  <2> PICK j : j = job
      OBVIOUS
  <2>1. j.since >= r /\ j.since \in Nat
      BY <1>7 DEF Later, Busy, Job
  <2>2. Shown(q)' = Sight(j, q)
      BY <1>7, TakenFacts DEF Shown, Sight
  <2>3. \/ Sight(j, q) \in {Unknown} \union Reads(q, j.since)
        \/ j.kind # "scan" /\ Sight(j, q) = Shown(q)
    <3>1. JobTrue(j)
        BY <1>0, <1>7 DEF JobsTrue, job
    <3>2. ~Unread(j, q)
        BY <1>7 DEF Unread
    <3> QED
        BY <1>5, <1>7, <3>1, <3>2 DEF JobTrue
  <2>4. Reads(q, j.since) \subseteq Reads(q, r)
      BY <1>0, <1>5, <1>7, <2>1, ReadsSince
  <2>5. CASE Fresh
      BY <1>5, <1>7, <2>2, <2>3, <2>4, <2>5
  <2>6. CASE Covers
    <3>1. j.kind = "scan" \/ Sight(j, q) \in {Unknown} \union Reads(q, r)
        BY <1>7, <2>6 DEF Covers
    <3> QED
        BY <1>5, <1>7, <2>2, <2>3, <2>4, <3>1
  <2> QED
      BY <1>7, <2>5, <2>6
<1>8. Later'
    BY <1>2 DEF Later, Busy
<1>9. ASSUME job # None, job.kind = "refresh" PROVE job.unsettled = {}
  <2>1. BatchShape(job)
      BY <1>0, <1>9 DEF Base, Shapes, job
  <2> QED
      BY <1>9, <2>1 DEF BatchShape
<1>10. ASSUME job # None, Head(tasks) = "refresh" PROVE job.unsettled = {}
  <2>1. CASE job.kind = "scan"
    <3>1. ScanShape(job)
        BY <1>0, <1>10, <2>1 DEF Base, Shapes, job
    <3> QED
        BY <3>1 DEF ScanShape
  <2>2. CASE job.kind # "scan"
      BY <1>9, <1>10, <2>2 DEF Base, Ordered, Busy
  <2> QED
      BY <2>1, <2>2
<1>11. RefreshTrue'
  <2>1. CASE refresh.pc = "none"
      BY <1>1, <2>1 DEF RefreshTrue
  <2>2. CASE refresh.pc = "done"
    <3>1. Inv2 => RefreshTrue
        BY DEF Inv2
    <3>2. ~refresh.skipped => Fresh'
      <4> SUFFICES ASSUME ~refresh.skipped PROVE Fresh'
          OBVIOUS
      <4>1. Later /\ Fresh
          BY <2>2, <3>1 DEF RefreshTrue
      <4>2. CASE snapshot' = snapshot
          BY <1>6, <2>2, <4>1, <4>2
      <4>3. CASE snapshot' = Taken(job) /\ job # None /\ job \in Job /\ job.todo = {}
                 /\ job.root \in Roots \ {"gone"}
        <5> PICK j : j = job
            OBVIOUS
        <5>1. j.since >= r /\ j.since \in Nat /\ Shown(q)' = Sight(j, q) /\ ~Unread(j, q)
              /\ JobTrue(j)
            BY <1>0, <4>1, <4>3, TakenFacts
               DEF Later, Busy, Job, Shown, Sight, Unread, JobsTrue, job
        <5>2. Reads(q, j.since) \subseteq Reads(q, r)
            BY <1>0, <1>5, <2>2, <5>1, ReadsSince
        <5> QED
            BY <1>5, <2>2, <4>1, <5>1, <5>2 DEF JobTrue
      <4> QED
          BY <4>2, <4>3
    <3> QED
        BY <1>1, <1>8, <2>2, <3>2 DEF RefreshTrue
  <2>3. CASE refresh.pc = "waiting"
    <3> SUFFICES ASSUME ~refresh'.skipped
                 PROVE  /\ refresh'.pc = "waiting" => q \in dirty' \/ Fresh'
                        /\ refresh'.pc = "done" => Fresh'
        BY <1>1, <1>2, <1>8, <2>3 DEF RefreshTrue, Busy
    <3>1. ~refresh.skipped /\ ~skipped
        BY <1>1, <2>3
    <3>2. \/ q \in dirty /\ (Busy => Head(tasks) # "refresh")
          \/ Later /\ (Fresh \/ (Busy /\ Covers))
        BY <2>3, <3>1 DEF Inv2, RefreshTrue
    <3>3. CASE job = None /\ snapshot' = snapshot /\ dirty' = dirty
               /\ (Head(tasks) # "refresh" \/ dirty = {})
      <4>1. q \in dirty \/ Fresh
          BY <3>2, <3>3 DEF Busy
      <4> QED
          BY <1>1, <1>6, <2>3, <3>3, <4>1
    <3>4. CASE /\ snapshot' = Taken(job) /\ job # None /\ job \in Job /\ job.todo = {}
               /\ job.root \in Roots \ {"gone"} /\ dirty \union job.unsettled \subseteq dirty'
      <4>1. CASE q \in dirty /\ (Busy => Head(tasks) # "refresh")
          BY <1>1, <2>3, <3>4, <4>1 DEF Busy
      <4>2. CASE q \in job.unsettled
          BY <1>1, <1>10, <2>3, <3>4, <4>2
      <4>3. CASE Later /\ (Fresh \/ (Busy /\ Covers)) /\ q \notin job.unsettled
          BY <1>7, <2>3, <3>4, <4>3
      <4> QED
          BY <3>2, <4>1, <4>2, <4>3
    <3> QED
        BY <3>1, <3>3, <3>4
  <2> QED
      BY <1>0, <2>1, <2>2, <2>3
<1> QED
    BY <1>4, <1>11 DEF Inv2

(* The chain gets no task of refreshNow(), and no caller.                  *)
LEMMA QueuedKept ==
    ASSUME TypeOK, RefreshQueued, refresh' = refresh, past' = past \/ Now' = Now + 1,
           tasks' = tasks \/ \E task \in Tasks \ {"refresh"} : Queued(task)
    PROVE  RefreshQueued'
<1>1. \A i \in 1 .. Now : i \in 1 .. Now'
  <2>1. Now' = Now \/ Now' = Now + 1
      BY DEF Now
  <2> QED
      BY <2>1, NowFacts
<1>2. \A i \in 1 .. Len(tasks') : tasks'[i] = "refresh" =>
         i \in 1 .. Len(tasks) /\ tasks[i] = "refresh"
  <2>1. ASSUME NEW task \in Tasks \ {"refresh"}, Queued(task)
        PROVE  \A i \in 1 .. Len(tasks') : tasks'[i] = "refresh" =>
                  i \in 1 .. Len(tasks) /\ tasks[i] = "refresh"
    <3>1. /\ Len(tasks) \in Nat /\ Len(tasks') = Len(tasks) + 1 /\ tasks'[Len(tasks')] = task
          /\ \A i \in 1 .. Len(tasks) : tasks'[i] = tasks[i]
        BY <2>1, Queues
    <3> QED
        BY <2>1, <3>1
  <2> QED
      BY <2>1
<1> QED
    BY <1>1, <1>2 DEF RefreshQueued

LEMMA NoCaller ==
    ASSUME Base, RefreshQueued, phase # "up"
    PROVE  refresh.pc = "none"
BY DEF Base, Ordered

LEMMA WorldRefresh ==
    ASSUME Base, Inv2, World
    PROVE  Inv2'
<1>0. /\ UNCHANGED <<snapshot, jobs, tasks, dirty, refresh>> /\ Now' \in {Now, Now + 1}
      /\ Now \in Nat /\ \A i \in 1 .. Now : past'[i] = past[i]
    BY WorldFacts, NowFacts DEF Base, watch
<1>1. past' = past \/ Now' = Now + 1
  <2> SUFFICES ASSUME Now' = Now PROVE past' = past
      BY <1>0
  <2>1. past \in Seq(Tree) /\ past' \in Seq(Tree)
      BY WorldFacts DEF Base, TypeOK
  <2> QED
      BY <1>0, <2>1, SeqEqual DEF Now
<1>2. RefreshQueued'
    BY <1>0, <1>1, QueuedKept DEF Inv2, Base
<1> PICK q, r : q = refresh.path /\ r = refresh.since
    OBVIOUS
<1>3. ASSUME refresh.pc \in {"waiting", "done"}
      PROVE  /\ Fresh => Fresh'
             /\ Covers => Covers'
  <2>1. q \in Paths /\ r \in 1 .. Now
      BY <1>3 DEF Inv2, RefreshQueued, Paths
  <2>2. Reads(q, r) \subseteq Reads(q, r)'
    <3>1. \A i \in r .. Now : i \in r .. Now' /\ past'[i] = past[i]
        BY <1>0, <2>1
    <3> QED
        BY <3>1 DEF Reads, Own, At, Entry
  <2>3. Reads(q, r)' = Reads(refresh.path, refresh.since)'
      BY <1>0 DEF Reads
  <2>4. Shown(q)' = Shown(q) /\ Shown(refresh.path)' = Shown(q)
      BY <1>0 DEF Shown
  <2> QED
      BY <1>0, <2>2, <2>3, <2>4 DEF Fresh, Covers, job, Sight
<1>4. RefreshTrue'
    BY <1>0, <1>3 DEF Inv2, RefreshTrue, Later, Busy, job
<1> QED
    BY <1>2, <1>4 DEF Inv2

(* A step that asks for nothing of a caller, and changes no view.          *)
LEMMA SameRefresh ==
    ASSUME Base, Inv2, UNCHANGED <<past, snapshot, jobs, refresh>>,
           tasks' = tasks \/ \E task \in Tasks \ {"refresh"} : Queued(task),
           dirty \subseteq dirty'
    PROVE  Inv2'
<1>1. RefreshQueued'
    BY QueuedKept DEF Base, Inv2
<1>2. tasks # <<>> => Head(tasks') = Head(tasks)
    BY Queues DEF Base
<1>3. Busy => tasks # <<>>
    BY DEF Busy, job, Base, TypeOK
<1>4. /\ Fresh' = Fresh /\ Covers' = Covers /\ Later' = Later /\ Busy' = Busy
    BY DEF Fresh, Covers, Later, Busy, job, Shown, Sight, Reads, Now, Own, At, Entry
<1>5. RefreshTrue'
    BY <1>2, <1>3, <1>4 DEF Inv2, RefreshTrue
<1> QED
    BY <1>1, <1>5 DEF Inv2

LEMMA CallRefresh ==
    ASSUME Base, Inv2, RefreshCalled
    PROVE  Inv2'
<1> PICK p \in Files :
    /\ phase = "up" /\ refresh.pc # "waiting"
    /\ refresh' = [pc |-> "waiting", path |-> p, since |-> Now, skipped |-> FALSE]
    /\ dirty' = dirty \union {p}
    /\ Queued("refresh")
    /\ UNCHANGED <<disk, phase, snapshot, debounce, requested, rootDown, jobs, faults, excused>>
    BY DEF RefreshCalled
<1>1. /\ tasks' \in Seq(Tasks) /\ Len(tasks) \in Nat
      /\ Len(tasks') = Len(tasks) + 1 /\ tasks'[Len(tasks')] = "refresh"
      /\ \A i \in 1 .. Len(tasks) : tasks'[i] = tasks[i] /\ tasks[i] # "refresh"
      /\ tasks # <<>> => Head(tasks') = Head(tasks) /\ Head(tasks) # "refresh"
  <2>1. TypeOK /\ "refresh" \in Tasks /\ tasks \in Seq(Tasks)
      BY DEF Base, TypeOK, Tasks
  <2>2. \A i \in 1 .. Len(tasks) : tasks[i] # "refresh"
      BY DEF Inv2, RefreshQueued
  <2>3. tasks # <<>> => Head(tasks) = tasks[1] /\ 1 \in 1 .. Len(tasks)
      BY <2>1
  <2> QED
      BY <2>1, <2>2, <2>3, Queues
<1>2. Now' = Now /\ Now \in 1 .. Now
    BY NowFacts DEF Base, disk, Now
<1>3. RefreshQueued'
  <2>1. \A i \in 1 .. Len(tasks') : tasks'[i] = "refresh" => i = Len(tasks')
      BY <1>1
  <2> QED
      BY <1>1, <1>2, <2>1 DEF RefreshQueued
<1>4. RefreshTrue'
  <2>1. Busy' => tasks # <<>>
      BY DEF Busy, job, Base, TypeOK
  <2> QED
      BY <1>1, <2>1 DEF RefreshTrue
<1> QED
    BY <1>3, <1>4 DEF Inv2

LEMMA AsksRefresh ==
    ASSUME Base, Inv2, Asks
    PROVE  Inv2'
<1>1. CASE EventsArrive \/ DebounceFires \/ WatcherFails \/ ScanRequested
  <2>1. UNCHANGED <<past, snapshot, jobs, refresh>>
      BY <1>1 DEF EventsArrive, DebounceFires, WatcherFails, ScanRequested, disk
  <2>2. tasks' = tasks \/ \E task \in Tasks \ {"refresh"} : Queued(task)
    <3>1. "scan" \in Tasks \ {"refresh"} /\ "dirty" \in Tasks \ {"refresh"}
        BY DEF Tasks
    <3> QED
        BY <1>1, <3>1
           DEF EventsArrive, DebounceFires, WatcherFails, ScanRequested, RequestFullScan
  <2>3. dirty \subseteq dirty'
      BY <1>1 DEF EventsArrive, DebounceFires, WatcherFails, ScanRequested
  <2> QED
      BY <2>1, <2>2, <2>3, SameRefresh
<1>2. CASE RefreshCalled
    BY <1>2, CallRefresh
<1> QED
    BY <1>1, <1>2 DEF Asks

(* The chain gets a job, or its job reads.                                 *)
LEMMA JobRefresh ==
    ASSUME Base, Inv2, NEW j2 \in Job, jobs' = [jobs EXCEPT !["queue"] = j2],
           UNCHANGED <<past, snapshot, tasks, refresh>>,
           Busy => j2.since = job.since /\ dirty \subseteq dirty',
           ~Busy => /\ j2.since = Now
                    /\ j2.kind = "scan" \/ dirty \subseteq j2.todo,
           \A q \in Paths : Busy => \/ j2.kind = "scan"
                                    \/ q \in dirty' /\ Head(tasks) # "refresh"
                                    \/ job.kind # "scan"
                                       /\ \/ q \in j2.todo \union j2.unsettled
                                          \/ Sight(j2, q) \in {Unknown, Own(tree, q)}
                                          \/ /\ q \notin job.todo \union job.unsettled
                                             /\ Sight(j2, q) = Sight(job, q)
    PROVE  Inv2'
<1>1. RefreshQueued'
    BY QueuedKept DEF Base, Inv2
<1>2. /\ jobs'["queue"] = j2 /\ j2 # None /\ job' = j2 /\ Busy'
    BY SetJob, WatcherAssumption DEF Base, job, Busy, Slots
<1>3. Fresh' = Fresh
    BY DEF Fresh, Shown, Sight, Reads, Now, Own, At, Entry
<1> PICK q, r : q = refresh.path /\ r = refresh.since
    OBVIOUS
<1>4. ASSUME refresh.pc \in {"waiting", "done"}
      PROVE  /\ q \in Paths /\ r \in 1 .. Now /\ Own(tree, q) \in Reads(q, r)
             /\ Reads(refresh.path, refresh.since)' = Reads(q, r)
  <2>1. q \in Paths /\ r \in 1 .. Now
      BY <1>4 DEF Inv2, RefreshQueued, Paths
  <2>2. Now \in r .. Now
      BY <2>1, NowFacts DEF Base
  <2> QED
      BY <2>1, <2>2 DEF Reads, tree, Now
<1>5. ASSUME refresh.pc \in {"waiting", "done"}, Later PROVE Later'
  <2>1. Now >= r
      BY <1>4, <1>5, NowFacts DEF Base
  <2> QED
      BY <1>2, <1>5, <2>1 DEF Later
<1>6. ASSUME refresh.pc \in {"waiting", "done"}, Busy, Covers
      PROVE  Covers' \/ (q \in dirty' /\ Head(tasks) # "refresh")
  <2>0. CASE q \in dirty' /\ Head(tasks) # "refresh"
      BY <2>0
  <2> SUFFICES ASSUME ~(q \in dirty' /\ Head(tasks) # "refresh") PROVE Covers'
      BY <2>0
  <2>1. \/ j2.kind = "scan"
        \/ job.kind # "scan"
           /\ \/ q \in j2.todo \union j2.unsettled
              \/ Sight(j2, q) \in {Unknown, Own(tree, q)}
              \/ /\ q \notin job.todo \union job.unsettled
                 /\ Sight(j2, q) = Sight(job, q)
      BY <1>4, <1>6
  <2>2. \/ job.kind = "scan"
        \/ q \in job.todo \union job.unsettled
        \/ Sight(job, q) \in {Unknown} \union Reads(q, r)
      BY <1>6 DEF Covers
  <2>3. \/ j2.kind = "scan"
        \/ q \in j2.todo \union j2.unsettled
        \/ Sight(j2, q) \in {Unknown} \union Reads(q, r)
      BY <1>4, <1>6, <2>1, <2>2
  <2>4. Covers' <=> \/ j2.kind = "scan"
                    \/ q \in j2.todo \union j2.unsettled
                    \/ Sight(j2, q) \in {Unknown} \union Reads(q, r)
      BY <1>2, <1>4, <1>6 DEF Covers, Sight
  <2> QED
      BY <2>3, <2>4
<1>7. ASSUME refresh.pc = "waiting", ~Busy, q \in dirty PROVE Covers' /\ Later'
  <2>1. j2.kind = "scan" \/ q \in j2.todo
      BY <1>7
  <2>2. Covers'
      BY <1>2, <2>1 DEF Covers
  <2>3. Now >= r /\ j2.since = Now
      BY <1>4, <1>7, NowFacts DEF Base
  <2> QED
      BY <1>2, <2>2, <2>3 DEF Later
<1>8. RefreshTrue'
  <2>1. CASE refresh.pc = "waiting" /\ ~refresh.skipped
    <3>1. CASE q \in dirty /\ (Busy => Head(tasks) # "refresh")
      <4>1. CASE Busy
          BY <2>1, <3>1, <4>1 DEF RefreshTrue
      <4>2. CASE ~Busy
          BY <1>2, <1>7, <2>1, <3>1, <4>2 DEF RefreshTrue
      <4> QED
          BY <4>1, <4>2
    <3>2. CASE Later /\ (Fresh \/ (Busy /\ Covers))
        BY <1>2, <1>3, <1>5, <1>6, <2>1, <3>2 DEF RefreshTrue
    <3> QED
        BY <2>1, <3>1, <3>2 DEF Inv2, RefreshTrue
  <2>2. CASE refresh.pc = "done" /\ ~refresh.skipped
    <3>1. Later /\ Fresh
        BY <2>2 DEF Inv2, RefreshTrue
    <3> QED
        BY <1>3, <1>5, <2>2, <3>1 DEF RefreshTrue
  <2> QED
      BY <2>1, <2>2 DEF RefreshTrue
<1> QED
    BY <1>1, <1>8 DEF Inv2

(* Nobody calls before the subscription.                                   *)
LEMMA EarlyRefresh ==
    ASSUME Base, refresh.pc = "none", refresh' = refresh,
           tasks' \in {<<>>, <<"scan">>}
    PROVE  Inv2'
<1>1. \A i \in 1 .. Len(tasks') : tasks'[i] # "refresh"
    OBVIOUS
<1> QED
    BY <1>1 DEF Inv2, RefreshQueued, RefreshTrue

LEMMA RefreshKept == Base /\ JobsTrue /\ Inv2 /\ [Next]_vars => Inv2'
<1> SUFFICES ASSUME Base, JobsTrue, Inv2, [Next]_vars PROVE Inv2'
    OBVIOUS
<1>0. TypeOK /\ "queue" \in Slots
    BY DEF Base, Slots
<1>1. CASE Subscribes \/ UNCHANGED vars
  <2>1. UNCHANGED <<past, snapshot, jobs, refresh, tasks, dirty>>
      BY <1>1 DEF Subscribes, disk, watch, vars
  <2> QED
      BY <2>1, SameRefresh
<1>2. ASSUME NEW s \in Slots, Begins(s) PROVE Inv2'
  <2>1. CASE s = "queue"
    <3> DEFINE j2 == Scan
    <3>1. /\ j2 \in Job /\ j2.kind = "scan" /\ j2.since = Now /\ ~Busy
          /\ jobs' = [jobs EXCEPT !["queue"] = j2] /\ UNCHANGED <<past, snapshot, tasks, refresh>>
        BY <1>0, <1>2, <2>1, BeginFacts, ScanFacts DEF disk, Busy, job
    <3> HIDE DEF j2
    <3> QED
        BY <3>1, JobRefresh
  <2>2. CASE s = "starter"
    <3>1. phase = "down" /\ tasks' = <<"scan">> /\ refresh' = refresh
        BY <1>2, <2>2, BeginFacts
    <3> QED
        BY <3>1, NoCaller, EarlyRefresh DEF Inv2
  <2> QED
      BY <2>1, <2>2 DEF Slots
<1>3. CASE BatchTaken
  <2> DEFINE j2 == Batch
  <2>1. /\ j2 \in Job /\ j2.todo = dirty /\ j2.since = Now /\ ~Busy
        /\ jobs' = [jobs EXCEPT !["queue"] = j2] /\ UNCHANGED <<past, snapshot, tasks, refresh>>
      BY <1>3, TakenIs DEF disk, Busy, job
  <2> HIDE DEF j2
  <2> QED
      BY <2>1, JobRefresh
<1>4. ASSUME NEW s \in Slots, Scans(s) PROVE Inv2'
  <2> PICK j2 \in Job : jobs' = [jobs EXCEPT ![s] = j2] /\ ScanLooks(jobs[s], j2)
      BY <1>4 DEF Scans
  <2>1. /\ UNCHANGED <<past, snapshot, tasks, refresh, dirty>> /\ jobs[s] # None
        /\ j2.kind = "scan" /\ j2.since = jobs[s].since
      BY <1>4, ScanShapeKept DEF Scans, disk, watch
  <2>2. CASE s = "queue"
    <3>1. Busy /\ job = jobs[s]
        BY <2>1, <2>2 DEF Busy, job
    <3> QED
        BY <2>1, <2>2, <3>1, JobRefresh
  <2>3. CASE s = "starter"
    <3>1. phase = "scanning" /\ tasks \in {<<>>, <<"scan">>}
        BY <2>1, <2>3 DEF Base, Ordered
    <3> QED
        BY <2>1, <3>1, NoCaller, EarlyRefresh DEF Inv2
  <2> QED
      BY <2>2, <2>3 DEF Slots
<1>5. CASE Batches
  <2> PICK j2 \in Job, p \in Paths :
          jobs' = [jobs EXCEPT !["queue"] = j2] /\ BatchLooksAt(job, j2, p)
      BY <1>5 DEF Batches
  <2>1. /\ UNCHANGED <<past, snapshot, tasks, refresh, dirty>> /\ Busy
        /\ j2.since = job.since /\ job.kind # "scan" /\ job \in Job /\ BatchShape(job)
      BY <1>5, BatchShapeKept DEF Batches, disk, watch, Busy
  <2> PICK j : j = job
      OBVIOUS
  <2>2. \A q \in Paths : \/ q \in j2.todo \union j2.unsettled
                         \/ Sight(j2, q) \in {Unknown, Own(tree, q)}
                         \/ q \notin j.todo \union j.unsettled /\ Sight(j2, q) = Sight(j, q)
      BY <2>1, BatchAnswers
  <2> QED
      BY <2>1, <2>2, JobRefresh
<1>7. CASE Postpones
  <2> PICK j2 \in Job : /\ jobs' = [jobs EXCEPT !["queue"] = j2] /\ Same(job, j2)
                        /\ j2.unsettled = {}
      BY <1>7 DEF Postpones
  <2>1. /\ UNCHANGED <<past, snapshot, tasks, refresh>> /\ Busy /\ job.kind = "dirty"
        /\ dirty' = dirty \union job.unsettled /\ j2.since = job.since
      BY <1>7 DEF Postpones, Same, disk, Busy
  <2>2. Head(tasks) = "dirty"
      BY <2>1 DEF Base, Ordered, Busy, job
  <2>3. \A q \in Paths : Sight(j2, q) = Sight(job, q)
      BY DEF Same, Sight
  <2>4. \A q \in Paths : \/ q \in dirty' /\ Head(tasks) # "refresh"
                         \/ q \in j2.todo \union j2.unsettled
                         \/ q \notin job.todo \union job.unsettled
      BY <2>1, <2>2 DEF Same
  <2> PICK j : j = job
      OBVIOUS
  <2>5. \A q \in Paths : \/ q \in dirty' /\ Head(tasks) # "refresh"
                         \/ q \in j2.todo \union j2.unsettled
                         \/ q \notin j.todo \union j.unsettled /\ Sight(j2, q) = Sight(j, q)
      BY <2>3, <2>4
  <2> QED
      BY <2>1, <2>5, JobRefresh
<1>6. ASSUME NEW s \in Slots, Leaves(s) PROVE Inv2'
  <2>1. CASE s = "queue"
      BY <1>6, <2>1, QueueRefresh
  <2>2. CASE s = "starter"
    <3>1. phase = "scanning" /\ tasks' = tasks /\ refresh' = refresh
        BY <1>6, <2>2, EndFacts
    <3>2. tasks \in {<<>>, <<"scan">>}
        BY <3>1 DEF Base, Ordered
    <3> QED
        BY <3>1, <3>2, NoCaller, EarlyRefresh DEF Inv2
  <2> QED
      BY <2>1, <2>2 DEF Slots
<1> QED
    BY <1>1, <1>2, <1>3, <1>4, <1>5, <1>6, <1>7, Steps, WorldRefresh, AsksRefresh

(* refreshNow(): the next cycle sees what was written, or something newer, *)
(* unless a scan was requested in between, the root is away or a folder of *)
(* the batch cannot be read (watcher.ts:122).                              *)
THEOREM RefreshSeesTheWrite == Spec => []RefreshHolds
<1>1. Init => Inv2
    BY DEF Init, NoRefresh, Inv2, RefreshQueued, RefreshTrue
<1>2. Base /\ Inv2 => RefreshHolds
  <2> SUFFICES ASSUME Base, Inv2, refresh.pc = "done", ~refresh.skipped
               PROVE  Shown(refresh.path)
                         \in {Unknown} \union View!Seen(refresh.path, refresh.since)
      BY DEF RefreshHolds
  <2>1. Fresh
      BY DEF Inv2, RefreshTrue
  <2>2. Reads(refresh.path, refresh.since) \subseteq View!Seen(refresh.path, refresh.since)
      BY DEF Reads, View!Seen, Now
  <2> QED
      BY <2>1, <2>2 DEF Fresh
<1> QED
    BY <1>1, <1>2, BaseHolds, JobsTrueHolds, RefreshKept, PTL DEF Spec

-----------------------------------------------------------------------------
(* A watcher that caught up.                                               *)

LEMMA WantFacts ==
    ASSUME TypeOK, NEW p \in Paths
    PROVE  /\ tree \in Tree /\ Own(tree, p) \in Fingerprint \union {None}
           /\ Own(tree, p) # Unknown
           /\ Want(p) = IF Hidden(tree, p) THEN Unknown ELSE Own(tree, p)
           /\ Hidden(tree, p) <=> Want(p) = Unknown
<1>1. tree \in Tree
    BY NowFacts
<1>2. Own(tree, p) \in Fingerprint \union {None}
    BY <1>1, OwnFacts
<1> QED
    BY <1>1, <1>2, WatcherAssumption DEF Want

LEMMA TopRight ==
    ASSUME Base, NEW j \in Job, j.kind = "scan", ScanShape(j), NEW j2 \in Job,
           ListsTop(j, j2), NEW p \in Paths
    PROVE  Right(j2, p) /\ Marked(j2, p)
<1> DEFINE C == {q \in Paths : Up(q) = Top \/ At(tree, Up(q)) = None}
           U == {d \in Dirs : At(tree, d) # None /\ At(tree, d).kind = "link"}
           h == Home(p)
<1>0. /\ tree \in Tree /\ Looked(j, j2, C, U) /\ U \in SUBSET Dirs /\ j.unsyncable = {}
      /\ j2.todo = {d \in Dirs : Own(tree, d) # None}
      /\ Want(p) = IF Hidden(tree, p) THEN Unknown ELSE Own(tree, p)
      /\ Hidden(tree, p) <=> /\ h # Top /\ At(tree, h) # None
                             /\ At(tree, h).kind = "link" \/ ~At(tree, h).open
    BY WantFacts, HiddenFacts DEF Base, ListsTop, ScanShape
<1>1. Marked(j2, p)
  <2> SUFFICES ASSUME p \in j2.todo PROVE j2.entries[p] = Own(tree, p)
      BY DEF Marked
  <2>1. p \in Dirs /\ Own(tree, p) # None
      BY <1>0
  <2>2. p \in C
      BY <2>1, PathFacts
  <2>3. Shows(j2.entries, p) = Own(tree, p)
      BY <1>0, <2>2 DEF Looked
  <2> QED
      BY <2>1, <2>3 DEF Shows
<1>2. CASE h = Top
  <2>1. p \in C /\ h \notin U /\ ~Hidden(tree, p)
      BY <1>0, <1>2, PathFacts, WatcherAssumption DEF Paths, Home
  <2>2. Sight(j2, p) = Own(tree, p)
    <3> HIDE DEF C, U
    <3> QED
        BY <1>0, <2>1, LookedSight
  <2> QED
      BY <1>0, <1>1, <2>1, <2>2 DEF Right
<1>3. CASE h # Top
  <2>0. h \in Dirs /\ h \in Upto(p) /\ h \in Paths /\ Up(h) = Top
      BY <1>3, PathFacts DEF Paths
  <2>1. CASE Own(tree, h) # None
      BY <1>0, <1>1, <2>0, <2>1 DEF Right
  <2>2. CASE At(tree, h) = None
    <3>1. p \in C
        BY <2>0, <2>2, PathFacts DEF Home
    <3>2. h \notin U /\ ~Hidden(tree, p)
        BY <1>0, <2>2
    <3>3. Sight(j2, p) = Own(tree, p)
      <4> HIDE DEF C, U
      <4> QED
          BY <1>0, <3>1, <3>2, LookedSight
    <3> QED
        BY <1>0, <1>1, <3>2, <3>3 DEF Right
  <2>3. CASE At(tree, h) # None /\ Own(tree, h) = None
    <3>1. At(tree, h).kind = "link"
        BY <1>0, <2>0, <2>3, OwnFacts
    <3>2. h \in U /\ Hidden(tree, p)
        BY <1>0, <1>3, <2>0, <2>3, <3>1
    <3>3. Sight(j2, p) = Unknown
      <4> HIDE DEF C, U
      <4> QED
          BY <1>0, <3>2, LookedSight
    <3> QED
        BY <1>0, <1>1, <3>2, <3>3 DEF Right
  <2> QED
      BY <2>1, <2>2, <2>3
<1> QED
    BY <1>2, <1>3

(* A folder of a scan, of which is known what it was when it was found.    *)
LEMMA FolderRight ==
    ASSUME Base, NEW j \in Job, j.kind = "scan", ScanShape(j), NEW j2 \in Job,
           NEW d \in Dirs, ListsFolder(j, j2, d) \/ ShutFolder(j, j2, d), NEW p \in Paths,
           Right(j, p), Marked(j, p), Home(p) = d => Marked(j, d)
    PROVE  Right(j2, p) /\ Marked(j2, p)
<1> DEFINE h == Home(p)
<1>0. /\ tree \in Tree /\ d \in j.todo /\ Top \notin j.todo /\ j.todo \subseteq Dirs
      /\ j2.todo = j.todo \ {d} /\ j2.unsettled = j.unsettled /\ j.unsettled = {}
      /\ d \notin j.unsyncable /\ d \in Paths /\ d # Top /\ d \in DOMAIN j.entries
      /\ j.entries \in Entries /\ Top \notin Dirs
      /\ Want(p) = IF Hidden(tree, p) THEN Unknown ELSE Own(tree, p)
      /\ Hidden(tree, p) <=> /\ h # Top /\ At(tree, h) # None
                             /\ At(tree, h).kind = "link" \/ ~At(tree, h).open
    BY WantFacts, HiddenFacts, WatcherAssumption
       DEF Base, ListsFolder, ShutFolder, ScanShape, Paths, Job
<1>1. Marked(j2, p)
  <2> SUFFICES ASSUME p \in j2.todo PROVE j2.entries[p] = Own(tree, p)
      BY DEF Marked
  <2>1. p \in j.todo /\ p \in Dirs /\ j.entries[p] = Own(tree, p) /\ p \in DOMAIN j.entries
      BY <1>0 DEF Marked, ScanShape
  <2>2. p \notin Below(d)
      BY <1>0, <2>1, PathFacts DEF Below
  <2>3. Shows(j2.entries, p) = Shows(j.entries, p)
      BY <2>2 DEF ListsFolder, ShutFolder, Looked
  <2>4. Own(tree, p) # None
      BY <1>0, <2>1, ShowsFacts DEF Shows
  <2> QED
      BY <2>1, <2>3, <2>4 DEF Shows
<1>2. CASE h = d
  <2>1. Own(tree, d) = j.entries[d] /\ Own(tree, d) # None
    <3>1. Own(tree, d) = j.entries[d]
        BY <1>0, <1>2 DEF Marked
    <3>2. Shows(j.entries, d) # None
        BY <1>0, ShowsFacts
    <3> QED
        BY <1>0, <3>1, <3>2 DEF Shows
  <2>2. At(tree, d) # None /\ At(tree, d).kind # "link" /\ At(tree, d).kind = "dir"
    <3>1. At(tree, d) # None /\ At(tree, d).kind # "link" /\ At(tree, d) \in Node
          /\ At(tree, d).kind # "file"
        BY <1>0, <2>1, OwnFacts, AtFacts
    <3> QED
        BY <3>1 DEF Node
  <2>3. p = d \/ p \in Below(d)
      BY <1>2, PathFacts
  <2>4. CASE ListsFolder(j, j2, d)
    <3>1. Looked(j, j2, Below(d), {}) /\ At(tree, d).open
        BY <1>0, <2>4 DEF ListsFolder, Listable
    <3>2. ~Hidden(tree, p)
        BY <1>0, <1>2, <2>2, <3>1
    <3>3. CASE p = d
      <4>1. p \notin Below(d)
          BY <1>0, <3>3, PathFacts DEF Below
      <4>2. Sight(j2, p) = Sight(j, p)
          BY <3>1, <4>1, LookedSight
      <4>3. Sight(j, p) = Shows(j.entries, p)
          BY <1>0, <1>2, SightFacts DEF Job
      <4>4. Shows(j.entries, p) = Own(tree, p)
          BY <1>0, <2>1, <3>3 DEF Shows
      <4> QED
          BY <1>0, <1>1, <3>2, <4>2, <4>3, <4>4 DEF Right
    <3>4. CASE p \in Below(d)
      <4>1. Sight(j2, p) = Own(tree, p)
          BY <1>0, <1>2, <3>1, <3>4, LookedSight
      <4> QED
          BY <1>0, <1>1, <3>2, <4>1 DEF Right
    <3> QED
        BY <2>3, <3>3, <3>4
  <2>5. CASE ShutFolder(j, j2, d)
    <3>1. Looked(j, j2, {}, {d}) /\ ~At(tree, d).open /\ {d} \in SUBSET Dirs
        BY <1>0, <2>2, <2>5 DEF ShutFolder, Listable
    <3>2. Hidden(tree, p)
        BY <1>0, <1>2, <2>2, <3>1
    <3>3. Sight(j2, p) = Unknown
        BY <1>2, <3>1, LookedSight
    <3> QED
        BY <1>0, <1>1, <3>2, <3>3 DEF Right
  <2> QED
      BY <2>4, <2>5
<1>3. CASE h # d
  <2>1. d \notin Upto(p) /\ p \notin Below(d)
      BY <1>0, <1>3, PathFacts DEF Below, Home, Upto
  <2>2. Sight(j2, p) = Sight(j, p)
    <3>1. Looked(j, j2, Below(d), {}) \/ Looked(j, j2, {}, {d})
        BY DEF ListsFolder, ShutFolder
    <3> QED
        BY <1>3, <2>1, <3>1, LookedSight
  <2>3. ({Top} \union Upto(p)) \intersect (j2.todo \union j2.unsettled)
         = ({Top} \union Upto(p)) \intersect (j.todo \union j.unsettled)
      BY <1>0, <2>1
  <2> QED
      BY <1>1, <2>2, <2>3 DEF Right
<1> QED
    BY <1>2, <1>3

LEMMA ScanRight ==
    ASSUME Base, NEW j \in Job, j.kind = "scan", ScanShape(j), NEW j2 \in Job,
           ScanLooks(j, j2), NEW p \in Paths,
           Right(j, p), Marked(j, p), Home(p) # Top => Marked(j, Home(p))
    PROVE  Right(j2, p) /\ Marked(j2, p)
<1>1. \A d \in Dirs : Home(p) = d => Marked(j, d)
    BY WatcherAssumption DEF Paths
<1>2. CASE LooksAtRoot(j, j2)
  <2>1. Sight(j2, p) = Sight(j, p)
      BY <1>2, LookedSight DEF LooksAtRoot
  <2>2. /\ j2.todo = j.todo /\ j2.unsettled = j.unsettled /\ j.unsettled = {}
        /\ p \notin j2.todo
      BY <1>2, WatcherAssumption DEF LooksAtRoot, ScanShape
  <2> QED
      BY <2>1, <2>2 DEF Right, Marked
<1> QED
    BY <1>1, <1>2, TopRight, FolderRight DEF ScanLooks

LEMMA BatchRight ==
    ASSUME Base, NEW j \in Job, j.kind # "scan", BatchShape(j), NEW j2 \in Job,
           NEW x \in Paths, BatchLooksAt(j, j2, x), NEW p \in Paths,
           Right(j, p), Home(p) # Top => Right(j, Home(p))
    PROVE  Right(j2, p)
<1> DEFINE h == Home(p)
<1>0. /\ tree \in Tree /\ x \in j.todo /\ (Upto(x) \ {x}) \intersect j.todo = {} /\ x # Top
      /\ j.todo \intersect j.unsyncable = {} /\ j.unsettled \subseteq Files
      /\ j.unsyncable \subseteq Dirs /\ Top \notin Dirs /\ Top \notin j.todo \union j.unsettled
      /\ Want(p) = IF Hidden(tree, p) THEN Unknown ELSE Own(tree, p)
      /\ Hidden(tree, p) <=> /\ h # Top /\ At(tree, h) # None
                             /\ At(tree, h).kind = "link" \/ ~At(tree, h).open
      /\ j.entries \in Entries
      /\ x \in Files => x \notin Dirs
    BY WantFacts, HiddenFacts, PathFacts, WatcherAssumption
       DEF Base, BatchLooksAt, BatchShape, Paths, Job
    (* A file that is looked at is hidden exactly when the job says so. *)
<1>1. ASSUME x \in Files, p = x PROVE h \in j.unsyncable <=> Hidden(tree, p)
  <2>1. CASE h = Top
      BY <1>0, <2>1
  <2>2. CASE h # Top
    <3>1. h \in Dirs /\ h \in Paths /\ h \in Upto(x) \ {x} /\ Upto(h) = {h} /\ Home(h) = h
        BY <1>0, <1>1, <2>2, PathFacts DEF Paths, Home, Upto
    <3>2. h \notin j.todo /\ h \notin j.unsettled
        BY <1>0, <3>1, WatcherAssumption
    <3>3. Sight(j, h) = Want(h)
        BY <1>0, <2>2, <3>1, <3>2 DEF Right
    <3>4. /\ Sight(j, h) = IF h \in j.unsyncable THEN Unknown ELSE Shows(j.entries, h)
          /\ Shows(j.entries, h) # Unknown
        BY <1>0, <3>1, SightFacts, ShowsFacts, WatcherAssumption
    <3>5. Hidden(tree, h) <=> h \in j.unsyncable
        BY <3>1, <3>3, <3>4, WantFacts DEF Base
    <3>6. Hidden(tree, h) <=> /\ At(tree, h) # None
                              /\ At(tree, h).kind = "link" \/ ~At(tree, h).open
        BY <1>0, <2>2, <3>1, HiddenFacts
    <3> QED
        BY <1>0, <2>2, <3>5, <3>6
  <2> QED
      BY <2>1, <2>2
<1>2. ASSUME NEW C, NEW U \in SUBSET Dirs, Refreshes(j, j2, x, C, U), U \subseteq {x},
             C \subseteq {x} \union Below(x), x \notin Upto(p)
      PROVE  Right(j2, p)
  <2>1. p \notin C /\ h \notin U
      BY <1>0, <1>2, PathFacts DEF Below, Home, Upto
  <2>2. Sight(j2, p) = Sight(j, p)
      BY <1>2, <2>1, LookedSight DEF Refreshes
  <2>3. ({Top} \union Upto(p)) \intersect (j2.todo \union j2.unsettled)
         = ({Top} \union Upto(p)) \intersect (j.todo \union j.unsettled)
      BY <1>0, <1>2 DEF Refreshes
  <2> QED
      BY <2>2, <2>3 DEF Right
<1>3. x \in Upto(p) => p = x \/ (x \in Dirs /\ h = x /\ p \in Below(x))
    BY <1>0, PathFacts DEF Below, Home, Upto
<1>4. x \in Dirs /\ x \in Upto(p) => h = x /\ p \in {x} \union Below(x)
    BY <1>0, <1>3, PathFacts
<1>5. ASSUME NEW C, Refreshes(j, j2, x, C, {}), p \in C, ~Hidden(tree, p), h \notin j.unsyncable
      PROVE  Right(j2, p)
  <2>1. Looked(j, j2, C, {})
      BY <1>5 DEF Refreshes
  <2>2. Sight(j2, p) = Own(tree, p)
      BY <1>5, <2>1, LookedSight
  <2> QED
      BY <1>0, <1>5, <2>2 DEF Right
<1>6. ASSUME Looked(j, j2, {}, {}), j2.todo \union j2.unsettled = j.todo \union j.unsettled
      PROVE  Right(j2, p)
  <2>1. Sight(j2, p) = Sight(j, p)
      BY <1>6, LookedSight
  <2> QED
      BY <1>6, <2>1 DEF Right
<1>7. ASSUME x \in Files, p = x, NEW C, Refreshes(j, j2, x, C, {}), p \in C
      PROVE  Right(j2, p)
  <2>1. CASE h \in j.unsyncable
    <3>1. Hidden(tree, p)
        BY <1>1, <1>7, <2>1
    <3>2. Sight(j2, p) = Unknown
      <4>1. j2.unsyncable = j.unsyncable /\ j2.unsyncable \subseteq Dirs
          BY <1>7 DEF Refreshes, Looked, Job
      <4> QED
          BY <2>1, <4>1, SightFacts
    <3> QED
        BY <1>0, <3>1, <3>2 DEF Right
  <2>2. CASE h \notin j.unsyncable
      BY <1>1, <1>5, <1>7, <2>2
  <2> QED
      BY <2>1, <2>2
<1>8. CASE At(tree, x) = None /\ Refreshes(j, j2, x, {x} \union Below(x), {})
  <2>1. CASE x \notin Upto(p)
      BY <1>2, <1>8, <2>1
  <2>2. CASE x \in Upto(p) /\ x \in Dirs
      BY <1>0, <1>4, <1>5, <1>8, <2>2
  <2>3. CASE x \in Upto(p) /\ x \in Files
      BY <1>0, <1>3, <1>7, <1>8, <2>3
  <2> QED
      BY <2>1, <2>2, <2>3 DEF Paths
<1>9. CASE /\ x \in Dirs /\ At(tree, x) # None /\ At(tree, x).kind = "link"
           /\ Refreshes(j, j2, x, {x}, {x})
  <2>1. CASE x \notin Upto(p)
      BY <1>2, <1>9, <2>1
  <2>2. CASE x \in Upto(p)
    <3>1. Looked(j, j2, {x}, {x}) /\ {x} \in SUBSET Dirs
        BY <1>9 DEF Refreshes
    <3>2. Sight(j2, p) = Unknown
        BY <1>4, <1>9, <2>2, <3>1, LookedSight
    <3>3. Hidden(tree, p)
        BY <1>0, <1>4, <1>9, <2>2
    <3> QED
        BY <1>0, <3>2, <3>3 DEF Right
  <2> QED
      BY <2>1, <2>2
<1>10. CASE x \in Files /\ Refreshes(j, j2, x, {x}, {})
  <2>1. CASE x \notin Upto(p)
      BY <1>2, <1>10, <2>1
  <2>2. CASE x \in Upto(p)
      BY <1>0, <1>3, <1>7, <1>10, <2>2
  <2> QED
      BY <2>1, <2>2
<1>11. CASE x \in Dirs /\ Listable(tree, x) /\ Refreshes(j, j2, x, {x} \union Below(x), {})
  <2>1. CASE x \notin Upto(p)
      BY <1>2, <1>11, <2>1
  <2>2. CASE x \in Upto(p)
    <3>1. ~Hidden(tree, p)
        BY <1>0, <1>4, <1>11, <2>2 DEF Listable
    <3> QED
        BY <1>0, <1>4, <1>5, <1>11, <2>2, <3>1
  <2> QED
      BY <2>1, <2>2
<1>12. CASE /\ j2.todo = j.todo \ {x} /\ j2.unsettled = j.unsettled \union {x}
            /\ Looked(j, j2, {}, {})
    BY <1>0, <1>6, <1>12
<1>13. CASE j2.todo = j.todo /\ j2.unsettled = j.unsettled /\ Looked(j, j2, {}, {})
    BY <1>6, <1>13
<1> QED
    BY <1>8, <1>9, <1>10, <1>11, <1>12, <1>13 DEF BatchLooksAt

(* What changes at a path is not seen at others.                           *)
LEMMA ElsewhereSame ==
    ASSUME NEW t \in Tree, NEW u \in Tree, u.root = t.root, NEW x \in Paths,
           \A q \in Paths \ ({x} \union Below(x)) : u.items[q] = t.items[q],
           NEW p \in Paths, p \notin {x} \union Below(x)
    PROVE  Own(u, p) = Own(t, p) /\ Hidden(u, p) = Hidden(t, p)
<1>1. ASSUME NEW q \in Paths, q \notin {x} \union Below(x) PROVE At(u, q) = At(t, q)
  <2>1. u.items[q] = t.items[q]
      BY <1>1
  <2>2. ASSUME Up(q) # Top PROVE u.items[Up(q)] = t.items[Up(q)] /\ Up(Up(q)) = Top
    <3>1. Up(q) \in Dirs /\ Up(q) \in Paths /\ Up(q) # x
        BY <1>1, <2>2, PathFacts DEF Paths, Below
    <3>2. Up(q) \notin Below(x)
        BY <3>1, PathFacts
    <3> QED
        BY <3>1, <3>2, PathFacts
  <2>3. Stands(u, q) = Stands(t, q)
      BY <2>1, <2>2 DEF Stands
  <2>4. Up(q) # Top => Stands(u, Up(q)) = Stands(t, Up(q))
      BY <2>2 DEF Stands
  <2> QED
      BY <2>3, <2>4 DEF At
<1>2. At(u, p) = At(t, p)
    BY <1>1
<1>3. Own(u, p) = Own(t, p)
    BY <1>2 DEF Own
<1>4. Home(p) # Top => At(u, Home(p)) = At(t, Home(p))
  <2> SUFFICES ASSUME Home(p) # Top PROVE At(u, Home(p)) = At(t, Home(p))
      OBVIOUS
  <2>1. /\ Home(p) \in Paths /\ Home(p) \in Dirs /\ Home(p) # x
        BY PathFacts DEF Paths
  <2>2. Home(p) \notin Below(x)
      BY <2>1, PathFacts
  <2> QED
      BY <1>1, <2>1, <2>2
<1>5. Hidden(u, p) <=> Hidden(t, p)
    BY <1>4, HiddenFacts
<1>6. Hidden(u, p) \in BOOLEAN /\ Hidden(t, p) \in BOOLEAN
    BY DEF Hidden
<1> QED
    BY <1>3, <1>5, <1>6

(* What is requested, or dirty, keeps a task.                              *)
LEMMA EndDue ==
    ASSUME Base, Leaves("queue")
    PROVE  /\ ~Busy => Head(tasks) # "scan"
           /\ \/ dirty' = {}
              \/ ~Busy /\ requested
              \/ Busy /\ (debounce' \/ (dirty # {} /\ debounce' = debounce))
<1>1. CASE ScanFindsNoRoot("queue") \/ BatchFindsNoRoot
  <2>1. dirty' = {}
      BY <1>1 DEF ScanFindsNoRoot, BatchFindsNoRoot, RootMissing
  <2>2. ~Busy => Head(tasks) # "scan"
      BY <1>1 DEF ScanFindsNoRoot, BatchFindsNoRoot, NextTask, Scanning, Busy, job
  <2> QED
      BY <2>1, <2>2
<1>2. CASE ScanEnds("queue")
  <2>1. Busy
      BY <1>2 DEF ScanEnds, Scanning, Busy, job
  <2>2. dirty' \in {{}, dirty} /\ debounce' = debounce
      BY <1>2 DEF ScanEnds
  <2> QED
      BY <2>1, <2>2
<1>3. CASE BatchSkipped
  <2>1. /\ ~Busy /\ Head(tasks) # "scan" /\ dirty' = dirty
        /\ requested \/ dirty = {}
      BY <1>3 DEF BatchSkipped, NextTask, Busy, job
  <2> QED
      BY <2>1
<1>4. CASE BatchThrows
  <2>1. Busy /\ dirty' = dirty /\ debounce' = debounce
      BY <1>4 DEF BatchThrows, Working, Busy
  <2> QED
      BY <2>1
<1>5. CASE BatchEnds
  <2>1. Busy /\ dirty' = dirty /\ debounce' = debounce
      BY <1>5 DEF BatchEnds, Working, Busy
  <2> QED
      BY <2>1
<1> QED
    BY <1>1, <1>2, <1>3, <1>4, <1>5 DEF Leaves, BatchLeaves

LEMMA DuesKept == Base /\ ScanDue /\ BatchDue /\ [Next]_vars => ScanDue' /\ BatchDue'
<1> SUFFICES ASSUME Base, ScanDue, BatchDue, [Next]_vars PROVE ScanDue' /\ BatchDue'
    OBVIOUS
<1>0. /\ TypeOK /\ tasks \in Seq(Tasks) /\ Len(tasks) \in Nat /\ "queue" \in Slots
      /\ Behind \in {0, 1}
      /\ Busy => tasks # <<>> /\ Len(tasks) >= 1
      /\ Busy <=> Behind = 1
  <2>1. TypeOK /\ tasks \in Seq(Tasks) /\ "queue" \in Slots
      BY DEF Base, TypeOK, Slots
  <2>2. Busy => tasks # <<>>
      BY <2>1 DEF TypeOK, Busy, job
  <2> QED
      BY <2>1, <2>2 DEF Behind
<1>1. ASSUME UNCHANGED <<requested, dirty, debounce, tasks>>, Busy' = Busy
      PROVE  ScanDue' /\ BatchDue'
  <2>1. Behind' = Behind
      BY <1>1 DEF Behind
  <2> QED
      BY <1>1, <2>1 DEF ScanDue, BatchDue
<1>2. ASSUME ~requested', dirty' = {} PROVE ScanDue' /\ BatchDue'
    BY <1>2 DEF ScanDue, BatchDue
<1>3. CASE World \/ Subscribes \/ UNCHANGED vars
  <2>1. UNCHANGED <<requested, dirty, debounce, tasks, jobs>>
      BY <1>0, <1>3, WorldFacts DEF Subscribes, watch, vars
  <2> QED
      BY <1>1, <2>1 DEF Busy, job
<1>4. CASE Asks
  <2>0. UNCHANGED jobs /\ (tasks' = tasks \/ \E task \in Tasks : Queued(task))
      BY <1>0, <1>4, AsksFacts
  <2>1. /\ Len(tasks') >= Len(tasks) /\ Len(tasks') \in Nat
        /\ \A i \in 1 .. Len(tasks) : tasks'[i] = tasks[i]
    <3>1. ASSUME NEW task \in Tasks, Queued(task)
          PROVE  /\ Len(tasks') >= Len(tasks) /\ Len(tasks') \in Nat
                 /\ \A i \in 1 .. Len(tasks) : tasks'[i] = tasks[i]
        BY <1>0, <3>1, Queues
    <3> QED
        BY <1>0, <2>0, <3>1
  <2>2. Behind' = Behind
      BY <2>0 DEF Behind, Busy, job
  <2>3. requested' => requested \/ (Len(tasks') = Len(tasks) + 1 /\ tasks'[Len(tasks')] = "scan")
    <3>1. CASE WatcherFails \/ ScanRequested
      <4>1. Queued("scan") /\ "scan" \in Tasks
          BY <3>1 DEF WatcherFails, ScanRequested, RequestFullScan, Tasks
      <4> QED
          BY <1>0, <4>1, Queues
    <3>2. CASE EventsArrive \/ DebounceFires \/ RefreshCalled
        BY <3>2 DEF EventsArrive, DebounceFires, RefreshCalled
    <3> QED
        BY <1>4, <3>1, <3>2 DEF Asks
  <2>4. dirty' # {} => \/ dirty # {} /\ debounce' = debounce
                       \/ debounce'
                       \/ Len(tasks') = Len(tasks) + 1
    <3>1. CASE EventsArrive
        BY <3>1 DEF EventsArrive
    <3>2. CASE DebounceFires
      <4>1. Queued("dirty") /\ "dirty" \in Tasks
          BY <3>2 DEF DebounceFires, Tasks
      <4> QED
          BY <1>0, <4>1, Queues
    <3>3. CASE WatcherFails \/ ScanRequested
        BY <3>3 DEF WatcherFails, ScanRequested
    <3>4. CASE RefreshCalled
      <4>1. Queued("refresh") /\ "refresh" \in Tasks
          BY <3>4 DEF RefreshCalled, Tasks
      <4> QED
          BY <1>0, <4>1, Queues
    <3> QED
        BY <1>4, <3>1, <3>2, <3>3, <3>4 DEF Asks
  <2>5. ScanDue'
    <3>1. CASE requested
      <4> PICK i \in (1 + Behind) .. Len(tasks) : tasks[i] = "scan"
          BY <3>1 DEF ScanDue
      <4>1. i \in 1 .. Len(tasks) /\ i \in (1 + Behind) .. Len(tasks')
          BY <1>0, <2>1
      <4> QED
          BY <2>1, <2>2, <4>1 DEF ScanDue
    <3>2. CASE Len(tasks') = Len(tasks) + 1 /\ tasks'[Len(tasks')] = "scan"
      <4>1. Len(tasks') \in (1 + Behind) .. Len(tasks')
          BY <1>0, <3>2
      <4> QED
          BY <2>2, <3>2, <4>1 DEF ScanDue
    <3> QED
        BY <2>3, <3>1, <3>2 DEF ScanDue
  <2>6. BatchDue'
    <3>1. dirty' # {} => debounce' \/ Len(tasks') > Behind
        BY <1>0, <2>1, <2>4 DEF BatchDue
    <3> QED
        BY <2>2, <3>1 DEF BatchDue
  <2> QED
      BY <2>5, <2>6
<1>5. ASSUME NEW s \in Slots, Begins(s) PROVE ScanDue' /\ BatchDue'
    BY <1>2, <1>5, BeginFacts
<1>6. CASE BatchTaken
    BY <1>2, <1>6, TakenIs
<1>7. CASE Batches \/ \E s \in Slots : Scans(s)
  <2>1. UNCHANGED <<requested, dirty, debounce, tasks>>
      BY <1>7 DEF Batches, Scans, watch
  <2>2. PICK s \in Slots, j2 \in Job : jobs[s] # None /\ jobs' = [jobs EXCEPT ![s] = j2]
      BY <1>0, <1>7 DEF Batches, Scans, job
  <2>3. jobs'[s] # None /\ \A o \in Slots : o # s => jobs'[o] = jobs[o]
      BY <1>0, <2>2, SetJob, WatcherAssumption
  <2>4. Busy' = Busy
      BY <1>0, <2>2, <2>3 DEF Busy, job
  <2> QED
      BY <1>1, <2>1, <2>4
<1>10. CASE Postpones
  <2>1. debounce' = TRUE /\ UNCHANGED <<requested, tasks>> /\ Busy
      BY <1>10 DEF Postpones, Busy
  <2>2. PICK j2 \in Job : jobs' = [jobs EXCEPT !["queue"] = j2]
      BY <1>10 DEF Postpones
  <2>3. Busy'
      BY <1>0, <2>2, SetJob, WatcherAssumption DEF Busy, job
  <2>4. Behind' = Behind
      BY <2>1, <2>3 DEF Behind
  <2> QED
      BY <2>1, <2>4 DEF ScanDue, BatchDue
<1>8. ASSUME Leaves("queue") PROVE ScanDue' /\ BatchDue'
  <2>1. /\ tasks' = Tail(tasks) /\ tasks # <<>> /\ jobs' = [jobs EXCEPT !["queue"] = None]
        /\ requested' = requested
      BY <1>0, <1>8, EndFacts
  <2>2. /\ Len(tasks) >= 1 /\ Len(tasks') = Len(tasks) - 1 /\ Head(tasks) = tasks[1]
        /\ \A i \in 1 .. Len(tasks') : tasks'[i] = tasks[i + 1]
      BY <1>0, <2>1, Dequeues
  <2>3. Behind' = 0
    <3>1. jobs'["queue"] = None
        BY <1>0, <2>1, SetJob
    <3> QED
        BY <3>1 DEF Behind, Busy, job
  <2>4. requested => \E i \in 1 .. Len(tasks') : tasks'[i] = "scan"
    <3> SUFFICES ASSUME requested PROVE \E i \in 1 .. Len(tasks') : tasks'[i] = "scan"
        OBVIOUS
    <3> PICK i \in (1 + Behind) .. Len(tasks) : tasks[i] = "scan"
        BY DEF ScanDue
    <3>1. i # 1
        BY <1>0, <1>8, <2>2, EndDue
    <3>2. i - 1 \in 1 .. Len(tasks') /\ tasks'[i - 1] = tasks[i]
        BY <1>0, <2>2, <3>1
    <3> QED
        BY <3>2
  <2>5. ScanDue'
      BY <2>1, <2>3, <2>4 DEF ScanDue
  <2>6. BatchDue'
    <3>1. CASE dirty' = {}
        BY <3>1 DEF BatchDue
    <3>2. CASE requested
        BY <1>0, <2>2, <2>3, <2>4, <3>2 DEF BatchDue
    <3>3. CASE Busy /\ (debounce' \/ (dirty # {} /\ debounce' = debounce))
      <4>1. debounce' \/ Len(tasks') > 0
          BY <1>0, <2>2, <3>3 DEF BatchDue
      <4> QED
          BY <2>3, <4>1 DEF BatchDue
    <3> QED
        BY <1>8, <3>1, <3>2, <3>3, EndDue
  <2> QED
      BY <2>5, <2>6
<1>9. ASSUME Leaves("starter") PROVE ScanDue' /\ BatchDue'
  <2>1. phase = "scanning" /\ requested' = requested
      BY <1>9, EndFacts DEF Slots
  <2>2. dirty' = {} /\ ~requested
      BY <1>9, <2>1, EndWatch DEF Slots, Base, Ordered
  <2> QED
      BY <1>2, <2>1, <2>2
<1> QED
    BY <1>3, <1>4, <1>5, <1>6, <1>7, <1>8, <1>9, <1>10, Steps DEF Slots

Away == excused = Paths /\ excused' = Paths
Resets(s) ==
    /\ excused' = {} /\ tree.root = "here" /\ s = "queue" /\ jobs["starter"] = None
    /\ jobs[s] # None /\ jobs[s] \in Job /\ jobs[s].kind = "scan" /\ jobs[s].since = Now
    /\ jobs[s].todo = {} /\ snapshot' = Taken(jobs[s]) /\ jobs[s].root \in Roots
Delivers(s) ==
    /\ excused' = excused /\ jobs[s] # None /\ jobs[s] \in Job /\ jobs[s].todo = {}
    /\ jobs[s].unsettled = {} /\ snapshot' = Taken(jobs[s]) /\ dirty' = dirty
    /\ jobs[s].root \in Roots
Skips(s) ==
    /\ excused' = excused /\ s = "queue" /\ jobs[s] = None /\ snapshot' = snapshot
    /\ dirty' = dirty
Throws(s) ==
    /\ excused' = excused \union job.took \union UNION {Below(p) : p \in job.took}
    /\ s = "queue" /\ job # None /\ job \in Job /\ job.kind # "scan"
    /\ snapshot' = snapshot /\ dirty' = dirty

(* The ways a job ends.                                                    *)
LEMMA LeaveKinds ==
    ASSUME Base, Excuses, NEW s \in Slots, Leaves(s)
    PROVE  Away \/ Resets(s) \/ Delivers(s) \/ Skips(s) \/ Throws(s)
<1>0. /\ TypeOK
      /\ excused = Paths \/ /\ tree.root = "here"
                            /\ snapshot # None => snapshot.root = "here"
                            /\ \A o \in Slots : jobs[o] # None =>
                                  jobs[o].root \in {None, "here"}
    BY DEF Base, Excuses
<1>1. CASE ScanFindsNoRoot(s)
  <2>1. tree.root = "gone" /\ excused' = excused
      BY <1>1 DEF ScanFindsNoRoot, Listable
  <2> QED
      BY <1>0, <2>1 DEF Away
<1>2. CASE ScanEnds(s)
  <2>0. /\ jobs[s] # None /\ jobs[s].kind = "scan" /\ jobs[s].todo = {} /\ jobs[s] \in Job
        /\ snapshot' = Taken(jobs[s])
    <3>1. Scanning(s) /\ jobs[s].todo = {} /\ snapshot' = Taken(jobs[s])
        BY <1>2 DEF ScanEnds
    <3> QED
        BY <1>0, <3>1 DEF Scanning, TypeOK
  <2>1. ScanShape(jobs[s])
      BY <2>0 DEF Base, Shapes
  <2>2. jobs[s].unsettled = {} /\ jobs[s].root \in Roots
      BY <2>0, <2>1 DEF ScanShape
  <2>3. CASE /\ phase = "up" /\ jobs[s].since = Now
             /\ jobs["starter"] = None /\ tree.root = "here"
    <3>1. excused' = {}
        BY <1>2, <2>3 DEF ScanEnds
    <3>2. s = "queue"
        BY <2>0, <2>3 DEF Slots
    <3> QED
        BY <2>0, <2>2, <2>3, <3>1, <3>2 DEF Resets
  <2>4. CASE ~(/\ phase = "up" /\ jobs[s].since = Now
               /\ jobs["starter"] = None /\ tree.root = "here")
    <3>1. excused' = excused
        BY <1>2, <2>4 DEF ScanEnds
    <3>2. CASE snapshot # None /\ snapshot.root # jobs[s].root
        BY <1>0, <2>0, <2>2, <3>1, <3>2, WatcherAssumption DEF Away
    <3>3. CASE ~(snapshot # None /\ snapshot.root # jobs[s].root)
      <4>1. dirty' = dirty
          BY <1>2, <3>3 DEF ScanEnds
      <4> QED
          BY <2>0, <2>2, <3>1, <4>1 DEF Delivers
    <3> QED
        BY <3>2, <3>3
  <2> QED
      BY <2>3, <2>4
<1>3. CASE s = "queue" /\ BatchSkipped
    BY <1>3 DEF BatchSkipped, NextTask, Skips
<1>4. CASE s = "queue" /\ BatchFindsNoRoot
    BY <1>0, <1>4 DEF BatchFindsNoRoot, Away
<1>5. CASE s = "queue" /\ BatchThrows
  <2>1. Working /\ snapshot' = snapshot /\ dirty' = dirty
        /\ excused' = excused \union job.took \union UNION {Below(p) : p \in job.took}
      BY <1>5 DEF BatchThrows
  <2> QED
      BY <1>5, <2>1, WorkingFacts DEF Base, Throws
<1>6. CASE s = "queue" /\ BatchEnds
  <2>1. /\ Working /\ job.todo = {} /\ snapshot' = Taken(job) /\ excused' = excused
        /\ job.unsettled = {} /\ dirty' = dirty
      BY <1>6 DEF BatchEnds
  <2>2. job # None /\ job \in Job /\ job = jobs["queue"] /\ job.kind # "scan"
      BY <2>1, WorkingFacts DEF Base
  <2>3. job.root \in Roots
      BY <2>2 DEF Base, Ordered, Busy, TypeOK, Snapshot
  <2> QED
      BY <1>6, <2>1, <2>2, <2>3 DEF Delivers
<1> QED
    BY <1>1, <1>2, <1>3, <1>4, <1>5, <1>6 DEF Leaves, BatchLeaves

(* Who else has a job when one ends: a scan.                               *)
LEMMA OthersLeft ==
    ASSUME Base, NEW s \in Slots, Leaves(s)
    PROVE  /\ jobs'[s] = None /\ past' = past /\ notices' = notices /\ requested' = requested
           /\ \A o \in Slots : jobs'[o] # None =>
                o # s /\ jobs'[o] = jobs[o] /\ jobs[o].kind = "scan"
<1>1. /\ jobs' = [jobs EXCEPT ![s] = None] /\ past' = past
      /\ s = "starter" => phase = "scanning"
      /\ notices' = notices /\ requested' = requested
    BY EndFacts DEF disk
<1>2. jobs'[s] = None /\ \A o \in Slots : o # s => jobs'[o] = jobs[o]
    BY <1>1, SetJob DEF Base
<1>3. ASSUME NEW o \in Slots, jobs'[o] # None
      PROVE  jobs'[o] = jobs[o] /\ o # s /\ jobs[o].kind = "scan"
  <2>1. jobs'[o] = jobs[o] /\ o # s
      BY <1>2, <1>3
  <2>2. CASE o = "starter"
      BY <1>3, <2>1, <2>2 DEF Base, Ordered
  <2>3. CASE o = "queue"
      BY <1>1, <1>3, <2>1, <2>3 DEF Base, Ordered, Busy, job, Slots
  <2> QED
      BY <2>1, <2>2, <2>3 DEF Slots
<1> QED
    BY <1>1, <1>2, <1>3

(* What is excused.                                                        *)
Nested == \A p \in Paths : Up(p) \in excused => p \in excused

LEMMA WorldExcuses ==
    ASSUME Base, World
    PROVE  \/ excused' = Paths /\ Now' = Now + 1
           \/ UNCHANGED <<past, notices, excused>>
           \/ \E x \in Paths : Changes(x)
<1>1. CASE RootChanges
  <2> PICK r \in Roots : past' = Append(past, [tree EXCEPT !.root = r]) /\ excused' = Paths
      BY <1>1 DEF RootChanges
  <2>1. past \in Seq(Tree) /\ [tree EXCEPT !.root = r] \in Tree
      BY NowFacts DEF Base, TypeOK, Tree
  <2>2. Now' = Now + 1
    <3> PICK t \in Tree : past' = Append(past, t)
        BY <2>1
    <3> QED
        BY <2>1 DEF Now
  <2> QED
      BY <2>2
<1>2. CASE Ages
    BY <1>2 DEF Ages
<1>3. CASE Others
    BY <1>3, OthersChange DEF Base
<1> QED
    BY <1>1, <1>2, <1>3 DEF World

(* A change puts p, and what is in it, before the watcher or excuses it.   *)
LEMMA ChangesFacts ==
    ASSUME Base, NEW x \in Paths, Changes(x)
    PROVE  /\ UNCHANGED <<watch, tasks, jobs, refresh, bounds>>
           /\ Now' = Now + 1 /\ tree' \in Tree /\ tree'.root = tree.root
           /\ \A q \in Paths \ ({x} \union Below(x)) : tree'.items[q] = tree.items[q]
           /\ notices \subseteq notices'
           /\ \/ excused' = excused /\ \A q \in {x} \union Below(x) :
                                          Upto(q) \intersect notices' # {}
              \/ excused' = excused \union {x} \union Below(x)
<1>0. /\ past \in Seq(Tree) /\ Now \in Nat /\ notices \subseteq Paths /\ x # Top
    BY NowFacts, PathFacts DEF Base, TypeOK
<1> PICK t : t = past'[Now + 1]
    OBVIOUS
<1>1. /\ past' = Append(past, t) /\ t \in Tree /\ t.root = tree.root
      /\ \A q \in Paths \ ({x} \union Below(x)) : t.items[q] = tree.items[q]
      /\ UNCHANGED <<watch, tasks, jobs, refresh, bounds>>
    BY DEF Changes
<1>2. Now' = Now + 1 /\ tree' = t
    BY <1>0, <1>1 DEF Now, tree
<1> PICK heard \in {{}, {x}} :
         /\ heard = {} => Up(x) \in notices
         /\ notices' = IF phase = "up" THEN notices \union heard ELSE notices
         /\ excused' = IF phase = "up" THEN excused
                       ELSE excused \union heard \union UNION {Below(q) : q \in heard}
    BY DEF Changes
<1>3. CASE phase = "up"
  <2>1. heard = {x} \/ Up(x) \in notices
      OBVIOUS
  <2>2. CASE heard = {x}
    <3>1. \A q \in {x} \union Below(x) : x \in Upto(q)
        BY <1>0 DEF Below, Upto
    <3> QED
        BY <1>1, <1>2, <1>3, <2>2, <3>1
  <2>3. CASE Up(x) \in notices
    <3>1. x \in Files /\ Below(x) = {} /\ Up(x) \in Upto(x)
        BY <1>0, <2>3, PathFacts DEF Paths
    <3>2. notices \subseteq notices' /\ excused' = excused
        BY <1>3
    <3>3. \A q \in {x} \union Below(x) : Up(x) \in Upto(q) \intersect notices'
        BY <2>3, <3>1, <3>2
    <3> QED
        BY <1>1, <1>2, <3>2, <3>3
  <2> QED
      BY <2>1, <2>2, <2>3
<1>4. CASE phase # "up"
  <2>1. notices = {}
      BY <1>4 DEF Base, Ordered
  <2>2. heard = {x}
      BY <2>1
  <2> QED
      BY <1>1, <1>2, <1>4, <2>2
<1> QED
    BY <1>3, <1>4

LEMMA ExcusesKept == Base /\ Excuses /\ AllExact /\ [Next]_vars => Excuses'
<1> SUFFICES ASSUME Base, Excuses, AllExact, [Next]_vars PROVE Excuses'
    OBVIOUS
<1> DEFINE Here == /\ tree.root = "here"
                   /\ snapshot # None => snapshot.root = "here"
                   /\ \A o \in Slots : jobs[o] # None =>
                         jobs[o].root \in {None, "here"}
<1>0. /\ TypeOK /\ excused \subseteq Paths /\ "queue" \in Slots /\ Top \notin Paths
      /\ Nested
      /\ excused = Paths \/ Here
  <2>1. TypeOK /\ excused \subseteq Paths /\ "queue" \in Slots /\ Top \notin Paths
      BY WatcherAssumption DEF Base, TypeOK, Slots
  <2>2. Nested /\ (excused = Paths \/ Here)
      BY DEF Excuses, Nested
  <2> QED
      BY <2>1, <2>2
<1>a. ASSUME excused' = Paths PROVE Excuses'
    BY <1>a DEF Excuses
<1>b. ASSUME excused' = excused, past' = past, snapshot' = snapshot,
             Here => \A o \in Slots : jobs'[o] # None =>
                        jobs'[o].root \in {None, "here"}
      PROVE  Excuses'
  <2>1. tree' = tree
      BY <1>b DEF tree, Now
  <2> QED
      BY <1>0, <1>b, <2>1 DEF Excuses, Nested
<1>c. ASSUME NEW s \in Slots, NEW j2 \in Job, jobs' = [jobs EXCEPT ![s] = j2],
             UNCHANGED <<past, snapshot, excused>>,
             Here => j2.root \in {None, "here"}
      PROVE  Excuses'
  <2>1. jobs'[s] = j2 /\ \A o \in Slots : o # s => jobs'[o] = jobs[o]
      BY <1>0, <1>c, SetJob
  <2> QED
      BY <1>b, <1>c, <2>1
<1>1. CASE World
  <2>1. CASE UNCHANGED <<past, notices, excused>>
    <3>1. UNCHANGED <<snapshot, jobs>>
        BY <1>0, <1>1, WorldFacts DEF watch
    <3> QED
        BY <1>b, <2>1, <3>1
  <2>2. ASSUME NEW x \in Paths, Changes(x) PROVE Excuses'
    <3>1. /\ UNCHANGED <<snapshot, jobs>> /\ tree'.root = tree.root
          /\ excused' = excused \/ excused' = excused \union {x} \union Below(x)
        BY <2>2, ChangesFacts DEF watch
    <3>2. Nested'
      <4> SUFFICES ASSUME NEW p \in Paths, Up(p) \in excused' PROVE p \in excused'
          BY DEF Nested
      <4>1. Up(p) \in Dirs
          BY <1>0, <3>1, PathFacts DEF Below
      <4>2. Up(p) \notin Below(x)
          BY <4>1, PathFacts, WatcherAssumption
      <4>3. Up(p) = x => p \in Below(x)
          BY DEF Below
      <4> QED
          BY <1>0, <3>1, <4>2, <4>3 DEF Nested
    <3>3. excused = Paths => excused' = Paths
        BY <2>2, <3>1 DEF Below
    <3> QED
        BY <1>0, <3>1, <3>2, <3>3 DEF Excuses, Nested
  <2> QED
      BY <1>1, <1>a, <2>1, <2>2, WorldExcuses
<1>2. CASE Asks \/ Subscribes \/ UNCHANGED vars
  <2>1. UNCHANGED <<past, snapshot, jobs, excused>>
      BY <1>0, <1>2, AsksFacts DEF Subscribes, disk, watch, vars
  <2> QED
      BY <1>b, <2>1
<1>3. ASSUME NEW s \in Slots, Begins(s) PROVE Excuses'
  <2> DEFINE j2 == Scan
  <2>1. /\ j2 \in Job /\ j2.root = None /\ jobs' = [jobs EXCEPT ![s] = j2]
        /\ UNCHANGED <<past, snapshot, excused>>
      BY <1>0, <1>3, BeginFacts, ScanFacts DEF disk, Scan
  <2> HIDE DEF j2
  <2> QED
      BY <1>c, <2>1
<1>4. CASE BatchTaken
  <2> DEFINE j2 == Batch
  <2>1. /\ j2 \in Job /\ j2.root = snapshot.root /\ jobs' = [jobs EXCEPT !["queue"] = j2]
        /\ UNCHANGED <<past, snapshot, excused>> /\ snapshot # None
      BY <1>4, TakenIs DEF disk
  <2> HIDE DEF j2
  <2> QED
      BY <1>0, <1>c, <2>1
<1>5. ASSUME NEW s \in Slots, Scans(s) PROVE Excuses'
  <2> PICK j2 \in Job : jobs' = [jobs EXCEPT ![s] = j2] /\ ScanLooks(jobs[s], j2)
      BY <1>5 DEF Scans
  <2>1. UNCHANGED <<past, snapshot, excused>> /\ jobs[s] # None /\ ScanShape(jobs[s])
      BY <1>5 DEF Scans, disk, watch
  <2>2. Here => j2.root \in {None, "here"}
    <3>1. CASE LooksAtRoot(jobs[s], j2)
        BY <3>1 DEF LooksAtRoot
    <3>2. CASE j2.root = jobs[s].root
        BY <2>1, <3>2
    <3> QED
        BY <3>1, <3>2 DEF ScanLooks, ListsTop, ListsFolder, ShutFolder
  <2> QED
      BY <1>c, <2>1, <2>2
<1>6. CASE Batches
  <2> PICK j2 \in Job, p \in Paths :
          jobs' = [jobs EXCEPT !["queue"] = j2] /\ BatchLooksAt(job, j2, p)
      BY <1>6 DEF Batches
  <2>1. /\ UNCHANGED <<past, snapshot, excused>> /\ job # None /\ job = jobs["queue"]
        /\ BatchShape(job) /\ job \in Job
      BY <1>6 DEF Batches, disk, watch, job
  <2>2. j2.root = job.root /\ Top \notin job.todo
      BY <1>0, <2>1 DEF BatchLooksAt, BatchShape, Job
  <2>3. Here => j2.root \in {None, "here"}
      BY <1>0, <2>1, <2>2
  <2> QED
      BY <1>0, <1>c, <2>1, <2>3
<1>8. CASE Postpones
  <2> PICK j2 \in Job : jobs' = [jobs EXCEPT !["queue"] = j2] /\ Same(job, j2)
      BY <1>8 DEF Postpones
  <2>1. UNCHANGED <<past, snapshot, excused>> /\ jobs["queue"] # None
        /\ j2.root = jobs["queue"].root
      BY <1>8 DEF Postpones, Same, disk, job
  <2>2. Here => j2.root \in {None, "here"}
      BY <1>0, <2>1
  <2> QED
      BY <1>0, <1>c, <2>1, <2>2
<1>7. ASSUME NEW s \in Slots, Leaves(s) PROVE Excuses'
  <2>1. /\ past' = past
        /\ \A o \in Slots : jobs'[o] # None =>
              o # s /\ jobs'[o] = jobs[o] /\ jobs[o].kind = "scan"
        /\ jobs'[s] = None /\ tree' = tree
      BY <1>7, OthersLeft DEF tree, Now
  <2>2. CASE Away
      BY <1>a, <2>2 DEF Away
  <2>3. CASE Resets(s)
    <3>1. \A o \in Slots : jobs'[o] = None
        BY <2>1, <2>3 DEF Resets, Slots
    <3>2. snapshot'.root = "here"
      <4>1. Exact(jobs[s])
          BY <2>3 DEF Resets, AllExact
      <4>3. jobs[s].root = "here"
          BY <2>3, <4>1, WatcherAssumption DEF Resets, Exact
      <4>2. snapshot'.root = jobs[s].root
          BY <2>3, TakenFacts DEF Resets
      <4> QED
          BY <4>2, <4>3
    <3> QED
        BY <2>1, <2>3, <3>1, <3>2 DEF Resets, Excuses
  <2>4. CASE Delivers(s)
    <3>1. snapshot'.root = jobs[s].root /\ jobs[s] # None /\ jobs[s].root # None
          /\ excused' = excused
        BY <2>4, TakenFacts, WatcherAssumption DEF Delivers
    <3>2. Here => snapshot'.root = "here"
        BY <3>1
    <3> QED
        BY <1>0, <2>1, <3>1, <3>2 DEF Excuses, Nested
  <2>5. CASE Skips(s)
      BY <1>b, <2>1, <2>5 DEF Skips
  <2>6. CASE Throws(s)
    <3>1. /\ excused' = excused \union job.took \union UNION {Below(p) : p \in job.took}
          /\ snapshot' = snapshot /\ job.took \subseteq Paths
        BY <2>6 DEF Throws, Job
    <3>2. Nested'
      <4> SUFFICES ASSUME NEW p \in Paths, Up(p) \in excused' PROVE p \in excused'
          BY DEF Nested
      <4>1. Up(p) \in Dirs
          BY <1>0, <3>1, PathFacts DEF Below
      <4>2. \A x \in job.took : Up(p) \notin Below(x)
        <5> TAKE x \in job.took
        <5>1. Below(x) \subseteq Files
            BY <3>1, PathFacts
        <5> QED
            BY <4>1, <5>1, WatcherAssumption
      <4>3. Up(p) \in job.took => p \in UNION {Below(x) : x \in job.took}
          BY DEF Below
      <4> QED
          BY <1>0, <3>1, <4>2, <4>3 DEF Nested
    <3>3. excused = Paths => excused' = Paths
        BY <3>1 DEF Below
    <3> QED
        BY <1>0, <2>1, <3>1, <3>2, <3>3 DEF Excuses, Nested
  <2> QED
      BY <1>7, <2>2, <2>3, <2>4, <2>5, <2>6, LeaveKinds
<1> QED
    BY <1>1, <1>2, <1>3, <1>4, <1>5, <1>6, <1>7, <1>8, Steps

-----------------------------------------------------------------------------
(* What is known.                                                          *)

(* The folder that may hide p is not excused unless p is.                  *)
LEMMA HomeKnown ==
    ASSUME Base, Excuses, AllKnown, NEW p \in Paths, p \notin excused, Home(p) # Top
    PROVE  /\ Home(p) \in Paths /\ Home(p) \in Dirs /\ Known(Home(p))
           /\ Due(Home(p)) => Due(p)
<1>1. /\ Home(p) \in Dirs /\ Home(p) \in Paths
      /\ Home(p) = p \/ Home(p) = Up(p)
      /\ Upto(Home(p)) = {Home(p)} /\ Home(p) \in Upto(p)
    BY PathFacts DEF Paths, Home, Upto
<1>2. Home(p) \notin excused
    BY <1>1 DEF Excuses
<1>3. Known(Home(p))
    BY <1>1, <1>2 DEF AllKnown
<1>4. Due(Home(p)) => Due(p)
    BY <1>1 DEF Due
<1> QED
    BY <1>1, <1>3, <1>4

(* Jobs and the snapshot stay, or jobs go.                                 *)
LEMMA SameKnown ==
    ASSUME UNCHANGED <<past, snapshot>>, NEW p \in Paths, Known(p), Due(p) => Due(p)',
           \A s \in Slots : jobs'[s] # None => jobs'[s] = jobs[s],
           AtRest' /\ snapshot # None => Due(p) \/ True(p)
    PROVE  Known(p)'
<1> SUFFICES ASSUME ~Due(p)' PROVE Known(p)'
    BY DEF Known
<1>1. tree' = tree
    BY DEF tree, Now
<1>2. ~Due(p) /\ \A s \in Slots : jobs[s] # None => JobKnows(jobs[s], p)
    BY DEF Known
<1>3. True(p)' = True(p)
    BY <1>1 DEF True, Shown, Want
<1>4. ASSUME NEW s \in Slots, jobs'[s] # None PROVE JobKnows(jobs[s], p)'
  <2>1. jobs'[s] = jobs[s] /\ JobKnows(jobs[s], p)
      BY <1>2, <1>4
  <2>2. Right(jobs[s], p)'
      BY <1>1, <2>1 DEF JobKnows, Right, Sight, Want
  <2>3. jobs'[s].kind = "scan" => Marked(jobs[s], p)'
      BY <1>1, <2>1 DEF JobKnows, Marked
  <2>4. jobs'[s].kind # "scan" /\ Upto(p) \intersect jobs'[s].took = {} => True(p)'
      BY <1>3, <2>1 DEF JobKnows
  <2> QED
      BY <2>2, <2>3, <2>4 DEF JobKnows
<1> QED
    BY <1>2, <1>3, <1>4 DEF Known

(* One job is another one.                                                 *)
LEMMA JobKnown ==
    ASSUME Base, NEW s \in Slots, NEW j2 \in Job, jobs' = [jobs EXCEPT ![s] = j2],
           UNCHANGED <<past, snapshot>>, NEW p \in Paths, Known(p),
           Due(p) => Due(p)' \/ \A o \in Slots \ {s} : jobs[o] = None,
           Due(p)' \/ JobKnows(j2, p)
    PROVE  Known(p)'
<1> SUFFICES ASSUME ~Due(p)' PROVE Known(p)'
    BY DEF Known
<1>1. tree' = tree
    BY DEF tree, Now
<1>2. jobs'[s] = j2 /\ j2 # None /\ \A o \in Slots : o # s => jobs'[o] = jobs[o]
    BY SetJob, WatcherAssumption DEF Base
<1>3. ~AtRest'
    BY <1>2 DEF AtRest
<1>4. ASSUME NEW j, JobKnows(j, p) PROVE JobKnows(j, p)'
  <2>1. True(p)' = True(p) /\ Want(p)' = Want(p)
      BY <1>1 DEF True, Shown, Want
  <2>2. Right(j, p)' = Right(j, p) /\ Marked(j, p)' = Marked(j, p)
      BY <1>1, <2>1 DEF Right, Marked
  <2> QED
      BY <1>4, <2>1, <2>2 DEF JobKnows
<1>5. ASSUME NEW o \in Slots, jobs'[o] # None PROVE JobKnows(jobs[o], p)'
  <2>1. \E j : j = jobs'[o] /\ JobKnows(j, p)
    <3>1. CASE o = s
        BY <1>2, <3>1
    <3>2. CASE o # s
      <4>1. jobs'[o] = jobs[o] /\ jobs[o] # None
          BY <1>2, <1>5, <3>2
      <4> QED
          BY <3>2, <4>1 DEF Known
    <3> QED
        BY <3>1, <3>2
  <2> PICK j : j = jobs'[o] /\ JobKnows(j, p)
      BY <2>1
  <2>2. JobKnows(j, p)'
      BY <1>4
  <2> QED
      BY <2>2
<1> QED
    BY <1>3, <1>5 DEF Known

LEMMA WorldKnown ==
    ASSUME Base, AllKnown, World
    PROVE  AllKnown'
<1> SUFFICES ASSUME NEW p \in Paths, p \notin excused' PROVE Known(p)'
    BY DEF AllKnown
<1>0. UNCHANGED <<snapshot, jobs, dirty, requested>>
    BY WorldFacts DEF Base, watch
<1>1. CASE UNCHANGED <<past, notices, excused>>
  <2>1. Known(p) /\ (Due(p) => Due(p)')
      BY <1>0, <1>1 DEF AllKnown, Due
  <2>2. AtRest' /\ snapshot # None => Due(p) \/ True(p)
      BY <1>0, <2>1 DEF AtRest, Known
  <2> QED
      BY <1>0, <1>1, <2>1, <2>2, SameKnown
<1>2. ASSUME NEW x \in Paths, Changes(x) PROVE Known(p)'
  <2>1. /\ tree' \in Tree /\ tree'.root = tree.root
        /\ \A q \in Paths \ ({x} \union Below(x)) : tree'.items[q] = tree.items[q]
        /\ notices \subseteq notices'
        /\ \/ excused' = excused /\ \A q \in {x} \union Below(x) : Upto(q) \intersect notices' # {}
           \/ excused' = excused \union {x} \union Below(x)
      BY <1>2, ChangesFacts
  <2>2. CASE p \in {x} \union Below(x)
    <3>1. Due(p)'
        BY <2>1, <2>2 DEF Due
    <3> QED
        BY <3>1 DEF Known
  <2>3. CASE p \notin {x} \union Below(x)
    <3>1. Own(tree', p) = Own(tree, p) /\ Hidden(tree', p) = Hidden(tree, p)
      <4> tree \in Tree
          BY NowFacts DEF Base
      <4> QED
          BY <2>1, <2>3, ElsewhereSame
    <3>2. Want(p)' = Want(p) /\ True(p)' = True(p)
        BY <1>0, <3>1 DEF Want, True, Shown
    <3>3. \A j : Right(j, p)' = Right(j, p) /\ Marked(j, p)' = Marked(j, p)
        BY <3>1, <3>2 DEF Right, Marked
    <3>4. Due(p) => Due(p)'
        BY <1>0, <2>1 DEF Due
    <3>5. Known(p)
        BY <2>1 DEF AllKnown
    <3> QED
        BY <1>0, <3>2, <3>3, <3>4, <3>5 DEF Known, JobKnows, AtRest
  <2> QED
      BY <2>2, <2>3
<1> QED
    BY <1>1, <1>2, WorldExcuses

(* A batch that begins knows what it did not take.                         *)
LEMMA TakenKnown ==
    ASSUME Base, BatchTaken, NEW p \in Paths, Known(p)
    PROVE  Known(p)'
<1> DEFINE j2 == Batch
<1>1. /\ j2 \in Job /\ j2.kind # "scan" /\ j2.todo = dirty /\ j2.took = dirty
      /\ j2.entries = snapshot.entries
      /\ j2.unsyncable = {u \in snapshot.unsyncable : u \notin dirty}
      /\ jobs' = [jobs EXCEPT !["queue"] = j2] /\ UNCHANGED <<past, snapshot, notices>>
      /\ snapshot # None /\ snapshot \in Snapshot /\ "queue" \in Slots
      /\ phase = "up" /\ ~requested /\ jobs["queue"] = None
    BY TakenIs DEF disk
<1> HIDE DEF j2
<1>2. \A o \in Slots : jobs[o] = None
    BY <1>1 DEF Base, Ordered, Slots
<1>3. Due(p)' \/ JobKnows(j2, p)
  <2>1. CASE Upto(p) \intersect notices # {}
      BY <1>1, <2>1 DEF Due
  <2>2. CASE Upto(p) \intersect dirty # {}
      BY <1>1, <2>2 DEF JobKnows, Right
  <2>3. CASE Upto(p) \intersect (notices \union dirty) = {}
    <3>1. True(p)
        BY <1>1, <1>2, <2>3 DEF Known, Due, AtRest
    <3>2. Home(p) \notin dirty
      <4>1. Home(p) = Top \/ Home(p) \in Upto(p)
          BY DEF Home, Upto
      <4> QED
          BY <2>3, <4>1, PathFacts DEF Base, TypeOK
    <3>3. /\ Sight(j2, p) = IF Home(p) \in j2.unsyncable THEN Unknown ELSE Shows(j2.entries, p)
          /\ Sight(snapshot, p) = IF Home(p) \in snapshot.unsyncable THEN Unknown
                                  ELSE Shows(snapshot.entries, p)
      <4>1. j2.unsyncable \subseteq Dirs /\ snapshot.unsyncable \subseteq Dirs
          BY <1>1 DEF Job, Snapshot
      <4> QED
          BY <4>1, SightFacts
    <3>4. Sight(j2, p) = Want(p)
        BY <1>1, <3>1, <3>2, <3>3 DEF True, Shown
    <3> QED
        BY <1>1, <3>1, <3>4 DEF JobKnows, Right
  <2> QED
      BY <2>1, <2>2, <2>3
<1> QED
    BY <1>1, <1>2, <1>3, JobKnown

LEMMA LeaveKnown ==
    ASSUME Base, Excuses, AllKnown, AllExact, NEW s \in Slots, Leaves(s)
    PROVE  AllKnown'
<1> SUFFICES ASSUME NEW p \in Paths, p \notin excused' PROVE Known(p)'
    BY DEF AllKnown
<1>0. /\ past' = past /\ notices' = notices /\ requested' = requested
      /\ \A o \in Slots : jobs'[o] # None =>
            o # s /\ jobs'[o] = jobs[o] /\ jobs[o].kind = "scan"
    BY OthersLeft
<1>1. tree' = tree /\ Want(p)' = Want(p)
    BY <1>0 DEF tree, Now, Want
<1>2. ASSUME dirty \subseteq dirty' PROVE Due(p) => Due(p)'
    BY <1>0, <1>2 DEF Due
<1>3. ASSUME True(p)', p \notin excused, dirty \subseteq dirty' PROVE Known(p)'
  <2> SUFFICES ASSUME ~Due(p)' PROVE Known(p)'
      BY DEF Known
  <2>1. \A o \in Slots : jobs[o] # None => JobKnows(jobs[o], p)
      BY <1>2, <1>3 DEF AllKnown, Known
  <2>2. ASSUME NEW o \in Slots, jobs'[o] # None PROVE JobKnows(jobs[o], p)'
    <3>1. jobs'[o] = jobs[o] /\ jobs[o].kind = "scan" /\ JobKnows(jobs[o], p)
        BY <1>0, <2>1, <2>2
    <3>2. Right(jobs[o], p)' /\ Marked(jobs[o], p)'
        BY <1>1, <3>1 DEF JobKnows, Right, Marked
    <3> QED
        BY <3>1, <3>2 DEF JobKnows
  <2> QED
      BY <1>3, <2>2 DEF Known
<1>4. ASSUME snapshot' = Taken(jobs[s]), jobs[s] \in Job, jobs[s].root \in Roots,
             Sight(jobs[s], p) = Want(p)
      PROVE  True(p)'
  <2>1. /\ Sight(Taken(jobs[s]), p) = Sight(jobs[s], p) /\ snapshot' # None
      BY <1>4, TakenFacts DEF Sight
  <2> QED
      BY <1>1, <1>4, <2>1 DEF True, Shown
<1>5. CASE Away
    BY <1>5 DEF Away
<1>6. CASE Resets(s)
  <2>1. Exact(jobs[s]) /\ ScanShape(jobs[s])
      BY <1>6 DEF Resets, AllExact, Base, Shapes
  <2>2. Sight(jobs[s], p) = Want(p)
      BY <1>6, <2>1 DEF Resets, Exact, Right, ScanShape
  <2>3. True(p)'
      BY <1>4, <1>6, <2>2 DEF Resets
  <2>4. \A o \in Slots : jobs'[o] = None
      BY <1>0, <1>6 DEF Resets, Slots
  <2> QED
      BY <2>3, <2>4 DEF Known
<1>7. CASE Delivers(s)
  <2>1. /\ p \notin excused /\ jobs[s] # None /\ jobs[s] \in Job /\ jobs[s].todo = {}
        /\ snapshot' = Taken(jobs[s]) /\ dirty' = dirty /\ jobs[s].unsettled = {}
        /\ jobs[s].root \in Roots
      BY <1>7 DEF Delivers
  <2> SUFFICES ASSUME ~Due(p)' PROVE Known(p)'
      BY DEF Known
  <2>2. JobKnows(jobs[s], p)
      BY <1>2, <2>1 DEF AllKnown, Known
  <2>5. Sight(jobs[s], p) = Want(p)
      BY <2>1, <2>2 DEF JobKnows, Right
  <2> QED
      BY <1>3, <1>4, <2>1, <2>5
<1>8. CASE Skips(s)
  <2>1. /\ p \notin excused /\ snapshot' = snapshot /\ dirty' = dirty
        /\ jobs' = [jobs EXCEPT ![s] = None] /\ jobs[s] = None
      BY <1>8, EndFacts DEF Skips
  <2>2. Known(p) /\ \A o \in Slots : jobs'[o] = jobs[o]
      BY <2>1 DEF AllKnown, Base, TypeOK
  <2>3. AtRest' => AtRest
      BY <2>2 DEF AtRest
  <2>4. AtRest' /\ snapshot # None => Due(p) \/ True(p)
      BY <2>2, <2>3 DEF Known
  <2>5. Due(p) => Due(p)'
      BY <1>2, <2>1
  <2> QED
      BY <1>0, <2>1, <2>2, <2>4, <2>5, SameKnown
<1>9. CASE Throws(s)
  <2>1. /\ excused' = excused \union job.took \union UNION {Below(q) : q \in job.took}
        /\ s = "queue" /\ job # None /\ job \in Job /\ job.kind # "scan"
        /\ snapshot' = snapshot /\ dirty' = dirty
      BY <1>9 DEF Throws
  <2>2. p \notin excused /\ Upto(p) \intersect job.took = {}
      BY <2>1 DEF Upto, Below
  <2>3. Known(p)
      BY <2>2 DEF AllKnown
  <2>4. Due(p) \/ True(p)
      BY <2>1, <2>2, <2>3 DEF Known, JobKnows, job
  <2>5. Due(p) => Due(p)'
      BY <1>2, <2>1
  <2>6. \A o \in Slots : jobs'[o] # None => jobs'[o] = jobs[o]
      BY <1>0
  <2> QED
      BY <1>0, <2>1, <2>3, <2>4, <2>5, <2>6, SameKnown
<1> QED
    BY <1>5, <1>6, <1>7, <1>8, <1>9, LeaveKinds

LEMMA KnownKept == Base /\ Excuses /\ AllKnown /\ AllExact /\ [Next]_vars => AllKnown'
<1> SUFFICES ASSUME Base, Excuses, AllKnown, AllExact, [Next]_vars PROVE AllKnown'
    OBVIOUS
<1>0. /\ TypeOK /\ "queue" \in Slots /\ Top \notin Paths
    BY WatcherAssumption DEF Base, Slots
<1>1. CASE Asks \/ Subscribes \/ UNCHANGED vars
  <2>1. UNCHANGED <<past, snapshot, jobs, excused>>
      BY <1>0, <1>1, AsksFacts DEF Subscribes, disk, watch, vars
  <2>2. ASSUME NEW p \in Paths, Due(p) PROVE Due(p)'
    <3>1. CASE EventsArrive
        BY <2>2, <3>1 DEF Due, EventsArrive
    <3>2. CASE WatcherFails \/ ScanRequested
        BY <3>2 DEF Due, WatcherFails, ScanRequested, RequestFullScan
    <3>3. CASE DebounceFires \/ RefreshCalled
      <4>1. notices' = notices /\ requested' = requested /\ dirty \subseteq dirty'
          BY <3>3 DEF DebounceFires, RefreshCalled, disk
      <4> QED
          BY <2>2, <4>1 DEF Due
    <3>4. CASE Subscribes \/ UNCHANGED vars
        BY <2>2, <3>4 DEF Due, Subscribes, disk, watch, vars
    <3> QED
        BY <1>1, <3>1, <3>2, <3>3, <3>4 DEF Asks
  <2>3. ASSUME NEW p \in Paths, p \notin excused PROVE Known(p)'
    <3>1. Known(p)
        BY <2>3 DEF AllKnown
    <3>2. AtRest' /\ snapshot # None => Due(p) \/ True(p)
        BY <2>1, <3>1 DEF AtRest, Known
    <3> QED
        BY <2>1, <2>2, <3>1, <3>2, SameKnown
  <2> QED
      BY <2>1, <2>3 DEF AllKnown
<1>2. ASSUME NEW s \in Slots, Begins(s) PROVE AllKnown'
  <2> SUFFICES ASSUME NEW p \in Paths, p \notin excused PROVE Known(p)'
    <3>1. excused' = excused
        BY <1>2, BeginFacts
    <3> QED
        BY <3>1 DEF AllKnown
  <2> DEFINE j2 == Scan
  <2>1. /\ j2 \in Job /\ j2.todo = {Top} /\ j2.kind = "scan"
        /\ jobs' = [jobs EXCEPT ![s] = j2] /\ UNCHANGED <<past, snapshot, notices>>
      BY <1>0, <1>2, BeginFacts, ScanFacts DEF disk
  <2> HIDE DEF j2
  <2>2. Known(p) /\ JobKnows(j2, p)
      BY <1>0, <2>1 DEF AllKnown, JobKnows, Right, Marked
  <2>3. CASE phase = "up"
    <3>1. s = "queue"
        BY <1>2, <2>3, BeginFacts DEF Slots
    <3>2. \A o \in Slots \ {s} : jobs[o] = None
        BY <2>3, <3>1 DEF Base, Ordered, Slots
    <3> QED
        BY <2>1, <2>2, <3>2, JobKnown
  <2>4. CASE phase # "up"
    <3>1. ~Due(p)
        BY <2>4 DEF Base, Ordered, Due
    <3> QED
        BY <2>1, <2>2, <3>1, JobKnown
  <2> QED
      BY <2>3, <2>4
<1>3. CASE BatchTaken
  <2>1. excused' = excused
      BY <1>3, TakenIs
  <2> QED
      BY <1>3, <2>1, TakenKnown DEF AllKnown
<1>4. ASSUME NEW s \in Slots, Scans(s) PROVE AllKnown'
  <2> PICK j2 \in Job : jobs' = [jobs EXCEPT ![s] = j2] /\ ScanLooks(jobs[s], j2)
      BY <1>4 DEF Scans
  <2> PICK j : j = jobs[s]
      OBVIOUS
  <2>1. /\ j \in Job /\ j.kind = "scan" /\ ScanShape(j) /\ jobs[s] # None
        /\ UNCHANGED <<past, snapshot, notices, dirty, requested, excused>>
        /\ j2.kind = j.kind /\ ScanLooks(j, j2)
      BY <1>4, ScanShapeKept DEF Scans, disk, watch, Base
  <2> SUFFICES ASSUME NEW p \in Paths, p \notin excused PROVE Known(p)'
      BY <2>1 DEF AllKnown
  <2>2. Known(p) /\ (Due(p) => Due(p)')
      BY <2>1 DEF AllKnown, Due
  <2>3. CASE Due(p)
      BY <2>2, <2>3 DEF Known
  <2>4. CASE ~Due(p)
    <3>1. Right(j, p) /\ Marked(j, p)
        BY <2>1, <2>2, <2>4 DEF Known, JobKnows
    <3>2. ASSUME Home(p) # Top PROVE Marked(j, Home(p))
        BY <2>1, <2>4, <3>2, HomeKnown DEF Known, JobKnows
    <3>3. Right(j2, p) /\ Marked(j2, p)
        BY <2>1, <3>1, <3>2, ScanRight
    <3>4. JobKnows(j2, p)
        BY <2>1, <3>3 DEF JobKnows
    <3> QED
        BY <2>1, <2>2, <3>4, JobKnown
  <2> QED
      BY <2>3, <2>4
<1>5. CASE Batches
  <2> PICK j2 \in Job, x \in Paths :
          jobs' = [jobs EXCEPT !["queue"] = j2] /\ BatchLooksAt(job, j2, x)
      BY <1>5 DEF Batches
  <2> PICK j : j = job
      OBVIOUS
  <2>1. /\ j \in Job /\ j.kind # "scan" /\ BatchShape(j) /\ j # None /\ j = jobs["queue"]
        /\ UNCHANGED <<past, snapshot, notices, dirty, requested, excused>>
        /\ BatchLooksAt(j, j2, x)
      BY <1>5 DEF Batches, disk, watch, job
  <2>a. j2.kind = j.kind /\ j2.took = j.took
      BY <2>1 DEF BatchLooksAt, Refreshes, Looked
  <2> SUFFICES ASSUME NEW p \in Paths, p \notin excused PROVE Known(p)'
      BY <2>1 DEF AllKnown
  <2>2. Known(p) /\ (Due(p) => Due(p)')
      BY <2>1 DEF AllKnown, Due
  <2>3. CASE Due(p)
      BY <2>2, <2>3 DEF Known
  <2>4. CASE ~Due(p)
    <3>1. JobKnows(j, p) /\ Right(j, p)
        BY <1>0, <2>1, <2>2, <2>4 DEF Known, JobKnows
    <3>2. ASSUME Home(p) # Top PROVE Right(j, Home(p))
        BY <1>0, <2>1, <2>4, <3>2, HomeKnown DEF Known, JobKnows
    <3>3. Right(j2, p)
        BY <2>1, <3>1, <3>2, BatchRight
    <3>4. JobKnows(j2, p)
        BY <2>1, <2>a, <3>1, <3>3 DEF JobKnows
    <3> QED
        BY <1>0, <2>1, <2>2, <3>4, JobKnown
  <2> QED
      BY <2>3, <2>4
<1>6. CASE Postpones
  <2> PICK j2 \in Job : /\ jobs' = [jobs EXCEPT !["queue"] = j2] /\ Same(job, j2)
                        /\ j2.unsettled = {}
      BY <1>6 DEF Postpones
  <2> PICK j : j = job
      OBVIOUS
  <2>1. /\ j \in Job /\ j.kind = "dirty" /\ j.todo = {} /\ j # None /\ j = jobs["queue"]
        /\ UNCHANGED <<past, snapshot, notices, requested, excused>>
        /\ dirty' = dirty \union j.unsettled /\ Same(j, j2)
      BY <1>6 DEF Postpones, disk, job
  <2> SUFFICES ASSUME NEW p \in Paths, p \notin excused PROVE Known(p)'
      BY <2>1 DEF AllKnown
  <2>2. Known(p) /\ (Due(p) => Due(p)')
      BY <2>1 DEF AllKnown, Due
  <2>3. CASE Due(p)'
      BY <2>3 DEF Known
  <2>4. CASE ~Due(p)'
    <3>1. JobKnows(j, p)
        BY <1>0, <2>1, <2>2, <2>4 DEF Known
    <3>3. ({Top} \union Upto(p)) \intersect (j.todo \union j.unsettled) = {}
      <4>1. Upto(p) \intersect j.unsettled = {}
          BY <2>1, <2>4 DEF Due
      <4>2. Top \notin j.unsettled
          BY <1>0, <2>1 DEF Job, Paths
      <4> QED
          BY <2>1, <4>1, <4>2
    <3>4. Sight(j2, p) = Sight(j, p)
        BY <2>1 DEF Same, Sight
    <3>5. Sight(j2, p) = Want(p)
        BY <3>1, <3>3, <3>4 DEF JobKnows, Right
    <3>6. JobKnows(j2, p)
        BY <2>1, <3>1, <3>5 DEF JobKnows, Right, Same
    <3> QED
        BY <1>0, <2>1, <2>2, <3>6, JobKnown
  <2> QED
      BY <2>3, <2>4
<1> QED
    BY <1>1, <1>2, <1>3, <1>4, <1>5, <1>6, Steps, WorldKnown, LeaveKnown

LEMMA ExactKept == Base /\ AllExact /\ [Next]_vars => AllExact'
<1> SUFFICES ASSUME Base, AllExact, [Next]_vars PROVE AllExact'
    OBVIOUS
<1>0. /\ TypeOK /\ "queue" \in Slots /\ Top \notin Paths /\ Now \in Nat
      /\ \A s \in Slots : jobs[s] # None => jobs[s] \in Job /\ jobs[s].since \in 1 .. Now
    BY WatcherAssumption, NowFacts DEF Base, Slots, TypeOK, Shapes
<1>1. ASSUME UNCHANGED past, NEW j, Exact(j) PROVE Exact(j)'
  <2>1. tree' = tree
      BY <1>1 DEF tree, Now
  <2>2. \A p \in Paths : Right(j, p)' = Right(j, p) /\ Marked(j, p)' = Marked(j, p)
      BY <2>1 DEF Right, Marked, Want
  <2> QED
      BY <1>1, <2>1, <2>2 DEF Exact
<1>2. ASSUME UNCHANGED past,
             \A s \in Slots : jobs'[s] # None /\ jobs'[s].kind = "scan" => jobs'[s] = jobs[s]
      PROVE  AllExact'
  <2> SUFFICES ASSUME NEW s \in Slots, jobs'[s] # None, jobs'[s].kind = "scan",
                      jobs'[s].since = Now
               PROVE  Exact(jobs[s])'
      BY <1>2 DEF AllExact, Now
  <2>1. jobs'[s] = jobs[s]
      BY <1>2
  <2>2. \E j : j = jobs'[s] /\ Exact(j)
      BY <2>1 DEF AllExact
  <2> PICK j : j = jobs'[s] /\ Exact(j)
      BY <2>2
  <2>3. Exact(j)'
      BY <1>1, <1>2
  <2> QED
      BY <2>3
<1>3. ASSUME UNCHANGED past, NEW s \in Slots, NEW j2 \in Job, jobs' = [jobs EXCEPT ![s] = j2],
             j2.since = Now => Exact(j2)
      PROVE  AllExact'
  <2> SUFFICES ASSUME NEW o \in Slots, jobs'[o] # None, jobs'[o].kind = "scan",
                      jobs'[o].since = Now
               PROVE  Exact(jobs[o])'
      BY <1>3 DEF AllExact, Now
  <2>1. jobs'[s] = j2 /\ \A q \in Slots : q # s => jobs'[q] = jobs[q]
      BY <1>0, <1>3, SetJob
  <2>2. \E j : j = jobs'[o] /\ Exact(j)
      BY <1>3, <2>1 DEF AllExact
  <2> PICK j : j = jobs'[o] /\ Exact(j)
      BY <2>2
  <2>3. Exact(j)'
      BY <1>1, <1>3
  <2> QED
      BY <2>3
<1>4. CASE World
  <2>1. CASE UNCHANGED <<past, notices, excused>>
    <3>1. jobs' = jobs
        BY <1>0, <1>4, WorldFacts
    <3> QED
        BY <1>2, <2>1, <3>1
  <2>2. CASE Now' = Now + 1
    <3>1. jobs' = jobs
        BY <1>0, <1>4, WorldFacts
    <3>2. \A s \in Slots : jobs'[s] # None => jobs'[s].since # Now'
        BY <1>0, <2>2, <3>1
    <3> QED
        BY <3>2 DEF AllExact
  <2> QED
      BY <1>4, <2>1, <2>2, WorldExcuses, ChangesFacts
<1>5. CASE Asks \/ Subscribes \/ UNCHANGED vars
  <2>1. UNCHANGED <<past, jobs>>
      BY <1>0, <1>5, AsksFacts DEF Subscribes, disk, watch, vars
  <2> QED
      BY <1>2, <2>1
<1>6. ASSUME NEW s \in Slots, Begins(s) PROVE AllExact'
  <2> DEFINE j2 == Scan
  <2>1. /\ j2 \in Job /\ j2.todo = {Top} /\ j2.root = None
        /\ jobs' = [jobs EXCEPT ![s] = j2] /\ UNCHANGED past
      BY <1>0, <1>6, BeginFacts, ScanFacts DEF disk, Scan
  <2> HIDE DEF j2
  <2>2. Exact(j2)
      BY <1>0, <2>1 DEF Exact, Right, Marked
  <2> QED
      BY <1>3, <2>1, <2>2
<1>7. CASE BatchTaken
  <2> DEFINE j2 == Batch
  <2>1. /\ j2 \in Job /\ j2.kind # "scan" /\ jobs' = [jobs EXCEPT !["queue"] = j2]
        /\ UNCHANGED past
      BY <1>7, TakenIs DEF disk
  <2> HIDE DEF j2
  <2>2. \A s \in Slots : jobs'[s] # None /\ jobs'[s].kind = "scan" => jobs'[s] = jobs[s]
      BY <1>0, <2>1, SetJob
  <2> QED
      BY <1>2, <2>1, <2>2
<1>8. CASE Batches
  <2> PICK j2 \in Job, x \in Paths :
          jobs' = [jobs EXCEPT !["queue"] = j2] /\ BatchLooksAt(job, j2, x)
      BY <1>8 DEF Batches
  <2>1. j2.kind # "scan" /\ UNCHANGED past
      BY <1>8 DEF Batches, BatchLooksAt, Refreshes, Looked, disk
  <2>2. \A s \in Slots : jobs'[s] # None /\ jobs'[s].kind = "scan" => jobs'[s] = jobs[s]
      BY <1>0, <2>1, SetJob
  <2> QED
      BY <1>2, <2>1, <2>2
<1>9. ASSUME NEW s \in Slots, Scans(s) PROVE AllExact'
  <2> PICK j2 \in Job : jobs' = [jobs EXCEPT ![s] = j2] /\ ScanLooks(jobs[s], j2)
      BY <1>9 DEF Scans
  <2> PICK j : j = jobs[s]
      OBVIOUS
  <2>1. /\ j \in Job /\ j.kind = "scan" /\ ScanShape(j) /\ j # None /\ UNCHANGED past
        /\ j2.since = j.since /\ ScanLooks(j, j2) /\ (j.since = Now => Exact(j))
      BY <1>9, ScanShapeKept DEF Scans, disk, AllExact, Base
  <2>2. ASSUME Exact(j) PROVE Exact(j2)
    <3>1. \A p \in Paths : Right(j2, p) /\ Marked(j2, p)
      <4> TAKE p \in Paths
      <4>1. Right(j, p) /\ Marked(j, p) /\ (Home(p) # Top => Marked(j, Home(p)))
          BY <2>2, PathFacts DEF Exact, Paths
      <4> QED
          BY <2>1, <4>1, ScanRight
    <3>2. j2.root \in {None, tree.root}
      <4>1. CASE LooksAtRoot(j, j2)
          BY <4>1 DEF LooksAtRoot
      <4>2. CASE j2.root = j.root
          BY <2>2, <4>2 DEF Exact
      <4> QED
          BY <2>1, <4>1, <4>2 DEF ScanLooks, ListsTop, ListsFolder, ShutFolder
    <3> QED
        BY <3>1, <3>2 DEF Exact
  <2> QED
      BY <1>3, <2>1, <2>2
<1>10. ASSUME NEW s \in Slots, Leaves(s) PROVE AllExact'
    BY <1>2, <1>10, OthersLeft
<1>11. CASE Postpones
  <2> PICK j2 \in Job : jobs' = [jobs EXCEPT !["queue"] = j2] /\ Same(job, j2)
      BY <1>11 DEF Postpones
  <2>1. j2.kind # "scan" /\ UNCHANGED past
      BY <1>11 DEF Postpones, Same, disk
  <2>2. \A s \in Slots : jobs'[s] # None /\ jobs'[s].kind = "scan" => jobs'[s] = jobs[s]
      BY <1>0, <2>1, SetJob
  <2> QED
      BY <1>2, <2>1, <2>2
<1> QED
    BY <1>4, <1>5, <1>6, <1>7, <1>8, <1>9, <1>10, <1>11, Steps

LEMMA KnowsHolds == Spec => [](ScanDue /\ BatchDue /\ Excuses /\ AllKnown /\ AllExact)
<1>1. Init => ScanDue /\ BatchDue /\ Excuses /\ AllKnown /\ AllExact
  <2> SUFFICES ASSUME Init PROVE ScanDue /\ BatchDue /\ Excuses /\ AllKnown /\ AllExact
      OBVIOUS
  <2>1. /\ \A s \in Slots : jobs[s] = None
        /\ snapshot = None /\ ~requested /\ dirty = {} /\ excused = {} /\ tree.root = "here"
      BY DEF Init, tree, Now
  <2> QED
      BY <2>1 DEF ScanDue, BatchDue, Excuses, AllKnown, Known, AllExact
<1>2. /\ Base /\ ScanDue /\ BatchDue /\ Excuses /\ AllKnown /\ AllExact /\ [Next]_vars
         => (ScanDue /\ BatchDue /\ Excuses /\ AllKnown /\ AllExact)'
  <2> SUFFICES ASSUME Base, ScanDue, BatchDue, Excuses, AllKnown, AllExact, [Next]_vars
               PROVE  (ScanDue /\ BatchDue /\ Excuses /\ AllKnown /\ AllExact)'
      OBVIOUS
  <2> QED
      BY DuesKept, ExcusesKept, KnownKept, ExactKept
<1> QED
    BY <1>1, <1>2, BaseHolds, PTL DEF Spec

(* A watcher with nothing left to do shows every path as it is, but for    *)
(* the excused ones: no event is lost to a scan that was requested or ran  *)
(* when it came, nor one of a file that is still written                   *)
(* (watcher.ts:205, 161, 275).                                             *)
THEOREM IdleWatcherIsRight == Spec => []CaughtUpIsTrue
<1>1. Base /\ ScanDue /\ BatchDue /\ AllKnown => CaughtUpIsTrue
  <2> SUFFICES ASSUME Base, ScanDue, BatchDue, AllKnown PROVE CaughtUpIsTrue
      OBVIOUS
  <2>1. DirtyIsDue
    <3>1. tasks = <<>> => Len(tasks) = 0
        OBVIOUS
    <3> QED
        BY <3>1 DEF BatchDue, DirtyIsDue, Behind
  <2>2. ASSUME AtRest, tasks = <<>>, notices = {}, dirty = {}, snapshot # None,
               NEW p \in Paths, p \notin excused
        PROVE  True(p)
    <3>1. ~requested
        BY <2>2 DEF ScanDue, Behind
    <3>2. ~Due(p)
        BY <2>2, <3>1 DEF Due
    <3> QED
        BY <2>2, <3>2 DEF AllKnown, Known
  <2> QED
      BY <2>1, <2>2 DEF CaughtUpIsTrue
<1> QED
    BY <1>1, BaseHolds, KnowsHolds, PTL
=============================================================================
