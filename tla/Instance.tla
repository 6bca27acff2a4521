------------------------------ MODULE Instance ------------------------------
(***************************************************************************)
(* Processes that run the engine over one state store: `run` of            *)
(* cli/commands.ts, the lock file and the store of state/store.ts, the     *)
(* control socket of engine/control.ts, the check for a changed pair in    *)
(* engine/factory.ts, and `setup`, which changes the pair.                 *)
(*                                                                         *)
(* A process is its pid, which is free again when it is gone.  A call of   *)
(* the file system is one step, and so is a statement of the store: a      *)
(* process can die between any two.                                        *)
(***************************************************************************)
EXTENDS Integers, FiniteSets, TLC

CONSTANTS
    None,
    Pids,        \* pids there may be
    Locals,      \* directories that can be the local root
    Remotes,     \* uids of folders that can be the remote root
    FirstPair,   \* the pair that is configured at first
    MaxStarts,   \* bound: runs started
    MaxSetups,   \* bound: setups made
    MaxCrashes   \* bound: processes that die

Pairs == [local : Locals, remote : Remotes]
Locks == [by : Pids, written : BOOLEAN]

ASSUME InstanceAssumption ==
    /\ FirstPair \in Pairs
    /\ None \notin Pids \union Remotes /\ None \notin Locks
    /\ MaxStarts \in Nat /\ MaxSetups \in Nat /\ MaxCrashes \in Nat

VARIABLES
    (* The disk. *)
    config,    \* the pair of the config file
    lock,      \* the lock file: who made it, and whether the pid is in it
    socket,    \* the socket file: who listens, or None
    (* The store. *)
    root,      \* meta baseline_remote_root
    rows,      \* the baseline, by the pair a row is about and who recorded it
    archive,   \* the rows in meta archived_baseline
    journal,   \* the pairs with an unresolved operation
    (* The processes. *)
    pc, attempt, pair,
    listening, \* the sockets that answer
    (* Bounds, and history. *)
    starts, setups, crashes,
    raced      \* a process removed the lock file of one that lives

store == <<root, rows, archive, journal>>
process == <<pc, attempt, pair>>
bounds == <<starts, setups, crashes>>
vars == <<config, lock, socket, store, process, listening, bounds, raced>>

Opening == {"open", "recall", "archive", "clear", "record", "connect"}
Binding == {"bind_probe", "bind_unlink", "bind"}
Working == {"recover", "running", "operating"}
Leaving == {"close_socket", "unlink_socket", "close_store"}
Refused == {"give_up"}

(* The process has the store open. *)
HasStore(p) == pc[p] \in Opening \union Binding \union Working \union Leaving \union Refused
Alive(p) == pc[p] # "off"

Goes(p, to) == pc' = [pc EXCEPT ![p] = to]

(* The socket file is there, and somebody answers. *)
Answers == socket # None /\ socket \in listening

-----------------------------------------------------------------------------
(* run(): the config is read, then the socket is probed. *)

Starts(p) ==
    /\ pc[p] = "off" /\ starts < MaxStarts
    /\ starts' = starts + 1
    /\ Goes(p, "probe")
    /\ attempt' = [attempt EXCEPT ![p] = 0]
    /\ pair' = [pair EXCEPT ![p] = config]
    /\ UNCHANGED <<config, lock, socket, store, listening, setups, crashes, raced>>

Probes(p) ==
    /\ pc[p] = "probe"
    /\ Goes(p, IF Answers THEN "off" ELSE "create")
    /\ UNCHANGED <<config, lock, socket, store, attempt, pair, listening, bounds, raced>>

-----------------------------------------------------------------------------
(* acquireLock(): the file is made, then the pid is written to it. *)

LockCreated(p) ==
    /\ pc[p] = "create"
    /\ IF lock = None
       THEN lock' = [by |-> p, written |-> FALSE] /\ Goes(p, "write")
       ELSE Goes(p, "read") /\ UNCHANGED lock
    /\ UNCHANGED <<config, socket, store, attempt, pair, listening, bounds, raced>>

(* The write is to the file that was made, be it removed since. *)
LockWritten(p) ==
    /\ pc[p] = "write"
    /\ lock' = IF lock # None /\ lock.by = p THEN [lock EXCEPT !.written = TRUE] ELSE lock
    /\ Goes(p, "open")
    /\ UNCHANGED <<config, socket, store, attempt, pair, listening, bounds, raced>>

(* The pid of a live process is in it: StoreLockedError. *)
LockHeld == lock # None /\ lock.written /\ Alive(lock.by)

(* The lock file is that of a live process, which may not have written its *)
(* pid yet.                                                                *)
LockTaken == LockHeld \/ (lock # None /\ pc[lock.by] = "write")

(* Mutant: whoever is refused removes the lock file. *)
LockReadRemoving(p) ==
    /\ pc[p] = "read"
    /\ Goes(p, IF LockHeld THEN "off" ELSE "unlink")
    /\ lock' = IF LockHeld THEN None ELSE lock
    /\ UNCHANGED <<config, socket, store, attempt, pair, listening, bounds, raced>>

LockRead(p) ==
    /\ pc[p] = "read"
    /\ Goes(p, IF LockHeld THEN "off" ELSE "unlink")
    /\ UNCHANGED <<config, lock, socket, store, attempt, pair, listening, bounds, raced>>

(* Mutant: it is made again as often as it takes. *)
LockRemovedAgain(p) ==
    /\ pc[p] = "unlink"
    /\ lock' = None
    /\ raced' = (raced \/ LockTaken)
    /\ attempt' = [attempt EXCEPT ![p] = @ + 1]
    /\ Goes(p, "create")
    /\ UNCHANGED <<config, socket, store, pair, listening, bounds>>

(* Stale: it is removed, whatever it is by now, and made once more. *)
LockRemoved(p) ==
    /\ pc[p] = "unlink"
    /\ lock' = None
    /\ raced' = (raced \/ LockTaken)
    /\ IF attempt[p] = 0
       THEN attempt' = [attempt EXCEPT ![p] = 1] /\ Goes(p, "create")
       ELSE Goes(p, "off") /\ UNCHANGED attempt
    /\ UNCHANGED <<config, socket, store, pair, listening, bounds>>

(* close() of the store, and open() when it fails: whoever made the file.  *)
LockFileRemoved == lock' = None

-----------------------------------------------------------------------------
(* createEngine(): the store is opened; a baseline of another remote root  *)
(* is archived and cleared.                                                *)

(* The database is opened, checked and migrated, or is refused. *)
Opened(p) ==
    /\ pc[p] = "open"
    /\ \/ Goes(p, "recall") /\ UNCHANGED lock
       \/ Goes(p, "off") /\ LockFileRemoved
    /\ UNCHANGED <<config, socket, store, attempt, pair, listening, bounds, raced>>

(* Mutant: the rows are cleared before they are archived. *)
RootRecalledClearing(p) ==
    /\ pc[p] = "recall"
    /\ Goes(p, IF root = None THEN "record"
               ELSE IF root = pair[p].remote THEN "connect" ELSE "clear")
    /\ UNCHANGED <<config, lock, socket, store, attempt, pair, listening, bounds, raced>>

RootRecalled(p) ==
    /\ pc[p] = "recall"
    /\ Goes(p, IF root = None THEN "record"
               ELSE IF root = pair[p].remote THEN "connect"
               ELSE IF rows = {} THEN "clear" ELSE "archive")
    /\ UNCHANGED <<config, lock, socket, store, attempt, pair, listening, bounds, raced>>

(* Mutant: the new root is recorded with the archive, before the rows are  *)
(* cleared.                                                                *)
BaselineArchivedRecording(p) ==
    /\ pc[p] = "archive" /\ Goes(p, "clear")
    /\ archive' = archive \union rows
    /\ root' = pair[p].remote
    /\ UNCHANGED <<config, lock, socket, rows, journal, attempt, pair, listening, bounds, raced>>

BaselineArchived(p) ==
    /\ pc[p] = "archive" /\ Goes(p, "clear")
    /\ archive' = archive \union rows
    /\ UNCHANGED <<config, lock, socket, root, rows, journal, attempt, pair, listening, bounds,
                   raced>>

BaselineCleared(p) ==
    /\ pc[p] = "clear" /\ Goes(p, "record")
    /\ rows' = {}
    /\ UNCHANGED <<config, lock, socket, root, archive, journal, attempt, pair, listening,
                   bounds, raced>>

RootRecorded(p) ==
    /\ pc[p] = "record" /\ Goes(p, "connect")
    /\ root' = pair[p].remote
    /\ UNCHANGED <<config, lock, socket, rows, archive, journal, attempt, pair, listening,
                   bounds, raced>>

(* The root node is read: if that throws, the process ends and the store   *)
(* is not closed.  Then the details page is served, or the run is given up.*)
Connects(p) ==
    /\ pc[p] = "connect"
    /\ \E to \in {"bind_probe", "off", "give_up"} : Goes(p, to)
    /\ UNCHANGED <<config, lock, socket, store, attempt, pair, listening, bounds, raced>>

-----------------------------------------------------------------------------
(* listen() of the control socket. *)

SocketProbed(p) ==
    /\ pc[p] = "bind_probe"
    /\ Goes(p, IF socket = None THEN "bind" ELSE IF Answers THEN "give_up" ELSE "bind_unlink")
    /\ UNCHANGED <<config, lock, socket, store, attempt, pair, listening, bounds, raced>>

SocketUnlinked(p) ==
    /\ pc[p] = "bind_unlink"
    /\ Goes(p, IF socket = None THEN "give_up" ELSE "bind")
    /\ socket' = None
    /\ UNCHANGED <<config, lock, store, attempt, pair, listening, bounds, raced>>

SocketBound(p) ==
    /\ pc[p] = "bind"
    /\ IF socket = None
       THEN socket' = p /\ listening' = listening \union {p} /\ Goes(p, "recover")
       ELSE Goes(p, "give_up") /\ UNCHANGED <<socket, listening>>
    /\ UNCHANGED <<config, lock, store, attempt, pair, bounds, raced>>

(* The engine and the store are disposed of, and the run ends. *)
GivesUp(p) ==
    /\ pc[p] = "give_up" /\ Goes(p, "off")
    /\ LockFileRemoved
    /\ UNCHANGED <<config, socket, store, attempt, pair, listening, bounds, raced>>

-----------------------------------------------------------------------------
(* The engine at work, as far as the store tells instances apart.          *)

Row(q, who) == [pair |-> q, by |-> who]

(* recoverJournal() completes an operation or not, whatever pair it was    *)
(* begun with.                                                             *)
Recovers(p) ==
    /\ pc[p] = "recover" /\ Goes(p, "running")
    /\ \E done \in SUBSET journal : rows' = rows \union {Row(q, "recovery") : q \in done}
    /\ journal' = {}
    /\ UNCHANGED <<config, lock, socket, root, archive, attempt, pair, listening, bounds, raced>>

OperationBegins(p) ==
    /\ pc[p] = "running" /\ Goes(p, "operating")
    /\ journal' = journal \union {pair[p]}
    /\ UNCHANGED <<config, lock, socket, root, rows, archive, attempt, pair, listening, bounds,
                   raced>>

OperationEnds(p) ==
    /\ pc[p] = "operating" /\ Goes(p, "running")
    /\ journal' = journal \ {pair[p]}
    /\ rows' = rows \union {Row(pair[p], "cycle")}
    /\ UNCHANGED <<config, lock, socket, root, archive, attempt, pair, listening, bounds, raced>>

-----------------------------------------------------------------------------
(* stop(): the socket is closed, which removes its file, and the file is   *)
(* removed again; then, once the cycle has ended, the store is closed.     *)

StopBegins(p) ==
    /\ pc[p] \in {"recover", "running"} /\ Goes(p, "close_socket")
    /\ UNCHANGED <<config, lock, socket, store, attempt, pair, listening, bounds, raced>>

(* Mutant: the store is closed while the socket still is. *)
SocketClosedLate(p) ==
    /\ pc[p] = "close_socket" /\ Goes(p, "unlink_socket")
    /\ listening' = listening \ {p}
    /\ socket' = None
    /\ LockFileRemoved
    /\ UNCHANGED <<config, store, attempt, pair, bounds, raced>>

SocketClosed(p) ==
    /\ pc[p] = "close_socket" /\ Goes(p, "unlink_socket")
    /\ listening' = listening \ {p}
    /\ socket' = None
    /\ UNCHANGED <<config, lock, store, attempt, pair, bounds, raced>>

SocketFileRemoved(p) ==
    /\ pc[p] = "unlink_socket" /\ Goes(p, "close_store")
    /\ socket' = None
    /\ UNCHANGED <<config, lock, store, attempt, pair, listening, bounds, raced>>

StoreClosed(p) ==
    /\ pc[p] = "close_store" /\ Goes(p, "off")
    /\ LockFileRemoved
    /\ UNCHANGED <<config, socket, store, attempt, pair, listening, bounds, raced>>

(* A process dies: its files stay, and nobody answers on its socket. *)
Crashes(p) ==
    /\ Alive(p) /\ crashes < MaxCrashes
    /\ crashes' = crashes + 1
    /\ Goes(p, "off")
    /\ listening' = listening \ {p}
    /\ UNCHANGED <<config, lock, socket, store, attempt, pair, starts, setups, raced>>

(* setup: another pair, or a folder made anew at the path of the remote    *)
(* root.  A process that runs goes on with the pair it has read.           *)
SetsUp ==
    /\ setups < MaxSetups
    /\ setups' = setups + 1
    /\ \E q \in Pairs \ {config} : config' = q
    /\ UNCHANGED <<lock, socket, store, process, listening, starts, crashes, raced>>

-----------------------------------------------------------------------------

Init ==
    /\ config = FirstPair
    /\ lock = None /\ socket = None
    /\ root = None /\ rows = {} /\ archive = {} /\ journal = {}
    /\ pc = [p \in Pids |-> "off"]
    /\ attempt = [p \in Pids |-> 0]
    /\ pair = [p \in Pids |-> FirstPair]
    /\ listening = {}
    /\ starts = 0 /\ setups = 0 /\ crashes = 0
    /\ raced = FALSE

Run(p) ==
    \/ Starts(p) \/ Probes(p)
    \/ LockCreated(p) \/ LockWritten(p) \/ LockRead(p) \/ LockRemoved(p)
    \/ Opened(p) \/ RootRecalled(p) \/ BaselineArchived(p) \/ BaselineCleared(p)
    \/ RootRecorded(p) \/ Connects(p)
    \/ SocketProbed(p) \/ SocketUnlinked(p) \/ SocketBound(p) \/ GivesUp(p)
    \/ Recovers(p) \/ OperationBegins(p) \/ OperationEnds(p)
    \/ StopBegins(p) \/ SocketClosed(p) \/ SocketFileRemoved(p) \/ StoreClosed(p)
    \/ Crashes(p)

Next == SetsUp \/ \E p \in Pids : Run(p)

Spec == Init /\ [][Next]_vars

-----------------------------------------------------------------------------

TypeOK ==
    /\ config \in Pairs
    /\ lock \in Locks \union {None}
    /\ socket \in Pids \union {None}
    /\ root \in Remotes \union {None}
    /\ rows \subseteq [pair : Pairs, by : {"cycle", "recovery"}]
    /\ archive \subseteq [pair : Pairs, by : {"cycle", "recovery"}]
    /\ journal \subseteq Pairs
    /\ pc \in [Pids -> {"off", "probe", "create", "write", "read", "unlink"} \union Opening
                      \union Binding \union Working \union Leaving \union Refused]
    /\ attempt \in [Pids -> 0..1]
    /\ pair \in [Pids -> Pairs]
    /\ listening \subseteq Pids
    /\ starts \in 0..MaxStarts /\ setups \in 0..MaxSetups /\ crashes \in 0..MaxCrashes
    /\ raced \in BOOLEAN

(* At most one process has the store open, through crashes, refused starts *)
(* and stops, as long as no lock file of a live process was taken for a    *)
(* stale one (store.ts:62 acquireLock, store.ts:225 close).                *)
OneUnlessRaced ==
    raced \/ \A p, q \in Pids : HasStore(p) /\ HasStore(q) => p = q

(* The engine that works answers on the control socket: no other process   *)
(* that starts or stops takes its socket file away (control.ts:68 listen,  *)
(* control.ts:181 close).                                                  *)
Reachable ==
    raced \/ \A p \in Pids : pc[p] \in Working => socket = p /\ p \in listening

(* No cycle works on a baseline that was recorded with another remote      *)
(* root, wherever an earlier start was cut off (factory.ts:74).            *)
OldRowsArchived ==
    raced \/ \A p \in Pids, r \in rows :
                pc[p] \in Binding \union Working /\ r.by = "cycle"
                  => r.pair.remote = pair[p].remote

(* A row leaves the baseline for another pair only once it is archived.    *)
NothingForgotten == [][raced \/ rows \ rows' \subseteq archive]_vars
=============================================================================
