--------------------------- MODULE InstanceProofs ---------------------------
(***************************************************************************)
(* Theorems about Instance: whatever processes start, stop and die, and    *)
(* however often setup changes the pair.                                   *)
(*                                                                         *)
(* The argument is the lock file.  Whoever has the store, or is about to   *)
(* write its pid, is the one who made the lock file that is there          *)
(* (LockOwned); so it is alone, and what it has read of the store stays    *)
(* true until it acts on it (StoreAsSeen, RowsOfRoot).                     *)
(***************************************************************************)
EXTENDS Instance, TLAPS

(* The lock file that is there is that of the process with the store. *)
LockOwned ==
    \A p \in Pids :
        /\ HasStore(p) \/ pc[p] = "write" => lock # None /\ lock.by = p
        /\ HasStore(p) => lock.written

Alone == \A p, q \in Pids : HasStore(p) /\ HasStore(q) => p = q

(* What a process knows of the store at each of its steps. *)
StoreAsSeen ==
    \A p \in Pids :
        /\ pc[p] = "clear" => rows \subseteq archive
        /\ pc[p] = "record" => \A r \in rows : r.by # "cycle"
        /\ pc[p] \in {"connect"} \union Binding \union Working => root = pair[p].remote

(* The rows that cycles recorded are about the remote root of the store. *)
RowsOfRoot == \A r \in rows : r.by = "cycle" => r.pair.remote = root

(* The socket file is that of the process that works. *)
SocketOwned ==
    \A p \in Pids : pc[p] \in Working => socket = p /\ p \in listening

Inv ==
    /\ TypeOK
    /\ raced \/ (LockOwned /\ StoreAsSeen /\ RowsOfRoot /\ SocketOwned)

-----------------------------------------------------------------------------
(* The first states satisfy the invariant. *)
LEMMA InitInv == Init => Inv
<1> SUFFICES ASSUME Init PROVE Inv
    OBVIOUS
<1>1. TypeOK
  <2>1. FirstPair \in Pairs /\ MaxStarts \in Nat /\ MaxSetups \in Nat /\ MaxCrashes \in Nat
    BY InstanceAssumption
  <2>2. pc \in [Pids -> {"off"}] /\ attempt \in [Pids -> 0..1] /\ pair \in [Pids -> Pairs]
    BY <2>1 DEF Init
  <2>3. starts \in 0..MaxStarts /\ setups \in 0..MaxSetups /\ crashes \in 0..MaxCrashes
    BY <2>1 DEF Init
  <2> QED
    BY <2>1, <2>2, <2>3 DEF Init, TypeOK
<1>2. LockOwned /\ StoreAsSeen /\ RowsOfRoot /\ SocketOwned
    BY DEF Init, LockOwned, StoreAsSeen, RowsOfRoot, SocketOwned, HasStore,
           Opening, Binding, Working, Leaving, Refused
<1> QED
    BY <1>1, <1>2 DEF Inv

-----------------------------------------------------------------------------
LEMMA NewLock ==
    ASSUME NEW p \in Pids
    PROVE  /\ [by |-> p, written |-> FALSE] \in Locks
           /\ [by |-> p, written |-> FALSE].by = p
    BY DEF Locks

(* Every step keeps the types. *)
LEMMA TypeStep ==
    ASSUME TypeOK, [Next]_vars
    PROVE  TypeOK'
<1> USE InstanceAssumption DEF TypeOK, Goes, store, process, bounds, HasStore, Opening, Binding,
        Working, Leaving, Refused, Alive
<1>1. CASE SetsUp
    BY <1>1 DEF SetsUp
<1>2. CASE UNCHANGED vars
    BY <1>2 DEF vars
<1>3. CASE \E p \in Pids : Run(p)
  <2> SUFFICES ASSUME NEW p \in Pids, Run(p) PROVE TypeOK'
      BY <1>3
  <2>1. CASE Starts(p)
      BY <2>1 DEF Starts
  <2>2. CASE Probes(p)
      BY <2>2 DEF Probes
  <2>3. CASE LockCreated(p)
    <3>1. CASE lock = None
      <4>1. lock' \in Locks /\ pc' = [pc EXCEPT ![p] = "write"]
          BY <2>3, <3>1, NewLock DEF LockCreated
      <4> QED
          BY <2>3, <4>1 DEF LockCreated
    <3>2. CASE lock # None
        BY <2>3, <3>2 DEF LockCreated
    <3> QED
        BY <3>1, <3>2
  <2>4. CASE LockWritten(p)
      BY <2>4 DEF LockWritten, Locks
  <2>5. CASE LockRead(p)
      BY <2>5 DEF LockRead, LockHeld
  <2>6. CASE LockRemoved(p)
      BY <2>6 DEF LockRemoved, LockTaken, LockHeld
  <2>7. CASE Opened(p)
      BY <2>7 DEF Opened, LockFileRemoved
  <2>8. CASE RootRecalled(p)
      BY <2>8 DEF RootRecalled
  <2>9. CASE BaselineArchived(p)
      BY <2>9 DEF BaselineArchived
  <2>10. CASE BaselineCleared(p)
      BY <2>10 DEF BaselineCleared
  <2>11. CASE RootRecorded(p)
      BY <2>11 DEF RootRecorded, Pairs
  <2>12. CASE Connects(p)
      BY <2>12 DEF Connects
  <2>13. CASE SocketProbed(p)
      BY <2>13 DEF SocketProbed
  <2>14. CASE SocketUnlinked(p)
      BY <2>14 DEF SocketUnlinked
  <2>15. CASE SocketBound(p)
      BY <2>15 DEF SocketBound
  <2>16. CASE GivesUp(p)
      BY <2>16 DEF GivesUp, LockFileRemoved
  <2>17. CASE Recovers(p)
      BY <2>17 DEF Recovers, Row
  <2>18. CASE OperationBegins(p)
      BY <2>18 DEF OperationBegins
  <2>19. CASE OperationEnds(p)
      BY <2>19 DEF OperationEnds, Row
  <2>20. CASE StopBegins(p)
      BY <2>20 DEF StopBegins
  <2>21. CASE SocketClosed(p)
      BY <2>21 DEF SocketClosed
  <2>22. CASE SocketFileRemoved(p)
      BY <2>22 DEF SocketFileRemoved
  <2>23. CASE StoreClosed(p)
      BY <2>23 DEF StoreClosed, LockFileRemoved
  <2>24. CASE Crashes(p)
      BY <2>24 DEF Crashes
  <2> QED
      BY <2>1, <2>2, <2>3, <2>4, <2>5, <2>6, <2>7, <2>8, <2>9, <2>10, <2>11, <2>12, <2>13,
         <2>14, <2>15, <2>16, <2>17, <2>18, <2>19, <2>20, <2>21, <2>22, <2>23, <2>24 DEF Run
<1> QED
    BY <1>1, <1>2, <1>3 DEF Next

(* A step that takes no live process for a stale one keeps the lock file. *)
LEMMA LockStep ==
    ASSUME TypeOK, raced \/ LockOwned, [Next]_vars
    PROVE  raced' \/ LockOwned'
<1> USE InstanceAssumption DEF TypeOK, LockOwned, Goes, store, process, bounds, HasStore,
        Opening, Binding, Working, Leaving, Refused, Alive
<1>1. CASE SetsUp
    BY <1>1 DEF SetsUp
<1>2. CASE UNCHANGED vars
    BY <1>2 DEF vars
<1>3. CASE \E p \in Pids : Run(p)
  <2> SUFFICES ASSUME NEW p \in Pids, Run(p) PROVE raced' \/ LockOwned'
      BY <1>3
  <2>1. CASE Starts(p)
      BY <2>1 DEF Starts
  <2>2. CASE Probes(p)
      BY <2>2 DEF Probes
  <2>3. CASE LockCreated(p)
    <3>1. CASE raced
        BY <2>3, <3>1 DEF LockCreated
    <3>2. CASE ~raced /\ lock = None
      <4>1. \A q \in Pids : ~HasStore(q) /\ pc[q] # "write"
          BY <3>2
      <4>2. pc' = [pc EXCEPT ![p] = "write"] /\ lock' \in Locks /\ lock'.by = p
          BY <2>3, <3>2, NewLock DEF LockCreated
      <4> QED
          BY <4>1, <4>2
    <3>3. CASE ~raced /\ lock # None
        BY <2>3, <3>3 DEF LockCreated
    <3> QED
        BY <3>1, <3>2, <3>3
  <2>4. CASE LockWritten(p)
    <3>1. CASE raced
        BY <2>4, <3>1 DEF LockWritten, Locks
    <3>2. CASE ~raced
      <4>1. lock # None /\ lock.by = p /\ lock \in Locks
          BY <2>4, <3>2 DEF LockWritten, Locks
      <4>2. lock' = [lock EXCEPT !.written = TRUE] /\ pc' = [pc EXCEPT ![p] = "open"]
          BY <2>4, <4>1 DEF LockWritten, Locks
      <4>3. lock' \in Locks /\ lock'.by = p /\ lock'.written
          BY <4>1, <4>2 DEF Locks
      <4>4. \A q \in Pids : HasStore(q) \/ pc[q] = "write" => q = p
          BY <4>1, <3>2
      <4> QED
          BY <4>2, <4>3, <4>4
    <3> QED
        BY <3>1, <3>2
  <2>5. CASE LockRead(p)
      BY <2>5 DEF LockRead, LockHeld
  <2>6. CASE LockRemoved(p)
    <3>1. CASE raced \/ LockTaken
        BY <2>6, <3>1 DEF LockRemoved
    <3>2. CASE ~raced /\ ~LockTaken
      <4>1. \A q \in Pids : ~HasStore(q) /\ pc[q] # "write"
          BY <3>2 DEF LockTaken, LockHeld
      <4> QED
          BY <2>6, <4>1 DEF LockRemoved
    <3> QED
        BY <3>1, <3>2
  <2>7. CASE Opened(p)
      BY <2>7 DEF Opened, LockFileRemoved
  <2>8. CASE RootRecalled(p)
      BY <2>8 DEF RootRecalled
  <2>9. CASE BaselineArchived(p)
      BY <2>9 DEF BaselineArchived
  <2>10. CASE BaselineCleared(p)
      BY <2>10 DEF BaselineCleared
  <2>11. CASE RootRecorded(p)
      BY <2>11 DEF RootRecorded
  <2>12. CASE Connects(p)
      BY <2>12 DEF Connects
  <2>13. CASE SocketProbed(p)
      BY <2>13 DEF SocketProbed
  <2>14. CASE SocketUnlinked(p)
      BY <2>14 DEF SocketUnlinked
  <2>15. CASE SocketBound(p)
      BY <2>15 DEF SocketBound
  <2>16. CASE GivesUp(p)
      BY <2>16 DEF GivesUp, LockFileRemoved
  <2>17. CASE Recovers(p)
      BY <2>17 DEF Recovers, Row
  <2>18. CASE OperationBegins(p)
      BY <2>18 DEF OperationBegins
  <2>19. CASE OperationEnds(p)
      BY <2>19 DEF OperationEnds, Row
  <2>20. CASE StopBegins(p)
      BY <2>20 DEF StopBegins
  <2>21. CASE SocketClosed(p)
      BY <2>21 DEF SocketClosed
  <2>22. CASE SocketFileRemoved(p)
      BY <2>22 DEF SocketFileRemoved
  <2>23. CASE StoreClosed(p)
      BY <2>23 DEF StoreClosed, LockFileRemoved
  <2>24. CASE Crashes(p)
      BY <2>24 DEF Crashes
  <2> QED
      BY <2>1, <2>2, <2>3, <2>4, <2>5, <2>6, <2>7, <2>8, <2>9, <2>10, <2>11, <2>12, <2>13,
         <2>14, <2>15, <2>16, <2>17, <2>18, <2>19, <2>20, <2>21, <2>22, <2>23, <2>24 DEF Run
<1> QED
    BY <1>1, <1>2, <1>3 DEF Next

(* While one process has the store, what it has seen there stays true. *)
LEMMA StoreStep ==
    ASSUME TypeOK, Alone, StoreAsSeen, RowsOfRoot, [Next]_vars
    PROVE  (StoreAsSeen /\ RowsOfRoot)'
<1> USE InstanceAssumption DEF TypeOK, Pairs, StoreAsSeen, RowsOfRoot, Goes, store, process,
        bounds, Alone,
         HasStore, Opening, Binding, Working, Leaving, Refused
<1>1. CASE SetsUp
    BY <1>1 DEF SetsUp
<1>2. CASE UNCHANGED vars
    BY <1>2 DEF vars
<1>3. CASE \E p \in Pids : Run(p)
  <2> SUFFICES ASSUME NEW p \in Pids, Run(p) PROVE (StoreAsSeen /\ RowsOfRoot)'
      BY <1>3
  <2>1. CASE Starts(p)
      BY <2>1 DEF Starts
  <2>2. CASE Probes(p)
      BY <2>2 DEF Probes
  <2>3. CASE LockCreated(p)
      BY <2>3 DEF LockCreated
  <2>4. CASE LockWritten(p)
      BY <2>4 DEF LockWritten
  <2>5. CASE LockRead(p)
      BY <2>5 DEF LockRead, LockHeld
  <2>6. CASE LockRemoved(p)
      BY <2>6 DEF LockRemoved
  <2>7. CASE Opened(p)
      BY <2>7 DEF Opened, LockFileRemoved
  <2>8. CASE RootRecalled(p)
      BY <2>8 DEF RootRecalled
  <2>9. CASE BaselineArchived(p)
      BY <2>9 DEF BaselineArchived
  <2>10. CASE BaselineCleared(p)
      BY <2>10 DEF BaselineCleared
  <2>11. CASE RootRecorded(p)
      BY <2>11 DEF RootRecorded
  <2>12. CASE Connects(p)
      BY <2>12 DEF Connects
  <2>13. CASE SocketProbed(p)
      BY <2>13 DEF SocketProbed
  <2>14. CASE SocketUnlinked(p)
      BY <2>14 DEF SocketUnlinked
  <2>15. CASE SocketBound(p)
      BY <2>15 DEF SocketBound
  <2>16. CASE GivesUp(p)
      BY <2>16 DEF GivesUp, LockFileRemoved
  <2>17. CASE Recovers(p)
      BY <2>17 DEF Recovers, Row
  <2>18. CASE OperationBegins(p)
      BY <2>18 DEF OperationBegins
  <2>19. CASE OperationEnds(p)
      BY <2>19 DEF OperationEnds, Row
  <2>20. CASE StopBegins(p)
      BY <2>20 DEF StopBegins
  <2>21. CASE SocketClosed(p)
      BY <2>21 DEF SocketClosed
  <2>22. CASE SocketFileRemoved(p)
      BY <2>22 DEF SocketFileRemoved
  <2>23. CASE StoreClosed(p)
      BY <2>23 DEF StoreClosed, LockFileRemoved
  <2>24. CASE Crashes(p)
      BY <2>24 DEF Crashes
  <2> QED
      BY <2>1, <2>2, <2>3, <2>4, <2>5, <2>6, <2>7, <2>8, <2>9, <2>10, <2>11, <2>12, <2>13,
         <2>14, <2>15, <2>16, <2>17, <2>18, <2>19, <2>20, <2>21, <2>22, <2>23, <2>24 DEF Run
<1> QED
    BY <1>1, <1>2, <1>3 DEF Next

(* While one process has the store, the socket of the one that works stays. *)
LEMMA SocketStep ==
    ASSUME TypeOK, Alone, SocketOwned, [Next]_vars
    PROVE  SocketOwned'
<1> USE InstanceAssumption DEF TypeOK, SocketOwned, Goes, store, process, bounds, Alone,
         HasStore, Opening, Binding, Working, Leaving, Refused
<1>1. CASE SetsUp
    BY <1>1 DEF SetsUp
<1>2. CASE UNCHANGED vars
    BY <1>2 DEF vars
<1>3. CASE \E p \in Pids : Run(p)
  <2> SUFFICES ASSUME NEW p \in Pids, Run(p) PROVE SocketOwned'
      BY <1>3
  <2>1. CASE Starts(p)
      BY <2>1 DEF Starts
  <2>2. CASE Probes(p)
      BY <2>2 DEF Probes
  <2>3. CASE LockCreated(p)
      BY <2>3 DEF LockCreated
  <2>4. CASE LockWritten(p)
      BY <2>4 DEF LockWritten
  <2>5. CASE LockRead(p)
      BY <2>5 DEF LockRead, LockHeld
  <2>6. CASE LockRemoved(p)
      BY <2>6 DEF LockRemoved
  <2>7. CASE Opened(p)
      BY <2>7 DEF Opened, LockFileRemoved
  <2>8. CASE RootRecalled(p)
      BY <2>8 DEF RootRecalled
  <2>9. CASE BaselineArchived(p)
      BY <2>9 DEF BaselineArchived
  <2>10. CASE BaselineCleared(p)
      BY <2>10 DEF BaselineCleared
  <2>11. CASE RootRecorded(p)
      BY <2>11 DEF RootRecorded
  <2>12. CASE Connects(p)
      BY <2>12 DEF Connects
  <2>13. CASE SocketProbed(p)
      BY <2>13 DEF SocketProbed
  <2>14. CASE SocketUnlinked(p)
      BY <2>14 DEF SocketUnlinked
  <2>15. CASE SocketBound(p)
      BY <2>15 DEF SocketBound
  <2>16. CASE GivesUp(p)
      BY <2>16 DEF GivesUp, LockFileRemoved
  <2>17. CASE Recovers(p)
      BY <2>17 DEF Recovers, Row
  <2>18. CASE OperationBegins(p)
      BY <2>18 DEF OperationBegins
  <2>19. CASE OperationEnds(p)
      BY <2>19 DEF OperationEnds, Row
  <2>20. CASE StopBegins(p)
      BY <2>20 DEF StopBegins
  <2>21. CASE SocketClosed(p)
      BY <2>21 DEF SocketClosed
  <2>22. CASE SocketFileRemoved(p)
      BY <2>22 DEF SocketFileRemoved
  <2>23. CASE StoreClosed(p)
      BY <2>23 DEF StoreClosed, LockFileRemoved
  <2>24. CASE Crashes(p)
      BY <2>24 DEF Crashes
  <2> QED
      BY <2>1, <2>2, <2>3, <2>4, <2>5, <2>6, <2>7, <2>8, <2>9, <2>10, <2>11, <2>12, <2>13,
         <2>14, <2>15, <2>16, <2>17, <2>18, <2>19, <2>20, <2>21, <2>22, <2>23, <2>24 DEF Run
<1> QED
    BY <1>1, <1>2, <1>3 DEF Next

LEMMA LockOwnedAlone == LockOwned => Alone
    BY DEF LockOwned, Alone

LEMMA RacedStays == TypeOK /\ raced /\ [Next]_vars => raced'
<1> SUFFICES ASSUME TypeOK, raced, [Next]_vars PROVE raced'
    OBVIOUS
<1> QED
    BY DEF Next, Run, vars, bounds, SetsUp,
           Starts, Probes, LockCreated, LockWritten, LockRead, LockRemoved, Opened,
           RootRecalled, BaselineArchived, BaselineCleared, RootRecorded, Connects,
           SocketProbed, SocketUnlinked, SocketBound, GivesUp, Recovers,
           OperationBegins, OperationEnds, StopBegins, SocketClosed,
           SocketFileRemoved, StoreClosed, Crashes

LEMMA NextInv == Inv /\ [Next]_vars => Inv'
<1> SUFFICES ASSUME Inv, [Next]_vars PROVE Inv'
    OBVIOUS
<1>1. TypeOK'
    BY TypeStep DEF Inv
<1>2. CASE raced
    BY <1>1, <1>2, RacedStays DEF Inv
<1>3. CASE ~raced
  <2>1. raced' \/ LockOwned'
      BY <1>3, LockStep DEF Inv
  <2>2. Alone
      BY <1>3, LockOwnedAlone DEF Inv
  <2>3. (StoreAsSeen /\ RowsOfRoot)'
      BY <1>3, <2>2, StoreStep DEF Inv
  <2>4. SocketOwned'
      BY <1>3, <2>2, SocketStep DEF Inv
  <2> QED
      BY <1>1, <2>1, <2>3, <2>4 DEF Inv
<1> QED
    BY <1>2, <1>3

LEMMA Invariant == Spec => []Inv
<1>1. Init => Inv
    BY InitInv
<1>2. Inv /\ [Next]_vars => Inv'
    BY NextInv
<1> QED
    BY <1>1, <1>2, PTL DEF Spec

-----------------------------------------------------------------------------
(* The lock file, the socket file, the store and the processes keep their  *)
(* types.                                                                  *)
THEOREM InstanceTypeCorrect == Spec => []TypeOK
<1>1. Inv => TypeOK
    BY DEF Inv
<1> QED
    BY <1>1, Invariant, PTL

(* However many processes start, stop and die, at most one has the store   *)
(* open, unless the lock file of a live one was taken for a stale one.     *)
THEOREM OneHasTheStore == Spec => []OneUnlessRaced
<1>1. Inv => OneUnlessRaced
    BY LockOwnedAlone DEF Inv, Alone, OneUnlessRaced
<1> QED
    BY <1>1, Invariant, PTL

(* The process that works is the one that answers on the control socket.   *)
THEOREM WhoWorksAnswers == Spec => []Reachable
<1>1. Inv => Reachable
    BY DEF Inv, SocketOwned, Reachable
<1> QED
    BY <1>1, Invariant, PTL

(* No cycle works on rows that were recorded with another remote root,     *)
(* wherever an earlier start was cut off.                                  *)
THEOREM BaselineIsOfTheRoot == Spec => []OldRowsArchived
<1>1. Inv => OldRowsArchived
    BY DEF Inv, StoreAsSeen, RowsOfRoot, OldRowsArchived
<1> QED
    BY <1>1, Invariant, PTL

(* A row leaves the baseline for another pair only once it is archived.    *)
THEOREM NothingIsForgotten == Spec => NothingForgotten
<1>1. Inv /\ [Next]_vars => [raced \/ rows \ rows' \subseteq archive]_vars
  <2> SUFFICES ASSUME Inv, [Next]_vars
               PROVE  raced \/ rows \ rows' \subseteq archive
      OBVIOUS
  <2>1. CASE raced
      BY <2>1
  <2>2. CASE ~raced /\ \E p \in Pids : BaselineCleared(p)
      BY <2>2 DEF Inv, StoreAsSeen, BaselineCleared
  <2>3. CASE ~ \E p \in Pids : BaselineCleared(p)
    <3>1. rows \subseteq rows'
        BY <2>3 DEF Next, Run, vars, store, SetsUp, Row,
           Starts, Probes, LockCreated, LockWritten, LockRead, LockRemoved, Opened,
           RootRecalled, BaselineArchived, RootRecorded, Connects,
           SocketProbed, SocketUnlinked, SocketBound, GivesUp, Recovers,
           OperationBegins, OperationEnds, StopBegins, SocketClosed,
           SocketFileRemoved, StoreClosed, Crashes
    <3> QED
        BY <3>1
  <2> QED
      BY <2>1, <2>2, <2>3
<1> QED
    BY <1>1, Invariant, PTL DEF Spec, NothingForgotten
=============================================================================
