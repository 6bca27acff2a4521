---------------------------- MODULE EngineProofs ----------------------------
(***************************************************************************)
(* Theorems about Engine, for every set of differences, every brake limit  *)
(* and every combination of commands and failures.                         *)
(*                                                                         *)
(* The argument is the number of the held plan.  PlanGate gives out        *)
(* numbers one after the other, so that a new one stands for nothing yet,  *)
(* and a plan keeps its number only if it destroys the same; so the number *)
(* of the plan that is held stands for what the plan destroys now          *)
(* (HeldAsShown), and whoever confirms it by this number gets no more.     *)
(***************************************************************************)
EXTENDS Engine, TLAPS

CycleRecord ==
    [pc : {"off", "listing", "digest", "conflicts", "replan", "preflight", "run"},
     local : SUBSET LocalDiffs, shunned : SUBSET Diffs, ops : SUBSET Diffs,
     withheld : SUBSET Diffs, held : BOOLEAN]

(* The differences, and what the engine knows of them. *)
ViewsOK ==
    /\ work \subseteq Diffs /\ remoteView \subseteq RemoteDiffs
    /\ localView = None \/ localView \subseteq LocalDiffs
    /\ mirror \in [complete : BOOLEAN, available : BOOLEAN]

InboxOK == /\ handled \subseteq Diffs /\ conflicts \subseteq Diffs
           /\ quarantined \subseteq Diffs /\ left \subseteq Diffs

FlagsOK ==
    /\ rootUp \in BOOLEAN /\ subscribed \in BOOLEAN /\ feed \in BOOLEAN
    /\ session \in {"in", "lost", "out"}
    /\ startup \in {"off", "recover", "watch", "list"}
    /\ userPaused \in BOOLEAN /\ stopped \in BOOLEAN
    /\ dirty \in BOOLEAN /\ timer \in BOOLEAN

StateOK == state \in States

(* A cycle runs only once the watcher has scanned; its plan is not held before *)
(* the gate has seen it.                                                        *)
CycleOK == /\ cycle \in CycleRecord
           /\ cycle.pc # "off" => localView # None
           /\ cycle.held => cycle.pc = "run"

(* this.executor is one of those that run. *)
RunsOK == /\ runs \in [Callers -> RunOfPlan \cup {None}]
          /\ executor \in Callers \cup {None}
          /\ executor # None => runs[executor] # None

(* Numbers are given out one after the other, and that of the held plan was *)
(* given out for what the plan destroys.                                    *)
HeldAsShown ==
    /\ shown \in Seq(SUBSET Diffs) /\ seq = Len(shown)
    /\ gate # None => /\ gate \in HeldPlan /\ gate.id \in 1 .. Len(shown)
                      /\ gate.affected = gate.ops \cap Destructive
                      /\ gate.signature = gate.affected \cup gate.withheld
                      /\ shown[gate.id] = gate.signature

(* What was confirmed was confirmed by a number that stood for all of it. *)
ConfirmedAsShown ==
    runs["confirm"] # None =>
        /\ runs["confirm"].id \in 1 .. Len(shown)
        /\ runs["confirm"].touched \cap Destructive \subseteq shown[runs["confirm"].id]

Inv == /\ ViewsOK /\ InboxOK /\ FlagsOK /\ StateOK /\ CycleOK /\ RunsOK
       /\ HeldAsShown /\ ConfirmedAsShown

LEMMA InvImpliesTypeOK == Inv => TypeOK
<1> SUFFICES ASSUME Inv PROVE TypeOK
    OBVIOUS
<1>1. seq \in Nat /\ shown \in Seq(SUBSET Diffs) /\ DOMAIN shown = 1 .. Len(shown)
    BY DEF Inv, HeldAsShown
<1>2. gate # None => /\ gate \in HeldPlan /\ gate.id \in DOMAIN shown
                     /\ gate.affected \subseteq gate.ops
    BY <1>1 DEF Inv, HeldAsShown
<1>3. \A c \in Callers : runs[c] # None => runs[c] \in RunOfPlan
    BY DEF Inv, RunsOK
<1>4. executor # None => runs[executor] # None
    BY DEF Inv, RunsOK
<1>5. {userPaused, stopped, dirty, timer} \subseteq BOOLEAN
    BY DEF Inv, FlagsOK
<1>6. {handled, conflicts, quarantined, left} \subseteq SUBSET Diffs
    BY DEF Inv, InboxOK
<1> QED
    BY <1>1, <1>2, <1>3, <1>4, <1>5, <1>6
    DEF Inv, TypeOK, ViewsOK, FlagsOK, StateOK, CycleOK, CycleRecord

LEMMA InvImpliesConfirmedOnly == Inv => ConfirmedOnly
BY DEF Inv, ConfirmedAsShown, ConfirmedOnly

-----------------------------------------------------------------------------
(* The state machine stays among its states. *)

LEMMA SafelyState ==
    ASSUME NEW s \in States, NEW t \in States
    PROVE  Safely(s, t) \in States
BY DEF Safely

LEMMA RestingState == Resting \in States
BY DEF Resting, States

LEMMA FinishedState ==
    ASSUME NEW s \in States
    PROVE  Finished(s) \in States
BY SafelyState, RestingState DEF Finished

LEMMA FailureStateState ==
    ASSUME NEW s \in States, NEW kind \in {"auth", "connection", "listing", "throw"}
    PROVE  FailureState(s, kind) \in States
<1>1. {"needs_login", "offline", "error"} \subseteq States
    BY DEF States
<1> QED
    BY <1>1, SafelyState DEF FailureState

LEMMA StateOverState ==
    ASSUME StateOK, NEW c
    PROVE  StateOver(c) \in States
<1>1. {"needs_login", "error"} \subseteq States
    BY DEF States
<1> QED
    BY <1>1, SafelyState DEF StateOver, StateOK

-----------------------------------------------------------------------------
(* The helpers of the actions. *)

LEMMA NoCycleRecord ==
    NoCycle \in CycleRecord /\ NoCycle.pc = "off" /\ ~ NoCycle.held
BY DEF NoCycle, CycleRecord

LEMMA BeginCycleKeeps ==
    ASSUME NEW s \in States, BeginCycle(s), ViewsOK'
    PROVE  CycleOK' /\ StateOK' /\ dirty' \in BOOLEAN
<1>1. "scanning" \in States
    BY DEF States
<1>2. StateOK' /\ dirty' \in BOOLEAN
    BY <1>1, SafelyState DEF BeginCycle, StateOK
<1>3. CASE cycle' = NoCycle
    BY <1>2, <1>3, NoCycleRecord DEF CycleOK
<1>4. CASE cycle' # NoCycle
  <2>1. localView' # None /\ localView' \in SUBSET LocalDiffs
      BY <1>4 DEF BeginCycle, ViewsOK
  <2>2. PICK pc \in {"digest", "listing"} :
            cycle' = [NoCycle EXCEPT !.pc = pc, !.local = localView']
      BY <1>4 DEF BeginCycle
  <2>3. cycle' \in CycleRecord /\ ~ cycle'.held
      BY <2>1, <2>2, NoCycleRecord DEF CycleRecord
  <2> QED
      BY <1>2, <2>1, <2>3 DEF CycleOK
<1> QED
    BY <1>3, <1>4

LEMMA RunCycleKeeps ==
    ASSUME NEW s \in States, RunCycle(s), CycleOK, ViewsOK',
           localView # None => localView' # None
    PROVE  CycleOK' /\ StateOK' /\ dirty' \in BOOLEAN
<1>1. CASE cycle.pc = "off"
    BY <1>1, BeginCycleKeeps DEF RunCycle
<1>2. CASE cycle.pc # "off"
    BY <1>2 DEF RunCycle, CycleOK, StateOK
<1> QED
    BY <1>1, <1>2

LEMMA EndOnceKeeps ==
    ASSUME NEW s \in States, NEW again \in BOOLEAN, EndOnce(s, again), ViewsOK'
    PROVE  CycleOK' /\ StateOK' /\ dirty' \in BOOLEAN
<1>1. CASE ShouldRerun(again)
    BY <1>1, BeginCycleKeeps DEF EndOnce
<1>2. CASE ~ ShouldRerun(again)
    BY <1>2, NoCycleRecord DEF EndOnce, CycleOK, StateOK
<1> QED
    BY <1>1, <1>2

LEMMA ListingKeeps ==
    ASSUME ViewsOK, UNCHANGED <<work, localView>>, Listed \/ NotListed
    PROVE  ViewsOK'
<1> DEFINE Mirrors == [complete : BOOLEAN, available : BOOLEAN]
<1>1. mirror' \in Mirrors
  <2>1. /\ [complete |-> TRUE, available |-> TRUE] \in Mirrors
        /\ [complete |-> FALSE, available |-> FALSE] \in Mirrors
      OBVIOUS
  <2> HIDE DEF Mirrors
  <2> QED
      BY <2>1 DEF Listed, NotListed
<1>2. remoteView' \subseteq RemoteDiffs
    BY DEF Listed, NotListed, ViewsOK
<1> QED
    BY <1>1, <1>2 DEF ViewsOK

LEMMA TriggerKeeps ==
    ASSUME FlagsOK, Trigger
    PROVE  dirty' \in BOOLEAN /\ timer' \in BOOLEAN
BY DEF FlagsOK, Trigger

(* A run starts with a record of its own, and leaves the others alone. *)
LEMMA StartRunKeeps ==
    ASSUME RunsOK, FlagsOK, NEW caller \in Callers, NEW ops \in SUBSET Diffs,
           NEW id \in Nat, NEW s \in States, StartRun(caller, ops, id, s)
    PROVE  /\ RunsOK' /\ StateOK'
           /\ runs' = [runs EXCEPT ![caller] = [ops |-> ops, touched |-> ops,
                            paused |-> userPaused, end |-> None, id |-> id]]
<1> DEFINE run == [ops |-> ops, touched |-> ops, paused |-> userPaused,
                   end |-> None, id |-> id]
<1>1. run \in RunOfPlan /\ run # None
    BY EngineAssumption DEF RunOfPlan, FlagsOK
<1>2. runs' = [runs EXCEPT ![caller] = run] /\ executor' = caller
    BY DEF StartRun
<1> HIDE DEF run
<1>3. RunsOK'
    BY <1>1, <1>2 DEF RunsOK
<1>4. "syncing" \in States
    BY DEF States
<1> QED
    BY <1>2, <1>3, <1>4, SafelyState DEF StartRun, StateOK, run

(* What pauses, advances or ends a run leaves what it touches as it is. *)
LEMMA RunAmendKeeps ==
    ASSUME RunsOK, NEW c \in Callers, runs[c] # None, NEW r \in RunOfPlan,
           runs' = [runs EXCEPT ![c] = r], UNCHANGED <<executor, shown>>,
           r.touched = runs[c].touched, r.id = runs[c].id, ConfirmedAsShown
    PROVE  RunsOK' /\ ConfirmedAsShown'
<1>1. r # None
    BY EngineAssumption
<1>2. RunsOK'
    BY <1>1 DEF RunsOK
<1>3. "confirm" \in Callers
    BY DEF Callers
<1> QED
    BY <1>2, <1>3 DEF RunsOK, ConfirmedAsShown

LEMMA PauseExecutorKeeps ==
    ASSUME RunsOK, ConfirmedAsShown, PauseExecutor, UNCHANGED <<executor, shown>>
    PROVE  RunsOK' /\ ConfirmedAsShown'
<1>1. CASE executor = None
    BY <1>1 DEF PauseExecutor, RunsOK, ConfirmedAsShown
<1>2. CASE executor # None
  <2>1. executor \in Callers /\ runs[executor] \in RunOfPlan /\ runs[executor] # None
      BY <1>2 DEF RunsOK
  <2>2. PICK r : r = [runs[executor] EXCEPT !.paused = TRUE]
      OBVIOUS
  <2>3. r \in RunOfPlan /\ r.touched = runs[executor].touched /\ r.id = runs[executor].id
      BY <2>1, <2>2 DEF RunOfPlan
  <2>4. runs' = [runs EXCEPT ![executor] = r]
      BY <1>2, <2>2 DEF PauseExecutor
  <2> QED
      BY <2>1, <2>3, <2>4, RunAmendKeeps
<1> QED
    BY <1>1, <1>2

LEMMA RunReturnsKeeps ==
    ASSUME RunsOK, ViewsOK, ConfirmedAsShown, NEW c \in Callers, RunReturns(c),
           UNCHANGED <<shown, work, remoteView, mirror>>
    PROVE  /\ RunsOK' /\ ConfirmedAsShown' /\ ViewsOK'
           /\ localView # None => localView' # None
           /\ runs[c] \in RunOfPlan
<1>1. runs[c] \in RunOfPlan /\ runs[c].touched \subseteq Diffs
    BY DEF RunReturns, RunOver, RunsOK, RunOfPlan
<1>2. RunsOK'
    BY DEF RunReturns, RunsOK
<1>3. ConfirmedAsShown'
    BY DEF RunReturns, RunsOK, ConfirmedAsShown, Callers
<1>4. \/ localView' = localView
      \/ localView # None /\ localView' \in SUBSET LocalDiffs
    BY DEF RunReturns, ViewsOK
<1>5. ViewsOK' /\ (localView # None => localView' # None)
    BY <1>4, EngineAssumption DEF ViewsOK
<1> QED
    BY <1>1, <1>2, <1>3, <1>5

LEMMA PlannedPlan ==
    ASSUME NEW seen \in SUBSET Diffs
    PROVE  /\ Planned(seen).ops \subseteq Diffs
           /\ Planned(seen).withheld \subseteq Diffs
           /\ Blocked(seen) \subseteq Diffs
<1>1. Unsure(seen) \subseteq Diffs /\ LocalDiffs \subseteq Diffs
    BY DEF Unsure, Diffs
<1> QED
    BY <1>1 DEF Planned, Blocked

LEMMA GateAndExecuteKeeps ==
    ASSUME CycleOK, StateOK, FlagsOK, ViewsOK', localView' = localView,
           NEW plan, plan.ops \subseteq Diffs, plan.withheld \subseteq Diffs,
           cycle.pc \notin {"off", "run"}, GateAndExecute(plan)
    PROVE  CycleOK' /\ StateOK' /\ dirty' \in BOOLEAN
<1>1. Finished(state) \in States /\ dirty \in BOOLEAN
    BY FinishedState DEF StateOK, FlagsOK
<1>2. CASE plan.ops \cup plan.withheld = {}
    BY <1>1, <1>2, EndOnceKeeps DEF GateAndExecute
<1>3. CASE plan.ops \cup plan.withheld # {}
    BY <1>1, <1>3 DEF GateAndExecute, CycleOK, CycleRecord, StateOK
<1> QED
    BY <1>2, <1>3

(* A number stands for what it was given out for, for good. *)
LEMMA ShownAppend ==
    ASSUME shown \in Seq(SUBSET Diffs), NEW signature \in SUBSET Diffs
    PROVE  LET longer == Append(shown, signature)
           IN  /\ longer \in Seq(SUBSET Diffs) /\ Len(longer) = Len(shown) + 1
               /\ longer[Len(shown) + 1] = signature
               /\ \A id \in 1 .. Len(shown) : longer[id] = shown[id]
OBVIOUS

(* PlanGate.evaluate(): either the held plan is replaced by one that destroys *)
(* the same, or the number is new.                                            *)
LEMMA HoldKeeps ==
    ASSUME HeldAsShown, NEW plan, plan.ops \subseteq Diffs,
           plan.withheld \subseteq Diffs, Hold(plan)
    PROVE  /\ HeldAsShown'
           /\ Len(shown) <= Len(shown')
           /\ \A id \in 1 .. Len(shown) : shown'[id] = shown[id]
<1> DEFINE affected  == plan.ops \cap Destructive
           signature == affected \cup plan.withheld
<1>1. affected \subseteq Diffs /\ signature \in SUBSET Diffs
    OBVIOUS
<1>2. Len(shown) \in Nat /\ DOMAIN shown = 1 .. Len(shown)
    BY DEF HeldAsShown
<1>3. CASE SameHeld(signature)
  <2>1. gate # None /\ gate \in HeldPlan /\ gate.id \in 1 .. Len(shown)
        /\ shown[gate.id] = signature
      BY <1>3 DEF SameHeld, HeldAsShown
  <2>2. /\ gate' = [id |-> gate.id, ops |-> plan.ops, withheld |-> plan.withheld,
                    affected |-> affected, signature |-> signature]
        /\ seq' = seq /\ shown' = shown
      BY <1>2, <1>3, <2>1 DEF Hold
  <2> HIDE DEF affected, signature
  <2>3. gate' \in HeldPlan
      BY <1>1, <1>2, <2>1, <2>2 DEF HeldPlan
  <2>4. HeldAsShown'
      BY <2>1, <2>2, <2>3 DEF HeldAsShown, affected, signature
  <2> QED
      BY <1>2, <2>2, <2>4
<1>4. CASE ~ SameHeld(signature)
  <2> DEFINE id == Len(shown) + 1
  <2>1. seq = Len(shown) /\ shown \in Seq(SUBSET Diffs) /\ id \notin DOMAIN shown
      BY <1>2 DEF HeldAsShown
  <2>2. /\ gate' = [id |-> id, ops |-> plan.ops, withheld |-> plan.withheld,
                    affected |-> affected, signature |-> signature]
        /\ seq' = id /\ shown' = Append(shown, signature)
      BY <1>4, <2>1 DEF Hold
  <2>3. /\ shown' \in Seq(SUBSET Diffs) /\ Len(shown') = id /\ shown'[id] = signature
        /\ \A n \in 1 .. Len(shown) : shown'[n] = shown[n]
      BY <1>1, <2>1, <2>2, ShownAppend
  <2>4. id \in Nat /\ id \in 1 .. id /\ Len(shown) <= id
      BY <1>2
  <2> HIDE DEF affected, signature, id
  <2>5. gate' \in HeldPlan
      BY <1>1, <2>2, <2>4 DEF HeldPlan
  <2>6. HeldAsShown'
      BY <2>2, <2>3, <2>4, <2>5 DEF HeldAsShown, affected, signature
  <2> QED
      BY <2>3, <2>4, <2>6
<1> QED
    BY <1>3, <1>4

(* A confirmed plan that nobody touches stays confirmed by its number. *)
LEMMA ConfirmedStays ==
    ASSUME HeldAsShown, ConfirmedAsShown, runs'["confirm"] = runs["confirm"],
           Len(shown') \in Nat, Len(shown) <= Len(shown'),
           \A id \in 1 .. Len(shown) : shown'[id] = shown[id]
    PROVE  ConfirmedAsShown'
<1>1. Len(shown) \in Nat
    BY DEF HeldAsShown
<1> QED
    BY <1>1 DEF ConfirmedAsShown

LEMMA HoldingStays ==
    ASSUME HeldAsShown, UNCHANGED holding
    PROVE  HeldAsShown'
BY DEF HeldAsShown, holding

LEMMA RunningStays ==
    ASSUME RunsOK, ConfirmedAsShown, UNCHANGED running, UNCHANGED shown
    PROVE  RunsOK' /\ ConfirmedAsShown'
BY DEF RunsOK, ConfirmedAsShown, running

-----------------------------------------------------------------------------
(* The first states satisfy the invariant. *)

LEMMA InitInv == Init => Inv
<1> SUFFICES ASSUME Init PROVE Inv
    OBVIOUS
<1>1. ViewsOK /\ InboxOK
    BY DEF Init, ViewsOK, InboxOK
<1>2. FlagsOK
  <2>1. session \in {"in", "out"} /\ userPaused \in BOOLEAN
      BY EngineAssumption DEF Init
  <2> QED
      BY <2>1 DEF Init, FlagsOK
<1>3. StateOK /\ CycleOK
    BY NoCycleRecord DEF Init, StateOK, States, CycleOK
<1>4. RunsOK /\ ConfirmedAsShown
    BY DEF Init, RunsOK, ConfirmedAsShown, Callers
<1>5. HeldAsShown
    BY DEF Init, HeldAsShown
<1> QED
    BY <1>1, <1>2, <1>3, <1>4, <1>5 DEF Inv

-----------------------------------------------------------------------------
(* start() keeps the invariant. *)

LEMMA StartKeeps ==
    ASSUME Inv, Start
    PROVE  Inv'
<1> USE DEF Inv
<1>1. CASE StartRecovered
  <2>1. ViewsOK' /\ InboxOK' /\ FlagsOK' /\ StateOK' /\ CycleOK'
      BY <1>1 DEF StartRecovered, ViewsOK, InboxOK, FlagsOK, StateOK, CycleOK,
                  views, login, control, inbox
  <2>2. HeldAsShown' /\ RunsOK' /\ ConfirmedAsShown'
      BY <1>1, HoldingStays, RunningStays DEF StartRecovered, holding
  <2> QED
      BY <2>1, <2>2
<1>2. CASE StartWatched
  <2>1. /\ ViewsOK' /\ (localView # None => localView' # None)
        /\ InboxOK' /\ StateOK'
      BY <1>2, EngineAssumption
      DEF StartWatched, ViewsOK, InboxOK, StateOK, inbox, Diffs
  <2>2. FlagsOK'
      BY <1>2, TriggerKeeps DEF StartWatched, FlagsOK, control
  <2>3. CycleOK'
      BY <1>2, <2>1 DEF StartWatched, CycleOK
  <2>4. HeldAsShown' /\ RunsOK' /\ ConfirmedAsShown'
      BY <1>2, HoldingStays, RunningStays DEF StartWatched, holding
  <2> QED
      BY <2>1, <2>2, <2>3, <2>4
<1>3. CASE StartListed
  <2>1. ViewsOK' /\ InboxOK'
      BY <1>3, ListingKeeps DEF StartListed, InboxOK, inbox
  <2>2. PICK s \in States : StartEnds(s)
      BY <1>3, FailureStateState DEF StartListed, StateOK
  <2>3. CycleOK' /\ StateOK' /\ dirty' \in BOOLEAN
    <3>1. CASE userPaused
      <4>1. "paused" \in States
          BY DEF States
      <4>2. state' = Safely(s, "paused") /\ UNCHANGED <<dirty, cycle, localView>>
          BY <1>3, <2>2, <3>1 DEF StartEnds, StartListed
      <4> QED
          BY <4>1, <4>2, SafelyState DEF StateOK, CycleOK, FlagsOK
    <3>2. CASE ~ userPaused
        BY <1>3, <2>1, <2>2, <3>2, RunCycleKeeps DEF StartEnds, StartListed
    <3> QED
        BY <3>1, <3>2
  <2>4. FlagsOK'
      BY <1>3, <2>3 DEF StartListed, FlagsOK, control
  <2>5. HeldAsShown' /\ RunsOK' /\ ConfirmedAsShown'
      BY <1>3, HoldingStays, RunningStays DEF StartListed, holding
  <2> QED
      BY <2>1, <2>3, <2>4, <2>5
<1> QED
    BY <1>1, <1>2, <1>3 DEF Start

-----------------------------------------------------------------------------
(* What watcher, feed, timers, session and throttling bring keeps it. *)

LEMMA ReportsKeep ==
    ASSUME Inv, \/ LocalChanges \/ RootRestored \/ RootUnavailable
                \/ (\E d \in RemoteDiffs : RemoteEvent(d))
                \/ (\E d \in Diffs : Change(d))
    PROVE  Inv'
<1> USE DEF Inv
<1>1. HeldAsShown' /\ RunsOK' /\ ConfirmedAsShown' /\ InboxOK'
    BY HoldingStays, RunningStays
    DEF LocalChanges, RootRestored, RootUnavailable, RemoteEvent, Change, holding,
        InboxOK, inbox
<1>2. ViewsOK' /\ (localView # None => localView' # None)
    BY EngineAssumption
    DEF LocalChanges, RootRestored, RootUnavailable, RemoteEvent, Change, views,
        ViewsOK, Diffs
<1>3. CycleOK'
    BY <1>2
    DEF LocalChanges, RootRestored, RootUnavailable, RemoteEvent, Change, CycleOK
<1>4. FlagsOK'
  <2>1. Trigger \/ UNCHANGED <<dirty, timer>>
      BY DEF LocalChanges, RootRestored, RootUnavailable, RemoteEvent, Change
  <2>2. dirty' \in BOOLEAN /\ timer' \in BOOLEAN
      BY <2>1, TriggerKeeps DEF FlagsOK
  <2>3. UNCHANGED <<subscribed, feed, session, startup, userPaused, stopped>>
      BY DEF LocalChanges, RootRestored, RootUnavailable, RemoteEvent, Change,
             login, control
  <2>4. rootUp' \in BOOLEAN
      BY DEF LocalChanges, RootRestored, RootUnavailable, RemoteEvent, Change,
             views, FlagsOK
  <2> QED
      BY <2>2, <2>3, <2>4 DEF FlagsOK
<1>5. StateOK'
  <2>1. "error" \in States
      BY DEF States
  <2> QED
      BY <2>1, SafelyState
      DEF LocalChanges, RootRestored, RootUnavailable, RemoteEvent, Change, StateOK
<1> QED
    BY <1>1, <1>2, <1>3, <1>4, <1>5

LEMMA PeriodicListingKeeps ==
    ASSUME Inv, PeriodicListing
    PROVE  Inv'
<1> USE DEF Inv
<1>1. HeldAsShown' /\ RunsOK' /\ ConfirmedAsShown' /\ InboxOK'
    BY HoldingStays, RunningStays DEF PeriodicListing, holding, InboxOK, inbox
<1>2. ViewsOK'
    BY ListingKeeps DEF PeriodicListing, Relisted
<1>3. CycleOK'
    BY DEF PeriodicListing, CycleOK
<1>4. FlagsOK'
  <2>1. Trigger \/ UNCHANGED <<dirty, timer>>
      BY DEF PeriodicListing, Relisted
  <2>2. dirty' \in BOOLEAN /\ timer' \in BOOLEAN
      BY <2>1, TriggerKeeps DEF FlagsOK
  <2>3. UNCHANGED <<rootUp, subscribed, feed, session, startup, userPaused, stopped>>
      BY DEF PeriodicListing, login, control
  <2> QED
      BY <2>2, <2>3 DEF FlagsOK
<1>5. StateOK'
    BY FailureStateState DEF PeriodicListing, Relisted, StateOK
<1> QED
    BY <1>1, <1>2, <1>3, <1>4, <1>5

LEMMA StatusKeeps ==
    ASSUME Inv, \/ Throttled \/ Unthrottled \/ SessionLost \/ SessionCleared
                \/ Stopped
    PROVE  Inv'
<1> USE DEF Inv
<1>1. HeldAsShown' /\ RunsOK' /\ ConfirmedAsShown' /\ InboxOK' /\ ViewsOK' /\ CycleOK'
    BY HoldingStays, RunningStays
    DEF Throttled, Unthrottled, SessionLost, SessionCleared, Stopped, holding,
        InboxOK, inbox, ViewsOK, views, CycleOK
<1>2. FlagsOK'
    BY DEF Throttled, Unthrottled, SessionLost, SessionCleared, Stopped, views,
           login, control, FlagsOK
<1>3. StateOK'
  <2>1. {"throttled", "syncing", "needs_login", "stopped"} \subseteq States
      BY DEF States
  <2> QED
      BY <2>1, SafelyState, RestingState
      DEF Throttled, Unthrottled, SessionLost, SessionCleared, Stopped, StateOK
<1> QED
    BY <1>1, <1>2, <1>3

LEMMA TimerFiresKeeps ==
    ASSUME Inv, TimerFires
    PROVE  Inv'
<1> USE DEF Inv
<1>1. HeldAsShown' /\ RunsOK' /\ ConfirmedAsShown' /\ InboxOK' /\ ViewsOK'
    BY HoldingStays, RunningStays
    DEF TimerFires, holding, InboxOK, inbox, ViewsOK
<1>2. CycleOK' /\ StateOK' /\ dirty' \in BOOLEAN
    BY <1>1, RunCycleKeeps DEF TimerFires, StateOK
<1>3. FlagsOK'
    BY <1>2 DEF TimerFires, FlagsOK, control
<1> QED
    BY <1>1, <1>2, <1>3

-----------------------------------------------------------------------------
(* A cycle keeps the invariant. *)

LEMMA CycleListingKeeps ==
    ASSUME Inv, CycleListing
    PROVE  Inv'
<1> USE DEF Inv
<1>1. HeldAsShown' /\ RunsOK' /\ ConfirmedAsShown' /\ InboxOK'
  <2>1. cycle.local \cup remoteView \subseteq Diffs
      BY DEF CycleOK, CycleRecord, ViewsOK, Diffs
  <2>2. left' \subseteq left \cup cycle.local \cup remoteView
      BY DEF CycleListing
  <2>3. InboxOK'
      BY <2>1, <2>2 DEF CycleListing, InboxOK, inbox
  <2> QED
      BY <2>3, HoldingStays, RunningStays DEF CycleListing, holding
<1>2. ViewsOK'
    BY ListingKeeps DEF CycleListing
<1>3. CycleOK' /\ StateOK' /\ dirty' \in BOOLEAN
  <2>1. CASE Listed
    <3>1. \/ /\ cycle' = [cycle EXCEPT !.pc = "digest"]
             /\ UNCHANGED <<state, dirty, localView>>
          \/ \E kind \in {"auth", "connection", "listing"} :
                EndOnce(FailureState(state, kind), dirty)
        BY DEF CycleListing
    <3>2. dirty \in BOOLEAN /\ state \in States
        BY DEF FlagsOK, StateOK
    <3>3. CASE /\ cycle' = [cycle EXCEPT !.pc = "digest"]
               /\ UNCHANGED <<state, dirty, localView>>
        BY <3>2, <3>3 DEF CycleOK, CycleRecord, StateOK, CycleListing
    <3> QED
        BY <1>2, <3>1, <3>2, <3>3, EndOnceKeeps, FailureStateState
  <2>2. CASE ~ Listed
    <3>1. PICK kind \in {"auth", "connection", "listing"} : EndOnce(FailureState(state, kind), dirty)
        BY <2>2 DEF CycleListing
    <3> QED
        BY <1>2, <3>1, EndOnceKeeps, FailureStateState DEF FlagsOK, StateOK
  <2> QED
      BY <2>1, <2>2
<1>4. FlagsOK'
    BY <1>3 DEF CycleListing, FlagsOK, control
<1> QED
    BY <1>1, <1>2, <1>3, <1>4

LEMMA PlanningKeeps ==
    ASSUME Inv, CyclePlans \/ CycleReplans
    PROVE  Inv'
<1> USE DEF Inv
<1>1. HeldAsShown' /\ RunsOK' /\ ConfirmedAsShown' /\ ViewsOK'
    BY HoldingStays, RunningStays DEF CyclePlans, CycleReplans, holding, ViewsOK
<1>2. cycle.local \cup remoteView \subseteq Diffs /\ quarantined \subseteq Diffs
    BY DEF CycleOK, CycleRecord, ViewsOK, InboxOK, Diffs
<1>3. CASE CyclePlans
  <2> DEFINE seen == (cycle.local \cup remoteView) \ quarantined
             new  == (seen \cap Conflicting) \ handled
  <2>1. seen \in SUBSET Diffs /\ new \subseteq Diffs
      BY <1>2
  <2>2. cycle.pc = "digest" /\ UNCHANGED <<localView, inbox>>
      BY <1>3 DEF CyclePlans
  <2>3. left' = Blocked(seen)
      BY <1>3 DEF CyclePlans
  <2>4. \/ /\ cycle' = [cycle EXCEPT !.pc = "conflicts", !.ops = new,
                                     !.shunned = quarantined]
           /\ UNCHANGED <<state, dirty>>
        \/ GateAndExecute(Planned(seen))
      BY <1>3 DEF CyclePlans
  <2>5. UNCHANGED <<rootUp, subscribed, feed, session, startup, userPaused, stopped, timer>>
      BY <1>3 DEF CyclePlans, control
  <2> HIDE DEF seen, new
  <2>6. InboxOK'
      BY <2>1, <2>2, <2>3, PlannedPlan DEF InboxOK, inbox
  <2>7. CycleOK' /\ StateOK' /\ dirty' \in BOOLEAN
    <3>1. CASE /\ cycle' = [cycle EXCEPT !.pc = "conflicts", !.ops = new,
                                         !.shunned = quarantined]
               /\ UNCHANGED <<state, dirty>>
        BY <1>2, <2>1, <2>2, <3>1 DEF CycleOK, CycleRecord, StateOK, FlagsOK
    <3>2. CASE GateAndExecute(Planned(seen))
        BY <1>1, <2>1, <2>2, <3>2, PlannedPlan, GateAndExecuteKeeps
    <3> QED
        BY <2>4, <3>1, <3>2
  <2>8. FlagsOK'
      BY <2>5, <2>7 DEF FlagsOK
  <2> QED
      BY <1>1, <2>6, <2>7, <2>8
<1>4. CASE CycleReplans
  <2> DEFINE seen == (cycle.local \cup remoteView) \ cycle.shunned
             plan == Planned(seen \ (Conflicting \ handled))
  <2>1. seen \in SUBSET Diffs /\ seen \ (Conflicting \ handled) \in SUBSET Diffs
      BY <1>2
  <2>2. cycle.pc = "replan" /\ UNCHANGED <<localView, inbox>>
      BY <1>4 DEF CycleReplans
  <2>3. left' = Blocked(seen) /\ GateAndExecute(plan)
      BY <1>4 DEF CycleReplans
  <2>4. UNCHANGED <<rootUp, subscribed, feed, session, startup, userPaused, stopped, timer>>
      BY <1>4 DEF CycleReplans, control
  <2>5. plan.ops \subseteq Diffs /\ plan.withheld \subseteq Diffs
      BY <2>1, PlannedPlan
  <2> HIDE DEF seen, plan
  <2>6. InboxOK'
      BY <2>1, <2>2, <2>3, PlannedPlan DEF InboxOK, inbox
  <2>7. CycleOK' /\ StateOK' /\ dirty' \in BOOLEAN
      BY <1>1, <2>2, <2>3, <2>5, GateAndExecuteKeeps
  <2>8. FlagsOK'
      BY <2>4, <2>7 DEF FlagsOK
  <2> QED
      BY <1>1, <2>6, <2>7, <2>8
<1> QED
    BY <1>3, <1>4

LEMMA CycleThrowsKeeps ==
    ASSUME Inv, CycleThrows
    PROVE  Inv'
<1> USE DEF Inv
<1>1. HeldAsShown' /\ RunsOK' /\ ConfirmedAsShown'
    BY HoldingStays, RunningStays DEF CycleThrows, holding
<1>2. ViewsOK'
  <2>1. PICK kind \in {"auth", "connection", "throw"} : FailureEffects(kind)
      BY DEF CycleThrows
  <2>2. mirror' = mirror \/ mirror' = [mirror EXCEPT !.available = FALSE]
      BY <2>1 DEF FailureEffects
  <2>3. mirror' \in [complete : BOOLEAN, available : BOOLEAN]
      BY <2>2 DEF ViewsOK
  <2>4. UNCHANGED <<work, localView, remoteView>>
      BY DEF CycleThrows
  <2> QED
      BY <2>3, <2>4 DEF ViewsOK
<1>3. InboxOK'
  <2>1. cycle.ops \subseteq Diffs /\ cycle.local \cup remoteView \subseteq Diffs
      BY DEF CycleOK, CycleRecord, ViewsOK, Diffs
  <2>2. PICK done \in SUBSET (IF cycle.pc = "conflicts" THEN cycle.ops ELSE {}) :
            handled' = handled \cup done /\ conflicts' = conflicts \cup done
      BY DEF CycleThrows
  <2>3. done \subseteq Diffs
      BY <2>1, <2>2
  <2> QED
      BY <2>1, <2>2, <2>3 DEF CycleThrows, InboxOK
<1>4. CycleOK' /\ StateOK' /\ dirty' \in BOOLEAN
  <2>1. PICK kind \in {"auth", "connection", "throw"} : EndOnce(FailureState(state, kind), dirty)
      BY DEF CycleThrows
  <2> QED
      BY <1>2, <2>1, EndOnceKeeps, FailureStateState DEF FlagsOK, StateOK
<1>5. FlagsOK'
    BY <1>4 DEF CycleThrows, FlagsOK, control
<1> QED
    BY <1>1, <1>2, <1>3, <1>4, <1>5

LEMMA CycleHandlesKeeps ==
    ASSUME Inv, CycleHandles
    PROVE  Inv'
<1> USE DEF Inv
<1>1. HeldAsShown' /\ RunsOK' /\ ConfirmedAsShown'
    BY HoldingStays, RunningStays DEF CycleHandles, holding
<1>2. cycle.ops \subseteq Diffs /\ cycle.pc = "conflicts" /\ localView # None
    BY DEF CycleHandles, CycleOK, CycleRecord
<1>3. localView' # None /\ localView' \in SUBSET LocalDiffs
    BY <1>2, EngineAssumption DEF CycleHandles, ViewsOK
<1>4. ViewsOK'
    BY <1>3 DEF CycleHandles, ViewsOK
<1>5. InboxOK'
    BY <1>2 DEF CycleHandles, InboxOK
<1>6. CycleOK' /\ StateOK'
    BY <1>3 DEF CycleHandles, CycleOK, CycleRecord, StateOK
<1>7. FlagsOK'
  <2>1. Trigger \/ UNCHANGED <<dirty, timer>>
      BY DEF CycleHandles
  <2>2. dirty' \in BOOLEAN /\ timer' \in BOOLEAN
      BY <2>1, TriggerKeeps DEF FlagsOK
  <2>3. UNCHANGED <<rootUp, subscribed, feed, session, startup, userPaused, stopped>>
      BY DEF CycleHandles, login, control
  <2> QED
      BY <2>2, <2>3 DEF FlagsOK
<1> QED
    BY <1>1, <1>4, <1>5, <1>6, <1>7

LEMMA PreflightFailsKeeps ==
    ASSUME Inv, PreflightFails
    PROVE  Inv'
<1> USE DEF Inv
<1>1. HeldAsShown' /\ RunsOK' /\ ConfirmedAsShown' /\ ViewsOK'
    BY HoldingStays, RunningStays DEF PreflightFails, holding, ViewsOK
<1>2. InboxOK'
    BY DEF PreflightFails, InboxOK, inbox, CycleOK, CycleRecord
<1>3. CycleOK' /\ StateOK' /\ dirty' \in BOOLEAN
  <2>1. EndOnce(Safely(state, "error"), dirty)
      BY DEF PreflightFails
  <2>2. Safely(state, "error") \in States
      BY SafelyState DEF StateOK, States
  <2> QED
      BY <1>1, <2>1, <2>2, EndOnceKeeps DEF FlagsOK
<1>4. FlagsOK'
    BY <1>3 DEF PreflightFails, FlagsOK, control
<1> QED
    BY <1>1, <1>2, <1>3, <1>4

LEMMA CycleGatesKeeps ==
    ASSUME Inv, CycleGates
    PROVE  Inv'
<1> USE DEF Inv
<1> DEFINE safe == cycle.ops \ (cycle.ops \cap Destructive)
<1>1. cycle \in CycleRecord /\ cycle.ops \subseteq Diffs /\ cycle.withheld \subseteq Diffs
    BY DEF CycleOK, CycleRecord
<1>2. localView # None /\ UNCHANGED <<localView, inbox, work, remoteView, mirror, left>>
    BY DEF CycleGates, CycleOK
<1>3. ViewsOK' /\ InboxOK'
    BY <1>2 DEF ViewsOK, InboxOK, inbox
<1>4. UNCHANGED <<rootUp, subscribed, feed, session, startup, userPaused, stopped, timer>>
    BY DEF CycleGates, control
<1>5. "cycle" \in Callers /\ "awaiting_confirmation" \in States /\ 0 \in Nat
      /\ state \in States /\ safe \in SUBSET Diffs /\ cycle.ops \in SUBSET Diffs
    BY <1>1 DEF Callers, States, StateOK
<1>6. /\ RunsOK' /\ StateOK' /\ CycleOK' /\ dirty' \in BOOLEAN
      /\ runs'["confirm"] = runs["confirm"]
  <2>1. ASSUME NEW ops \in SUBSET Diffs, StartRun("cycle", ops, 0, state)
        PROVE  RunsOK' /\ StateOK' /\ runs'["confirm"] = runs["confirm"]
    <3>1. RunsOK' /\ StateOK'
        BY <1>5, <2>1, StartRunKeeps
    <3>2. PICK run : runs' = [runs EXCEPT !["cycle"] = run]
        BY <2>1 DEF StartRun
    <3> QED
        BY <3>1, <3>2 DEF RunsOK, Callers
  <2>2. CASE /\ EndOnce(Safely(state, "awaiting_confirmation"), dirty)
             /\ UNCHANGED running
      BY <1>3, <1>5, <2>2, EndOnceKeeps, SafelyState DEF FlagsOK, RunsOK, running
  <2>3. CASE /\ cycle' = [cycle EXCEPT !.pc = "run", !.held = TRUE]
             /\ StartRun("cycle", safe, 0, state) /\ UNCHANGED dirty
      BY <1>1, <1>2, <1>5, <2>1, <2>3 DEF CycleOK, CycleRecord, FlagsOK
  <2>4. CASE /\ cycle' = [cycle EXCEPT !.pc = "run"]
             /\ StartRun("cycle", cycle.ops, 0, state) /\ UNCHANGED dirty
      BY <1>1, <1>2, <1>5, <2>1, <2>4 DEF CycleOK, CycleRecord, FlagsOK
  <2> QED
      BY <2>2, <2>3, <2>4 DEF CycleGates
<1>7. /\ HeldAsShown' /\ Len(shown') \in Nat /\ Len(shown) <= Len(shown')
      /\ \A id \in 1 .. Len(shown) : shown'[id] = shown[id]
  <2>1. CASE Hold(cycle)
      BY <1>1, <2>1, HoldKeeps DEF HeldAsShown
  <2>2. CASE gate' = None /\ UNCHANGED <<seq, shown>>
      BY <2>2 DEF HeldAsShown
  <2> QED
      BY <2>1, <2>2 DEF CycleGates
<1>8. ConfirmedAsShown'
    BY <1>6, <1>7, ConfirmedStays
<1>9. FlagsOK'
    BY <1>4, <1>6 DEF FlagsOK
<1> QED
    BY <1>3, <1>6, <1>7, <1>8, <1>9

-----------------------------------------------------------------------------
(* What a run does, and its end, keep the invariant. *)

LEMMA RunItemKeeps ==
    ASSUME Inv, NEW c \in Callers, NEW d \in Diffs, RunItem(c, d)
    PROVE  Inv'
<1> USE DEF Inv
<1>1. HeldAsShown' /\ CycleOK' /\ StateOK'
  <2>1. UNCHANGED <<holding, state, cycle>> /\ (localView # None => localView' # None)
      BY EngineAssumption DEF RunItem, ViewsOK
  <2> QED
      BY <2>1, HoldingStays DEF CycleOK, StateOK
<1>2. FlagsOK'
    BY DEF RunItem, FlagsOK, login, control
<1>3. InboxOK'
    BY DEF RunItem, InboxOK
<1>4. ViewsOK'
  <2>1. /\ work' = work \/ work' = work \ {d}
        /\ remoteView' = remoteView \/ remoteView' = remoteView \ {d}
        /\ mirror' = mirror
      BY DEF RunItem
  <2>2. \/ localView' = localView
        \/ localView # None /\ localView' = localView \ {d}
      BY DEF RunItem
  <2> QED
      BY <2>1, <2>2 DEF ViewsOK
<1>5. RunsOK' /\ ConfirmedAsShown'
  <2>1. runs[c] \in RunOfPlan /\ runs[c] # None /\ UNCHANGED <<executor, shown>>
      BY DEF RunItem, RunsOK, holding
  <2>2. \/ runs' = [runs EXCEPT ![c] = [runs[c] EXCEPT !.ops = runs[c].ops \ {d}]]
        \/ \E kind \in {"auth", "disk_full"} :
              runs' = [runs EXCEPT ![c] = [runs[c] EXCEPT !.end = kind]]
      BY DEF RunItem, RunsOK
  <2>3. CASE runs' = [runs EXCEPT ![c] = [runs[c] EXCEPT !.ops = runs[c].ops \ {d}]]
    <3>1. PICK r : r = [runs[c] EXCEPT !.ops = runs[c].ops \ {d}]
        OBVIOUS
    <3>2. r \in RunOfPlan /\ r.touched = runs[c].touched /\ r.id = runs[c].id
        BY <2>1, <3>1 DEF RunOfPlan
    <3> QED
        BY <2>1, <2>3, <3>1, <3>2, RunAmendKeeps
  <2>4. ASSUME NEW kind \in {"auth", "disk_full"},
               runs' = [runs EXCEPT ![c] = [runs[c] EXCEPT !.end = kind]]
        PROVE  RunsOK' /\ ConfirmedAsShown'
    <3>1. PICK r : r = [runs[c] EXCEPT !.end = kind]
        OBVIOUS
    <3>2. r \in RunOfPlan /\ r.touched = runs[c].touched /\ r.id = runs[c].id
        BY <2>1, <3>1 DEF RunOfPlan
    <3> QED
        BY <2>1, <2>4, <3>1, <3>2, RunAmendKeeps
  <2> QED
      BY <2>2, <2>3, <2>4
<1> QED
    BY <1>1, <1>2, <1>3, <1>4, <1>5

LEMMA CycleRunEndsKeeps ==
    ASSUME Inv, CycleRunEnds
    PROVE  Inv'
<1> USE DEF Inv
<1>1. RunReturns("cycle") /\ UNCHANGED <<holding, inbox, work, remoteView, mirror>>
    BY DEF CycleRunEnds
<1>2. "cycle" \in Callers /\ "awaiting_confirmation" \in States
    BY DEF Callers, States
<1>3. /\ RunsOK' /\ ConfirmedAsShown' /\ ViewsOK' /\ HeldAsShown'
      /\ runs["cycle"] \in RunOfPlan
    BY <1>1, <1>2, RunReturnsKeeps, HoldingStays DEF holding
<1>4. InboxOK'
  <2>1. runs["cycle"].ops \subseteq Diffs /\ cycle.withheld \subseteq Diffs
      BY <1>3 DEF RunOfPlan, CycleOK, CycleRecord
  <2> QED
      BY <1>1, <2>1 DEF CycleRunEnds, InboxOK, inbox
<1>5. CycleOK' /\ StateOK' /\ dirty' \in BOOLEAN
  <2> DEFINE s == StateOver("cycle")
             news == localView' # localView /\ ~ stopped /\ ~ userPaused
             s2 == IF cycle.held THEN Safely(s, "awaiting_confirmation") ELSE Finished(s)
             again == dirty \/ news
  <2>1. EndOnce(s2, again)
      BY DEF CycleRunEnds
  <2>2. s \in States
      BY StateOverState
  <2>3. s2 \in States
      BY <1>2, <2>2, SafelyState, FinishedState
  <2>4. again \in BOOLEAN
      BY DEF FlagsOK
  <2> HIDE DEF s2, again
  <2> QED
      BY <1>3, <2>1, <2>3, <2>4, EndOnceKeeps
<1>6. FlagsOK'
  <2>1. UNCHANGED <<rootUp, subscribed, feed, session, startup, userPaused, stopped>>
      BY DEF CycleRunEnds, control
  <2>2. timer' \in BOOLEAN
      BY DEF CycleRunEnds, FlagsOK
  <2> QED
      BY <1>5, <2>1, <2>2 DEF FlagsOK
<1> QED
    BY <1>3, <1>4, <1>5, <1>6

LEMMA OtherRunEndsKeeps ==
    ASSUME Inv, ConfirmRunEnds \/ ResolveRunEnds
    PROVE  Inv'
<1> USE DEF Inv
<1>1. PICK c \in {"confirm", "resolve"} :
          /\ RunReturns(c)
          /\ left' = left \/ left' = left \cup runs[c].ops
          /\ state' \in {StateOver(c), Finished(StateOver(c))}
    BY DEF ConfirmRunEnds, ResolveRunEnds
<1>2. UNCHANGED <<holding, inbox, work, remoteView, mirror, rootUp, login, control, cycle>>
    BY DEF ConfirmRunEnds, ResolveRunEnds
<1>3. c \in Callers
    BY DEF Callers
<1>4. /\ RunsOK' /\ ConfirmedAsShown' /\ ViewsOK' /\ HeldAsShown'
      /\ localView # None => localView' # None
      /\ runs[c] \in RunOfPlan
    BY <1>1, <1>2, <1>3, RunReturnsKeeps, HoldingStays DEF holding
<1>5. InboxOK'
  <2>1. runs[c].ops \subseteq Diffs
      BY <1>4 DEF RunOfPlan
  <2> QED
      BY <1>1, <1>2, <2>1 DEF InboxOK, inbox
<1>6. CycleOK' /\ StateOK'
    BY <1>1, <1>2, <1>4, StateOverState, FinishedState DEF CycleOK, StateOK
<1>7. FlagsOK'
  <2>1. Trigger \/ UNCHANGED <<dirty, timer>>
      BY DEF ConfirmRunEnds, ResolveRunEnds
  <2>2. dirty' \in BOOLEAN /\ timer' \in BOOLEAN
      BY <2>1, TriggerKeeps DEF FlagsOK
  <2> QED
      BY <1>2, <2>2 DEF FlagsOK, login, control
<1> QED
    BY <1>4, <1>5, <1>6, <1>7

-----------------------------------------------------------------------------
(* The commands keep the invariant. *)

LEMMA PauseKeeps ==
    ASSUME Inv, Pause \/ Stop
    PROVE  Inv'
<1> USE DEF Inv
<1>1. UNCHANGED <<views, inbox, left, holding, work, cycle, executor, dirty>> /\ PauseExecutor
    BY DEF Pause, Stop
<1>2. ViewsOK' /\ InboxOK' /\ HeldAsShown' /\ CycleOK'
    BY <1>1, HoldingStays DEF ViewsOK, views, InboxOK, inbox, CycleOK
<1>3. RunsOK' /\ ConfirmedAsShown'
    BY <1>1, PauseExecutorKeeps DEF holding
<1>4. FlagsOK'
  <2>1. /\ userPaused' \in BOOLEAN /\ stopped' \in BOOLEAN /\ timer' \in BOOLEAN
        /\ feed' \in BOOLEAN
      BY DEF Pause, Stop, FlagsOK, login
  <2>2. UNCHANGED <<rootUp, dirty, session, subscribed, startup>>
      BY <1>1 DEF Pause, Stop, views, login
  <2> QED
      BY <2>1, <2>2 DEF FlagsOK
<1>5. StateOK'
  <2>1. "paused" \in States
      BY DEF States
  <2> QED
      BY <2>1, SafelyState DEF Pause, Stop, StateOK
<1> QED
    BY <1>2, <1>3, <1>4, <1>5

LEMMA RunCycleCommandsKeep ==
    ASSUME Inv, Resume \/ SyncNow
    PROVE  Inv'
<1> USE DEF Inv
<1>1. UNCHANGED <<views, inbox, left, holding, work, running>>
    BY DEF Resume, SyncNow
<1>2. ViewsOK' /\ InboxOK' /\ HeldAsShown' /\ RunsOK' /\ ConfirmedAsShown'
    BY <1>1, HoldingStays, RunningStays DEF ViewsOK, views, InboxOK, inbox, holding
<1>3. PICK s \in States : RunCycle(s)
  <2>1. "idle" \in States
      BY DEF States
  <2> QED
      BY <2>1 DEF Resume, SyncNow, StateOK
<1>4. CycleOK' /\ StateOK' /\ dirty' \in BOOLEAN
    BY <1>1, <1>2, <1>3, RunCycleKeeps DEF views
<1>5. userPaused' \in BOOLEAN
    BY DEF Resume, SyncNow, control, FlagsOK
<1>6. UNCHANGED <<rootUp, subscribed, feed, session, startup, stopped, timer>>
    BY DEF Resume, SyncNow, views, control
<1>7. FlagsOK'
    BY <1>4, <1>5, <1>6 DEF FlagsOK
<1> QED
    BY <1>2, <1>4, <1>7

(* confirmHeldPlan(): what starts is what the number stands for. *)
LEMMA ConfirmKeeps ==
    ASSUME Inv, Confirm
    PROVE  Inv'
<1> USE DEF Inv
<1> DEFINE ops == gate.ops \cup gate.withheld
<1>1. UNCHANGED <<views, inbox, left, work, cycle, login, control, dirty, timer, seq, shown>>
    BY DEF Confirm
<1>2. ViewsOK' /\ InboxOK' /\ CycleOK' /\ FlagsOK'
    BY <1>1 DEF ViewsOK, views, InboxOK, inbox, CycleOK, FlagsOK, login, control
<1>3. HeldAsShown'
    BY <1>1 DEF Confirm, HeldAsShown
<1>4. /\ gate # None /\ gate \in HeldPlan /\ gate.id \in 1 .. Len(shown)
      /\ gate.affected = gate.ops \cap Destructive
      /\ gate.signature = gate.affected \cup gate.withheld
      /\ shown[gate.id] = gate.signature
    BY DEF Confirm, HeldAsShown
<1>5. ops \in SUBSET Diffs /\ gate.id \in Nat
    BY <1>4 DEF HeldPlan
<1>6. ops \cap Destructive \subseteq shown[gate.id]
    BY <1>4
<1>7. "confirm" \in Callers /\ state \in States
    BY DEF Callers, StateOK
<1>8. StartRun("confirm", ops, gate.id, state)
    BY DEF Confirm
<1> HIDE DEF ops
<1>9. /\ RunsOK' /\ StateOK'
      /\ runs' = [runs EXCEPT !["confirm"] = [ops |-> ops, touched |-> ops,
                      paused |-> userPaused, end |-> None, id |-> gate.id]]
    BY <1>5, <1>7, <1>8, StartRunKeeps
<1>10. runs'["confirm"].touched = ops /\ runs'["confirm"].id = gate.id
    BY <1>7, <1>9 DEF RunsOK
<1>11. ConfirmedAsShown'
    BY <1>1, <1>4, <1>6, <1>10 DEF ConfirmedAsShown
<1> QED
    BY <1>2, <1>3, <1>9, <1>11

LEMMA ResolveKeeps ==
    ASSUME Inv, NEW d \in Diffs, Resolve(d) \/ Release(d)
    PROVE  Inv'
<1> USE DEF Inv
<1>1. UNCHANGED <<views, left, holding, work, cycle, login, control>>
    BY DEF Resolve, Release
<1>2. ViewsOK' /\ InboxOK' /\ HeldAsShown' /\ CycleOK'
    BY <1>1, HoldingStays
    DEF ViewsOK, views, InboxOK, inbox, CycleOK, Resolve, Release
<1>3. FlagsOK'
  <2>1. Trigger \/ UNCHANGED <<dirty, timer>>
      BY DEF Resolve, Release
  <2>2. dirty' \in BOOLEAN /\ timer' \in BOOLEAN
      BY <2>1, TriggerKeeps DEF FlagsOK
  <2> QED
      BY <1>1, <2>2 DEF FlagsOK, views, login, control
<1>4. RunsOK' /\ StateOK' /\ ConfirmedAsShown'
  <2>1. CASE UNCHANGED <<state, running>>
      BY <1>1, <2>1, RunningStays DEF StateOK, holding
  <2>2. CASE StartRun("resolve", {d}, 0, state)
    <3>1. "resolve" \in Callers /\ {d} \in SUBSET Diffs /\ 0 \in Nat /\ state \in States
        BY DEF Callers, StateOK
    <3>2. RunsOK' /\ StateOK'
        BY <2>2, <3>1, StartRunKeeps
    <3>3. PICK run : runs' = [runs EXCEPT !["resolve"] = run]
        BY <2>2 DEF StartRun
    <3>4. runs'["confirm"] = runs["confirm"]
        BY <3>3 DEF RunsOK, Callers
    <3> QED
        BY <1>1, <3>2, <3>4 DEF ConfirmedAsShown, holding
  <2> QED
      BY <2>1, <2>2 DEF Resolve, Release
<1> QED
    BY <1>2, <1>3, <1>4

LEMMA RejectPlanKeeps ==
    ASSUME Inv, RejectPlan
    PROVE  Inv'
<1> USE DEF Inv
<1>1. ViewsOK' /\ CycleOK' /\ FlagsOK' /\ RunsOK' /\ ConfirmedAsShown'
    BY RunningStays
    DEF RejectPlan, ViewsOK, views, CycleOK, FlagsOK, login, control
<1>2. InboxOK'
  <2>1. gate.signature \subseteq Diffs
      BY DEF RejectPlan, HeldAsShown, HeldPlan
  <2> QED
      BY <2>1 DEF RejectPlan, InboxOK, inbox
<1>3. StateOK' /\ HeldAsShown'
    BY SafelyState, RestingState DEF RejectPlan, StateOK, HeldAsShown
<1> QED
    BY <1>1, <1>2, <1>3

LEMMA LogInKeeps ==
    ASSUME Inv, LogIn
    PROVE  Inv'
<1> USE DEF Inv
<1>1. ViewsOK' /\ CycleOK' /\ RunsOK' /\ ConfirmedAsShown' /\ HeldAsShown'
    BY RunningStays, HoldingStays DEF LogIn, ViewsOK, views, CycleOK, holding
<1>2. InboxOK'
    BY DEF LogIn, InboxOK, inbox
<1>3. FlagsOK'
    BY DEF LogIn, FlagsOK, views, control
<1>4. StateOK'
    BY DEF LogIn, StateOK, States
<1> QED
    BY <1>1, <1>2, <1>3, <1>4

-----------------------------------------------------------------------------

LEMMA StutterInv == Inv /\ UNCHANGED vars => Inv'
BY DEF vars, views, login, control, running, holding, inbox, Inv, ViewsOK, InboxOK,
       FlagsOK, StateOK, CycleOK, RunsOK, HeldAsShown, ConfirmedAsShown

LEMMA NextInv == Inv /\ [Next]_vars => Inv'
<1> SUFFICES ASSUME Inv, [Next]_vars
             PROVE  Inv'
    OBVIOUS
<1>1. CASE UNCHANGED vars
    BY <1>1, StutterInv
<1>2. CASE Program
  <2>1. CASE Start \/ Inputs \/ TimerFires \/ Unthrottled \/ SessionCleared \/ Stopped
      BY <2>1, StartKeeps, ReportsKeep, TimerFiresKeeps, StatusKeeps DEF Inputs
  <2>2. CASE Cycle
      BY <2>2, CycleListingKeeps, PlanningKeeps, CycleThrowsKeeps, CycleHandlesKeeps,
         PreflightFailsKeeps, CycleGatesKeeps, CycleRunEndsKeeps DEF Cycle
  <2>3. CASE Run
      BY <2>3, RunItemKeeps, OtherRunEndsKeeps DEF Run
  <2> QED
      BY <1>2, <2>1, <2>2, <2>3 DEF Program
<1>3. CASE User
    BY <1>3, PauseKeeps, RunCycleCommandsKeep, ConfirmKeeps, RejectPlanKeeps,
       LogInKeeps, ResolveKeeps DEF User
<1>4. CASE World
    BY <1>4, ReportsKeep, StatusKeeps DEF World
<1>5. CASE PeriodicListing
    BY <1>5, PeriodicListingKeeps
<1> QED
    BY <1>1, <1>2, <1>3, <1>4, <1>5 DEF Next

LEMMA Invariant == Spec => []Inv
<1>1. Init => Inv
    BY InitInv
<1>2. Inv /\ [Next]_vars => Inv'
    BY NextInv
<1> QED
    BY <1>1, <1>2, PTL DEF Spec

-----------------------------------------------------------------------------
(* Whatever is commanded and whatever fails, every variable keeps its type, *)
(* this.executor is one that runs, and the held plan has a number that was  *)
(* given out.                                                               *)
THEOREM EngineTypeCorrect == Spec => []TypeOK
BY Invariant, InvImpliesTypeOK, PTL

(* Whoever confirms a plan by its number gets nothing deleted or replaced   *)
(* that the number did not stand for when it was shown, whatever cycles ran *)
(* and however the held plan changed in between (PlanGate.evaluate(),       *)
(* confirmHeldPlan()).                                                      *)
THEOREM ConfirmedAsNumbered == Spec => []ConfirmedOnly
BY Invariant, InvImpliesConfirmedOnly, PTL
-----------------------------------------------------------------------------
(* The status is truthful at rest.                                         *)
(*                                                                         *)
(* The argument follows a difference that there is and that the engine has *)
(* seen (Open).  It comes into a view only with a trigger, and a trigger   *)
(* is forgotten only by a cycle that begins with both views; this cycle    *)
(* plans it, quarantines it, executes it, has it held or gives it up, and  *)
(* each of these leaves a trace (Covered).  What is left once the engine   *)
(* is quiet are the traces of what was given up.                           *)

(* The differences that there are and that the engine has seen. *)
Open == Seen \cap work

Halted == stopped \/ userPaused

(* Another cycle follows. *)
Woken == timer \/ (cycle.pc # "off" /\ dirty)

(* The end of each of these starts a cycle, or leaves all to the next trigger. *)
Away == session = "out" \/ startup # "off" \/ ~ rootUp \/ localView = None

(* What waits for a confirmation, and what the runs have yet to do. *)
Held == IF gate = None THEN {} ELSE gate.signature
Undone(c) == IF runs[c] = None THEN {} ELSE runs[c].ops
Accounted ==
    quarantined \cup left \cup Held \cup Undone("cycle") \cup Undone("confirm")

(* The cycle began with a view that showed them. *)
Looked == Open \subseteq cycle.local \cup remoteView

(* What covers the open differences in each phase of a cycle. *)
OffCovers == Away \/ Open \subseteq Accounted
ConflictsCover ==
    /\ Looked /\ Open \cap cycle.shunned \subseteq quarantined
    /\ (Open \cap Conflicting) \ handled \subseteq
          cycle.shunned \cup (IF cycle.pc = "conflicts" THEN cycle.ops ELSE {})
PreflightCovers ==
    /\ Looked
    /\ ~ rootUp \/ Open \subseteq quarantined \cup left \cup cycle.ops \cup cycle.withheld
RunCovers ==
    ~ rootUp \/ Open \subseteq Accounted \cup (IF cycle.held THEN {} ELSE cycle.withheld)

Covered ==
    \/ Halted \/ Woken
    \/ cycle.pc = "off" /\ OffCovers
    \/ cycle.pc \in {"listing", "digest"} /\ Looked
    \/ cycle.pc \in {"conflicts", "replan"} /\ ConflictsCover
    \/ cycle.pc = "preflight" /\ PreflightCovers
    \/ cycle.pc = "run" /\ RunCovers

Busy == {"scanning", "syncing"}
Restful == {"idle", "attention"}

(* A held plan shows in the status, unless all of it is left for now. *)
HeldShows ==
    gate # None /\ state \in Restful /\ cycle.pc = "off"
        => session = "out" \/ gate.signature \subseteq left

(* The status is busy only as long as something goes on that will change it. *)
BusyForCause ==
    state \in Busy =>
        \/ cycle.pc # "off" \/ timer \/ Halted
        \/ session = "out" \/ startup # "off" \/ localView = None
        \/ runs["confirm"] # None \/ runs["resolve"] # None
        \/ left = Diffs

RestInv == Covered /\ HeldShows /\ BusyForCause

LEMMA RestImplied == Inv /\ RestInv => RestIsTruthful
<1> SUFFICES ASSUME Inv, RestInv, Quiet
             PROVE  /\ state \in {"idle", "attention"} =>
                           /\ work \subseteq quarantined \cup left
                           /\ gate # None => gate.signature \subseteq left
                    /\ left # Diffs => state \notin {"scanning", "syncing"}
    BY DEF RestIsTruthful, NotBusyAtRest
<1>1. /\ ~ Halted /\ ~ Woken /\ cycle.pc = "off" /\ ~ timer
      /\ session = "in" /\ startup = "off" /\ rootUp
      /\ \A c \in Callers : runs[c] = None
    BY DEF Quiet, Halted, Woken
<1>2. work \subseteq Diffs /\ work \cap LocalDiffs # None
    BY EngineAssumption DEF Inv, ViewsOK
<1>3. Open = work /\ localView # None
    BY <1>2 DEF Quiet, Open, Seen, Diffs
<1>4. Open \subseteq Accounted
    BY <1>1, <1>3 DEF RestInv, Covered, OffCovers, Away
<1>5. Undone("cycle") = {} /\ Undone("confirm") = {}
    BY <1>1 DEF Undone, Callers
<1>6. ASSUME state \in Restful, gate # None
      PROVE  gate.signature \subseteq left
    BY <1>1, <1>6 DEF RestInv, HeldShows
<1>7. ASSUME state \in Restful
      PROVE  Held \subseteq left
    BY <1>6, <1>7 DEF Held
<1>8. left # Diffs => state \notin Busy
    BY <1>1, <1>3 DEF RestInv, BusyForCause, Callers
<1> QED
    BY <1>3, <1>4, <1>5, <1>6, <1>7, <1>8 DEF Accounted, Restful, Busy

-----------------------------------------------------------------------------
(* The state machine. *)

LEMMA SafelyAnywhere ==
    ASSUME NEW s \in Busy \cup Restful, NEW t \in States
    PROVE  Safely(s, t) = t
BY DEF Busy, Restful, Safely, CanTransition, Forbidden, States

LEMMA SafelyEither ==
    ASSUME NEW s, NEW t
    PROVE  Safely(s, t) \in {s, t}
BY DEF Safely

(* A cycle that ends does not leave a busy status, and says that a plan is held. *)
LEMMA FinishedRests ==
    ASSUME NEW s \in States
    PROVE  /\ Finished(s) \notin Busy
           /\ gate' # None => Finished(s) \notin Restful
<1>1. /\ Resting \in States /\ Resting \notin Busy
      /\ gate' # None => Resting = "awaiting_confirmation"
    BY DEF Resting, States, Busy
<1>2. CASE s \in {"error", "needs_login", "paused"}
    BY <1>2 DEF Finished, Busy, Restful
<1>3. CASE s \in Busy \cup Restful
    BY <1>1, <1>3, SafelyAnywhere DEF Finished, Busy, Restful
<1>4. CASE s \notin Busy \cup Restful \cup {"error", "needs_login", "paused"}
    BY <1>1, <1>4, SafelyEither DEF Finished, Restful
<1> QED
    BY <1>2, <1>3, <1>4

LEMMA SafelyLeaves ==
    ASSUME NEW s \in States, NEW t \in States \ (Busy \cup Restful)
    PROVE  Safely(s, t) \notin Busy \cup Restful
<1>1. CASE s \in Busy \cup Restful
    BY <1>1, SafelyAnywhere
<1>2. CASE s \notin Busy \cup Restful
    BY <1>2, SafelyEither
<1> QED
    BY <1>1, <1>2

LEMMA FailureRests ==
    ASSUME NEW s \in States, NEW kind \in {"auth", "connection", "listing", "throw"}
    PROVE  FailureState(s, kind) \notin Busy \cup Restful
<1>1. {"needs_login", "offline", "error"} \subseteq States \ (Busy \cup Restful)
    BY DEF States, Busy, Restful
<1> QED
    BY <1>1, SafelyLeaves DEF FailureState

-----------------------------------------------------------------------------
(* Triggers, and the beginning and the end of a cycle. *)

LEMMA TriggerWakes ==
    ASSUME Trigger, UNCHANGED <<stopped, userPaused>>
    PROVE  (timer' /\ dirty') \/ Halted'
BY DEF Trigger, Halted

LEMMA WokenCovers ==
    ASSUME timer' \/ Halted' \/ (cycle'.pc # "off" /\ dirty')
    PROVE  Covered'
BY DEF Covered, Woken

LEMMA StillWoken ==
    ASSUME UNCHANGED <<stopped, userPaused, timer, dirty>>, cycle'.pc # "off",
           Halted \/ timer \/ dirty
    PROVE  Covered'
BY WokenCovers DEF Halted

(* What BeginCycle() is in the way of is either over, or away. *)
LEMMA BeginCycleCovers ==
    ASSUME NEW s, BeginCycle(s), UNCHANGED session, ViewsOK'
    PROVE  /\ Covered'
           /\ \/ cycle'.pc # "off" \/ Halted' \/ session' = "out" \/ localView' = None
<1>1. CASE userPaused' \/ session = "out" \/ localView' = None
    BY <1>1, NoCycleRecord DEF BeginCycle, Covered, OffCovers, Away, Halted
<1>2. CASE ~ (userPaused' \/ session = "out" \/ localView' = None)
  <2>1. PICK pc \in {"digest", "listing"} :
            cycle' = [NoCycle EXCEPT !.pc = pc, !.local = localView']
      BY <1>2 DEF BeginCycle
  <2>2. cycle'.pc = pc /\ cycle'.local = localView'
      BY <2>1 DEF NoCycle
  <2>3. Looked'
      BY <1>2, <2>2 DEF Looked, Open, Seen
  <2> QED
      BY <2>2, <2>3 DEF Covered
<1> QED
    BY <1>1, <1>2

LEMMA RunCycleCovers ==
    ASSUME NEW s, RunCycle(s), UNCHANGED session, ViewsOK'
    PROVE  /\ Covered'
           /\ \/ cycle'.pc # "off" \/ Halted' \/ session' = "out" \/ localView' = None
<1>1. CASE cycle.pc = "off"
    BY <1>1, BeginCycleCovers DEF RunCycle
<1>2. CASE cycle.pc # "off"
    BY <1>2 DEF RunCycle, Covered, Woken
<1> QED
    BY <1>1, <1>2

(* cycleOnce() ends in a state that is not busy. *)
LEMMA EndOnceCovers ==
    ASSUME NEW s, NEW again \in BOOLEAN, EndOnce(s, again), ViewsOK',
           UNCHANGED <<session, stopped, userPaused>>,
           again \/ timer' \/ Halted \/ OffCovers'
    PROVE  Covered'
<1>1. CASE ShouldRerun(again)
    BY <1>1, BeginCycleCovers DEF EndOnce
<1>2. CASE ~ ShouldRerun(again)
  <2>1. ~ again \/ Halted
      BY <1>2 DEF ShouldRerun, Halted
  <2>2. cycle'.pc = "off" /\ (Halted => Halted')
      BY <1>2, NoCycleRecord DEF EndOnce, Halted
  <2> QED
      BY <2>1, <2>2 DEF Covered, Woken
<1> QED
    BY <1>1, <1>2

LEMMA EndOnceRests ==
    ASSUME NEW s \in States, NEW again \in BOOLEAN, EndOnce(s, again), ViewsOK',
           UNCHANGED <<session, stopped, userPaused>>,
           s \notin Busy, gate' # None => s \notin Restful
    PROVE  HeldShows' /\ BusyForCause'
<1>1. CASE ShouldRerun(again)
  <2>1. BeginCycle(s)
      BY <1>1 DEF EndOnce
  <2>2. BusyForCause'
      BY <2>1, BeginCycleCovers DEF BusyForCause
  <2>3. state' \in {s, "scanning"}
      BY <2>1, SafelyEither DEF BeginCycle
  <2>4. "scanning" \notin Restful
      BY DEF Restful
  <2> QED
      BY <2>2, <2>3, <2>4 DEF HeldShows
<1>2. CASE ~ ShouldRerun(again)
    BY <1>2 DEF EndOnce, HeldShows, BusyForCause
<1> QED
    BY <1>1, <1>2

(* runCycle(), from a state that shows what is held. *)
LEMMA RunCycleRests ==
    ASSUME NEW s \in States, RunCycle(s), UNCHANGED session, ViewsOK',
           s \in Restful /\ gate' # None /\ cycle.pc = "off" =>
              session = "out" \/ gate'.signature \subseteq left' \/ ~ userPaused'
    PROVE  HeldShows' /\ BusyForCause'
<1>1. BusyForCause'
    BY RunCycleCovers DEF BusyForCause
<1>2. HeldShows'
  <2>1. CASE cycle.pc # "off"
      BY <2>1 DEF RunCycle, HeldShows
  <2>2. CASE cycle.pc = "off" /\ (userPaused' \/ session = "out")
      BY <2>2 DEF RunCycle, BeginCycle, HeldShows
  <2>3. CASE cycle.pc = "off" /\ ~ (userPaused' \/ session = "out")
    <3>1. state' = Safely(s, "scanning")
        BY <2>3 DEF RunCycle, BeginCycle
    <3>2. "scanning" \in States \ Restful
        BY DEF States, Restful
    <3>3. state' \notin Restful
        BY <3>1, <3>2, SafelyAnywhere, SafelyEither
    <3> QED
        BY <3>3 DEF HeldShows
  <2> QED
      BY <2>1, <2>2, <2>3
<1> QED
    BY <1>1, <1>2

-----------------------------------------------------------------------------
(* Steps that take nothing away from what covers the open differences. *)

Calm ==
    /\ UNCHANGED cycle
    /\ Open' \subseteq Open /\ remoteView \cap Open' \subseteq remoteView'
    /\ Halted => Halted'
    /\ timer => timer' \/ Halted'
    /\ dirty => dirty' \/ Halted'
    /\ session = "out" => session' = "out"
    /\ startup # "off" => startup' # "off"
    /\ rootUp' => rootUp
    /\ localView = None => localView' = None
    /\ quarantined \subseteq quarantined' /\ left \subseteq left'
    /\ handled \cap Open' \subseteq handled'
    /\ Held \cup Undone("cycle") \cup Undone("confirm") \subseteq
          Accounted' \cup (Diffs \ Open')

LEMMA CalmCovers ==
    ASSUME Inv, Covered, Calm
    PROVE  Covered'
<1> DEFINE local == cycle.local
           shunned == cycle.shunned
           ops == cycle.ops
           withheld == IF cycle.held THEN {} ELSE cycle.withheld
<1>0. /\ cycle'.pc = cycle.pc /\ cycle'.local = local /\ cycle'.shunned = shunned
      /\ cycle'.ops = ops /\ cycle'.withheld = cycle.withheld /\ cycle'.held = cycle.held
    BY DEF Calm
<1>1. CASE Halted \/ Woken
    BY <1>0, <1>1 DEF Calm, Covered, Woken
<1>2. Accounted \cap Open' \subseteq Accounted'
    BY DEF Calm, Accounted
<1>3. Looked => Looked'
    BY <1>0 DEF Calm, Looked
<1>4. CASE cycle.pc = "off" /\ OffCovers
  <2>1. Away => Away'
      BY DEF Calm, Away
  <2> QED
      BY <1>0, <1>2, <1>4, <2>1 DEF Calm, Covered, OffCovers
<1>5. CASE cycle.pc \in {"listing", "digest"} /\ Looked
    BY <1>0, <1>3, <1>5 DEF Covered
<1>6. CASE cycle.pc \in {"conflicts", "replan"} /\ ConflictsCover
  <2>1. Open' \cap shunned \subseteq quarantined'
      BY <1>6 DEF Calm, ConflictsCover
  <2>2. (Open' \cap Conflicting) \ handled' \subseteq
             shunned \cup (IF cycle.pc = "conflicts" THEN ops ELSE {})
      BY <1>6 DEF Calm, ConflictsCover
  <2> QED
      BY <1>0, <1>3, <1>6, <2>1, <2>2 DEF Covered, ConflictsCover
<1>7. CASE cycle.pc = "preflight" /\ PreflightCovers
    BY <1>0, <1>3, <1>7 DEF Calm, Covered, PreflightCovers
<1>8. CASE cycle.pc = "run" /\ RunCovers
    BY <1>0, <1>2, <1>8 DEF Calm, Covered, RunCovers
<1> QED
    BY <1>1, <1>4, <1>5, <1>6, <1>7, <1>8 DEF Covered

LEMMA CalmRests ==
    ASSUME Inv', HeldShows, BusyForCause, Calm, gate' \in {gate, None},
           state' = state \/ state' \notin Busy \cup Restful,
           runs["confirm"] # None => runs'["confirm"] # None,
           runs["resolve"] # None => runs'["resolve"] # None
    PROVE  HeldShows' /\ BusyForCause'
<1>1. HeldShows'
    BY DEF Calm, HeldShows
<1>2. left = Diffs => left' = Diffs
    BY DEF Calm, Inv, InboxOK
<1>3. BusyForCause'
    BY <1>2 DEF Calm, BusyForCause
<1> QED
    BY <1>1, <1>3

-----------------------------------------------------------------------------
(* start(), the inputs and the timers. *)

LEMMA QuietOpen ==
    ASSUME UNCHANGED <<localView, remoteView, work>>
    PROVE  Open' = Open
BY DEF Open, Seen

(* What holds of Calm in a step that leaves all of this alone. *)
LEMMA QuietCalm ==
    ASSUME UNCHANGED <<localView, remoteView, work, cycle, stopped, userPaused,
                       timer, dirty, quarantined, handled, runs, gate>>,
           session = "out" => session' = "out",
           startup # "off" => startup' # "off",
           rootUp' => rootUp, left' = left
    PROVE  Calm
<1>1. Held' = Held /\ Undone("cycle")' = Undone("cycle")
      /\ Undone("confirm")' = Undone("confirm")
    BY DEF Held, Undone
<1>2. Accounted' = Accounted
    BY <1>1 DEF Accounted
<1> QED
    BY <1>1, <1>2, QuietOpen DEF Calm, Halted, Accounted

LEMMA StartRests ==
    ASSUME Inv, Inv', RestInv, Start
    PROVE  RestInv'
<1> USE DEF RestInv
<1>1. CASE StartRecovered
  <2>1. Calm
      BY <1>1, QuietCalm DEF StartRecovered, views, control, running, holding, inbox
  <2> QED
      BY <1>1, <2>1, CalmCovers, CalmRests DEF StartRecovered, running, holding
<1>2. CASE StartWatched
  <2>1. CASE localView' # localView
    <3>1. timer' \/ Halted'
        BY <1>2, <2>1, TriggerWakes DEF StartWatched, control
    <3>2. Covered' /\ BusyForCause'
        BY <3>1, WokenCovers DEF BusyForCause
    <3>3. HeldShows'
        BY <1>2 DEF StartWatched, HeldShows, holding
    <3> QED
        BY <3>2, <3>3
  <2>2. CASE localView' = localView
    <3>1. Calm
        BY <1>2, <2>2, QuietCalm DEF StartWatched, control, running, holding, inbox
    <3> QED
        BY <1>2, <3>1, CalmCovers, CalmRests DEF StartWatched, running, holding
  <2> QED
      BY <2>1, <2>2
<1>3. CASE StartListed
  <2>1. PICK s \in States : StartEnds(s)
      BY <1>3, FailureStateState DEF StartListed, Inv, StateOK
  <2>2. UNCHANGED <<session, userPaused, stopped, left, gate>> /\ ViewsOK'
      BY <1>3 DEF StartListed, control, holding, Inv
  <2>3. CASE userPaused
    <3>1. "paused" \in States \ (Busy \cup Restful)
        BY DEF States, Busy, Restful
    <3>2. Halted' /\ state' \notin Restful
        BY <2>1, <2>2, <2>3, <3>1, SafelyLeaves DEF StartEnds, Halted
    <3> QED
        BY <3>2, WokenCovers DEF HeldShows, BusyForCause
  <2>4. CASE ~ userPaused
      BY <2>1, <2>2, <2>4, RunCycleCovers, RunCycleRests DEF StartEnds
  <2> QED
      BY <2>3, <2>4
<1> QED
    BY <1>1, <1>2, <1>3 DEF Start

LEMMA TimerFiresRests ==
    ASSUME Inv, Inv', RestInv, TimerFires
    PROVE  RestInv'
<1>1. RunCycle(state) /\ UNCHANGED <<session, gate, left>> /\ ViewsOK' /\ state \in States
    BY DEF TimerFires, holding, Inv, StateOK
<1>2. state \in Restful /\ gate' # None /\ cycle.pc = "off" =>
           session = "out" \/ gate'.signature \subseteq left'
    BY <1>1 DEF RestInv, HeldShows
<1> QED
    BY <1>1, <1>2, RunCycleCovers, RunCycleRests DEF RestInv

LEMMA ReportsRest ==
    ASSUME Inv, Inv', RestInv,
           \/ LocalChanges \/ RootRestored \/ \E d \in RemoteDiffs : RemoteEvent(d)
    PROVE  RestInv'
<1>1. Trigger /\ UNCHANGED <<stopped, userPaused, cycle, state, gate, left, session>>
    BY DEF LocalChanges, RootRestored, RemoteEvent, login, control, holding
<1>2. timer' \/ Halted'
    BY <1>1, TriggerWakes
<1>3. HeldShows'
    BY <1>1 DEF RestInv, HeldShows
<1> QED
    BY <1>2, <1>3, WokenCovers DEF RestInv, BusyForCause

LEMMA RootUnavailableRests ==
    ASSUME Inv, Inv', RestInv, RootUnavailable
    PROVE  RestInv'
<1>1. Calm
    BY QuietCalm DEF RootUnavailable, login, control, running, holding, inbox
<1>2. state' \notin Busy \cup Restful
  <2>1. "error" \in States \ (Busy \cup Restful)
      BY DEF States, Busy, Restful
  <2> QED
      BY <2>1, SafelyLeaves DEF RootUnavailable, Inv, StateOK
<1> QED
    BY <1>1, <1>2, CalmCovers, CalmRests DEF RootUnavailable, RestInv, running, holding

(* A difference that is made is not open yet. *)
LEMMA ChangeRests ==
    ASSUME Inv, Inv', RestInv, NEW d \in Diffs, Change(d)
    PROVE  RestInv'
<1>1. UNCHANGED <<rootUp, session, startup, state, stopped, userPaused, dirty, timer,
                  cycle, runs, gate, handled, quarantined, left>>
    BY DEF Change, login, control, running, holding, inbox
<1>2. Open' \subseteq Open /\ remoteView \cap Open' \subseteq remoteView'
      /\ (localView = None => localView' = None)
  <2>1. CASE d \in work
      BY <2>1 DEF Change, Open, Seen
  <2>2. CASE d \notin work
    <3>1. /\ work' = work \cup {d} /\ remoteView' = remoteView \ {d}
          /\ localView' = IF localView = None THEN None ELSE localView \ {d}
        BY <2>2 DEF Change
    <3>2. Seen' \subseteq Seen \ {d}
        BY <3>1 DEF Seen
    <3> QED
        BY <3>1, <3>2 DEF Open
  <2> QED
      BY <2>1, <2>2
<1>3. Calm
  <2>1. Held' = Held /\ Undone("cycle")' = Undone("cycle")
        /\ Undone("confirm")' = Undone("confirm")
      BY <1>1 DEF Held, Undone
  <2>2. Accounted' = Accounted
      BY <1>1, <2>1 DEF Accounted
  <2> QED
      BY <1>1, <1>2, <2>1, <2>2 DEF Calm, Halted, Accounted
<1> QED
    BY <1>1, <1>3, CalmCovers, CalmRests DEF RestInv

LEMMA PeriodicListingRests ==
    ASSUME Inv, Inv', RestInv, PeriodicListing
    PROVE  RestInv'
<1>1. UNCHANGED <<stopped, userPaused, cycle, gate, left, session, startup, rootUp,
                  localView, work, quarantined, handled, runs>>
    BY DEF PeriodicListing, login, control, running, holding, inbox
<1>2. CASE Relisted
  <2>1. timer' \/ Halted'
      BY <1>1, <1>2, TriggerWakes DEF Relisted
  <2>2. HeldShows'
      BY <1>1, <1>2 DEF RestInv, HeldShows, Relisted
  <2> QED
      BY <2>1, <2>2, WokenCovers DEF RestInv, BusyForCause
<1>3. CASE ~ Relisted
  <2>1. PICK kind \in {"auth", "connection", "listing"} :
           /\ NotListed /\ state' = FailureState(state, kind)
           /\ UNCHANGED <<dirty, timer>>
      BY <1>3 DEF PeriodicListing
  <2>2. Calm
      BY <1>1, <2>1, QuietCalm DEF NotListed
  <2>3. state' \notin Busy \cup Restful
      BY <2>1, FailureRests DEF Inv, StateOK
  <2> QED
      BY <1>1, <2>2, <2>3, CalmCovers, CalmRests DEF RestInv
<1> QED
    BY <1>2, <1>3

LEMMA StatusRests ==
    ASSUME Inv, Inv', RestInv,
           Throttled \/ Unthrottled \/ SessionLost \/ SessionCleared \/ Stopped
    PROVE  RestInv'
<1>1. UNCHANGED <<localView, remoteView, work, cycle, stopped, userPaused, timer, dirty,
                  quarantined, handled, runs, gate, startup, rootUp, left>>
    BY DEF Throttled, Unthrottled, SessionLost, SessionCleared, Stopped, views, login,
           control, running, holding, inbox
<1>2. session = "out" => session' = "out"
    BY DEF Throttled, Unthrottled, SessionLost, SessionCleared, Stopped, login
<1>3. Calm
    BY <1>1, <1>2, QuietCalm
<1>4. CASE Unthrottled
  <2>1. CASE cycle.pc # "off"
      BY <1>1, <1>3, <2>1, CalmCovers DEF RestInv, HeldShows, BusyForCause
  <2>2. CASE cycle.pc = "off"
    <3>1. state' = Safely("throttled", Resting)
        BY <1>4, <2>2 DEF Unthrottled
    <3>2. state' \notin Busy
        BY <3>1 DEF Safely, Resting, Busy
    <3>3. gate' # None => state' \notin Restful
        BY <3>1 DEF Safely, Resting, Restful
    <3> QED
        BY <1>3, <3>2, <3>3, CalmCovers DEF RestInv, HeldShows, BusyForCause
  <2> QED
      BY <2>1, <2>2
<1>5. CASE ~ Unthrottled
  <2>1. state' = state \/ state' \in {"throttled", "needs_login", "stopped"}
      BY <1>5 DEF Throttled, SessionLost, SessionCleared, Stopped
  <2>2. state' = state \/ state' \notin Busy \cup Restful
      BY <2>1 DEF Busy, Restful
  <2> QED
      BY <1>1, <1>3, <2>2, CalmCovers, CalmRests DEF RestInv
<1> QED
    BY <1>4, <1>5

-----------------------------------------------------------------------------
(* A cycle. *)

LEMMA EndOnceRestInv ==
    ASSUME Inv', NEW s \in States, NEW again \in BOOLEAN, EndOnce(s, again),
           UNCHANGED <<session, stopped, userPaused>>,
           s \notin Busy, gate' # None => s \notin Restful,
           again \/ timer' \/ Halted \/ OffCovers'
    PROVE  RestInv'
BY EndOnceCovers, EndOnceRests DEF RestInv, Inv

(* While a cycle looks at its views, they show what is open. *)
LEMMA LookedBefore ==
    ASSUME RestInv, cycle.pc \in {"listing", "digest", "conflicts", "replan", "preflight"}
    PROVE  Halted \/ timer \/ dirty \/ Looked
BY DEF RestInv, Covered, Woken, ConflictsCover, PreflightCovers

(* What a cycle gives up, it has left. *)
LEMMA GivenUp ==
    ASSUME Inv, RestInv, UNCHANGED <<work, localView, timer>>, remoteView' = remoteView,
           cycle.pc \in {"listing", "digest", "conflicts", "replan", "preflight"},
           left' = left \cup cycle.local \cup remoteView
    PROVE  dirty \/ timer' \/ Halted \/ OffCovers'
<1>1. CASE Looked
  <2>1. Open' \subseteq left'
      BY <1>1, QuietOpen DEF Looked
  <2> QED
      BY <2>1 DEF OffCovers, Accounted
<1>2. CASE ~ Looked
    BY <1>2, LookedBefore
<1> QED
    BY <1>1, <1>2

LEMMA CycleListingRests ==
    ASSUME Inv, Inv', RestInv, CycleListing
    PROVE  RestInv'
<1>1. /\ cycle.pc = "listing"
      /\ UNCHANGED <<work, localView, session, stopped, userPaused, timer, rootUp>>
    BY DEF CycleListing, control
<1>2. CASE Listed /\ cycle' = [cycle EXCEPT !.pc = "digest"] /\ UNCHANGED <<state, dirty, left>>
  <2>1. cycle'.pc = "digest" /\ cycle'.local = cycle.local
      BY <1>2 DEF Inv, CycleOK, CycleRecord
  <2>2. HeldShows' /\ BusyForCause'
      BY <2>1 DEF HeldShows, BusyForCause
  <2>3. CASE Halted \/ timer \/ dirty
    <3>1. UNCHANGED <<stopped, userPaused, timer, dirty>> /\ cycle'.pc # "off"
        BY <1>1, <1>2, <2>1
    <3> QED
        BY <2>2, <2>3, <3>1, StillWoken DEF RestInv
  <2>4. CASE Looked
    <3>1. remoteView' = work \cap RemoteDiffs /\ work' = work /\ localView' = localView
        BY <1>1, <1>2 DEF Listed
    <3>2. Looked'
        BY <2>1, <2>4, <3>1 DEF Looked, Open, Seen, Inv, ViewsOK
    <3> QED
        BY <2>1, <2>2, <3>2 DEF RestInv, Covered
  <2> QED
      BY <1>1, <2>3, <2>4, LookedBefore
<1>3. CASE \E kind \in {"auth", "connection", "listing"} :
             /\ CallFails(kind) /\ NotListed
             /\ EndOnce(FailureState(state, kind), dirty)
             /\ left' = left \cup cycle.local \cup remoteView
  <2>1. PICK kind \in {"auth", "connection", "listing"} : EndOnce(FailureState(state, kind), dirty)
      BY <1>3
  <2>2. remoteView' = remoteView /\ left' = left \cup cycle.local \cup remoteView
      BY <1>3 DEF NotListed
  <2>3. dirty \/ timer' \/ Halted \/ OffCovers'
      BY <1>1, <2>2, GivenUp
  <2> DEFINE s == FailureState(state, kind)
  <2>4. s \in States /\ s \notin Busy \cup Restful /\ dirty \in BOOLEAN
      BY FailureStateState, FailureRests DEF Inv, StateOK, FlagsOK
  <2> HIDE DEF s
  <2> QED
      BY <1>1, <2>1, <2>3, <2>4, EndOnceRestInv DEF s
<1> QED
    BY <1>2, <1>3 DEF CycleListing

(* A plan covers what it is made of. *)
LEMMA PlannedCovers ==
    ASSUME rootUp, NEW seen, NEW part \in SUBSET seen
    PROVE  part \subseteq Planned(part).ops \cup Planned(part).withheld \cup Blocked(seen)
BY DEF Planned, Blocked, Unsure

LEMMA GateAndExecuteRests ==
    ASSUME Inv, Inv', NEW plan, GateAndExecute(plan), cycle.pc # "off",
           UNCHANGED <<work, localView, remoteView, session, stopped, userPaused, timer,
                       rootUp, quarantined>>,
           \/ Halted \/ timer \/ dirty
           \/ /\ Looked
              /\ ~ rootUp \/ Open \subseteq quarantined \cup left' \cup plan.ops
                                               \cup plan.withheld
    PROVE  RestInv'
<1>1. CASE plan.ops \cup plan.withheld = {}
  <2>1. EndOnce(Finished(state), dirty)
      BY <1>1 DEF GateAndExecute
  <2>2. /\ Finished(state) \in States /\ Finished(state) \notin Busy
        /\ gate' # None => Finished(state) \notin Restful
        /\ dirty \in BOOLEAN
      BY FinishedState, FinishedRests DEF Inv, StateOK, FlagsOK
  <2>3. ~ rootUp \/ Open \subseteq quarantined \cup left' => OffCovers'
      BY QuietOpen DEF OffCovers, Away, Accounted
  <2>4. dirty \/ timer' \/ Halted \/ OffCovers'
      BY <1>1, <2>3
  <2> QED
      BY <2>1, <2>2, <2>4, EndOnceRestInv
<1>2. CASE plan.ops \cup plan.withheld # {}
  <2>1. /\ cycle' = [cycle EXCEPT !.pc = "preflight", !.ops = plan.ops,
                                  !.withheld = plan.withheld]
        /\ UNCHANGED <<state, dirty>>
      BY <1>2 DEF GateAndExecute
  <2>2. /\ cycle'.pc = "preflight" /\ cycle'.local = cycle.local
        /\ cycle'.ops = plan.ops /\ cycle'.withheld = plan.withheld
      BY <2>1 DEF Inv, CycleOK, CycleRecord
  <2>3. HeldShows' /\ BusyForCause'
      BY <2>2 DEF HeldShows, BusyForCause
  <2>4. CASE Halted \/ timer \/ dirty
      BY <2>1, <2>2, <2>3, <2>4, StillWoken DEF RestInv
  <2>5. CASE /\ Looked
             /\ ~ rootUp \/ Open \subseteq quarantined \cup left' \cup plan.ops
                                              \cup plan.withheld
    <3>1. Open' = Open
        BY QuietOpen
    <3>2. PreflightCovers'
        BY <2>2, <2>5, <3>1 DEF PreflightCovers, Looked
    <3> QED
        BY <2>2, <2>3, <3>2 DEF RestInv, Covered
  <2> QED
      BY <2>3, <2>4, <2>5 DEF RestInv
<1> QED
    BY <1>1, <1>2

LEMMA CyclePlansRests ==
    ASSUME Inv, Inv', RestInv, CyclePlans
    PROVE  RestInv'
<1> DEFINE seen == (cycle.local \cup remoteView) \ quarantined
           new  == (seen \cap Conflicting) \ handled
<1>1. /\ cycle.pc = "digest" /\ left' = Blocked(seen)
      /\ UNCHANGED <<work, localView, remoteView, session, stopped, userPaused, timer,
                     rootUp, quarantined, handled>>
    BY DEF CyclePlans, control, inbox
<1>2. Looked => Open \subseteq seen \cup quarantined
    BY DEF Looked
<1>3. CASE new # {}
  <2>1. /\ cycle' = [cycle EXCEPT !.pc = "conflicts", !.ops = new, !.shunned = quarantined]
        /\ UNCHANGED <<state, dirty>>
      BY <1>3 DEF CyclePlans
  <2> HIDE DEF new
  <2>2. /\ cycle'.pc = "conflicts" /\ cycle'.local = cycle.local /\ cycle'.ops = new
        /\ cycle'.shunned = quarantined
      BY <2>1 DEF Inv, CycleOK, CycleRecord
  <2>3. HeldShows' /\ BusyForCause'
      BY <2>2 DEF HeldShows, BusyForCause
  <2>4. CASE Halted \/ timer \/ dirty
    <3>1. UNCHANGED <<stopped, userPaused, timer, dirty>> /\ cycle'.pc # "off"
        BY <1>1, <2>1, <2>2
    <3> QED
        BY <2>3, <2>4, <3>1, StillWoken DEF RestInv
  <2>5. CASE Looked
    <3>1. Open' = Open
        BY <1>1, QuietOpen
    <3>2. (Open \cap Conflicting) \ handled \subseteq quarantined \cup new
        BY <1>2, <2>5 DEF new
    <3>3. ConflictsCover'
        BY <1>1, <2>2, <2>5, <3>1, <3>2 DEF ConflictsCover, Looked
    <3> QED
        BY <2>2, <2>3, <3>3 DEF RestInv, Covered
  <2> QED
      BY <1>1, <2>3, <2>4, <2>5, LookedBefore DEF RestInv
<1>4. CASE new = {}
  <2>1. GateAndExecute(Planned(seen))
      BY <1>4 DEF CyclePlans
  <2> HIDE DEF seen, new
  <2>2. rootUp => seen \subseteq Planned(seen).ops \cup Planned(seen).withheld \cup left'
      BY <1>1, PlannedCovers
  <2>3. Looked => ~ rootUp \/ Open \subseteq quarantined \cup left' \cup Planned(seen).ops
                                                    \cup Planned(seen).withheld
      BY <1>2, <2>2
  <2> QED
      BY <1>1, <2>1, <2>3, LookedBefore, GateAndExecuteRests
<1> QED
    BY <1>3, <1>4

LEMMA CycleHandlesRests ==
    ASSUME Inv, Inv', RestInv, CycleHandles
    PROVE  RestInv'
<1>1. /\ cycle.pc = "conflicts" /\ handled' = handled \cup cycle.ops
      /\ UNCHANGED <<work, remoteView, stopped, userPaused, quarantined, left>>
    BY DEF CycleHandles, control
<1>2. /\ cycle'.pc = "replan" /\ cycle'.local = localView' /\ cycle'.shunned = cycle.shunned
    BY DEF CycleHandles, Inv, CycleOK, CycleRecord
<1>3. HeldShows' /\ BusyForCause'
    BY <1>2 DEF HeldShows, BusyForCause
<1>4. CASE localView' # localView
    BY <1>1, <1>3, <1>4, TriggerWakes, WokenCovers DEF CycleHandles, RestInv
<1>5. CASE localView' = localView
  <2>1. UNCHANGED <<dirty, timer>>
      BY <1>5 DEF CycleHandles
  <2>2. CASE Halted \/ timer \/ dirty
    <3>1. UNCHANGED <<stopped, userPaused, timer, dirty>> /\ cycle'.pc # "off"
        BY <1>1, <1>2, <2>1
    <3> QED
        BY <1>3, <2>2, <3>1, StillWoken DEF RestInv
  <2>3. CASE ConflictsCover
    <3>1. Open' = Open
        BY <1>1, <1>5, QuietOpen
    <3>2. Looked'
        BY <1>2 DEF Looked, Open, Seen
    <3>3. (Open \cap Conflicting) \ handled' \subseteq cycle.shunned
        BY <1>1, <2>3 DEF ConflictsCover
    <3>4. ConflictsCover'
        BY <1>1, <1>2, <2>3, <3>1, <3>2, <3>3 DEF ConflictsCover
    <3> QED
        BY <1>2, <1>3, <3>4 DEF RestInv, Covered
  <2> QED
      BY <1>1, <2>2, <2>3 DEF RestInv, Covered, Woken
<1> QED
    BY <1>4, <1>5

LEMMA CycleReplansRests ==
    ASSUME Inv, Inv', RestInv, CycleReplans
    PROVE  RestInv'
<1> DEFINE seen == (cycle.local \cup remoteView) \ cycle.shunned
           part == seen \ (Conflicting \ handled)
<1>1. /\ cycle.pc = "replan" /\ left' = Blocked(seen) /\ GateAndExecute(Planned(part))
      /\ UNCHANGED <<work, localView, remoteView, session, stopped, userPaused, timer,
                     rootUp, quarantined, handled>>
    BY DEF CycleReplans, control, inbox
<1>2. ConflictsCover => Open \subseteq part \cup quarantined
    BY <1>1 DEF ConflictsCover, Looked
<1>3. part \in SUBSET seen
    OBVIOUS
<1> HIDE DEF seen, part
<1>4. rootUp => part \subseteq Planned(part).ops \cup Planned(part).withheld \cup left'
    BY <1>1, <1>3, PlannedCovers
<1>5. ConflictsCover => ~ rootUp \/ Open \subseteq quarantined \cup left'
                              \cup Planned(part).ops \cup Planned(part).withheld
    BY <1>2, <1>4
<1>6. Halted \/ timer \/ dirty \/ ConflictsCover
    BY <1>1 DEF RestInv, Covered, Woken
<1>7. ConflictsCover => Looked
    BY DEF ConflictsCover
<1> QED
    BY <1>1, <1>5, <1>6, <1>7, GateAndExecuteRests

LEMMA CycleThrowsRests ==
    ASSUME Inv, Inv', RestInv, CycleThrows
    PROVE  RestInv'
<1>1. /\ cycle.pc \in {"conflicts", "preflight"}
      /\ left' = left \cup cycle.local \cup remoteView
      /\ UNCHANGED <<work, localView, remoteView, session, stopped, userPaused, timer>>
    BY DEF CycleThrows, control
<1>2. PICK kind \in {"auth", "connection", "throw"} : EndOnce(FailureState(state, kind), dirty)
    BY DEF CycleThrows
<1> DEFINE s == FailureState(state, kind)
<1>3. s \in States /\ s \notin Busy \cup Restful /\ dirty \in BOOLEAN
    BY FailureStateState, FailureRests DEF Inv, StateOK, FlagsOK
<1>4. dirty \/ timer' \/ Halted \/ OffCovers'
    BY <1>1, GivenUp
<1> HIDE DEF s
<1> QED
    BY <1>1, <1>2, <1>3, <1>4, EndOnceRestInv DEF s

LEMMA PreflightFailsRests ==
    ASSUME Inv, Inv', RestInv, PreflightFails
    PROVE  RestInv'
<1>1. /\ cycle.pc = "preflight" /\ EndOnce(Safely(state, "error"), dirty)
      /\ left' = left \cup cycle.ops \cup cycle.withheld
      /\ UNCHANGED <<work, localView, remoteView, session, stopped, userPaused, timer,
                     rootUp, quarantined>>
    BY DEF PreflightFails, control, inbox
<1> DEFINE s == Safely(state, "error")
<1>2. s \in States /\ s \notin Busy \cup Restful /\ dirty \in BOOLEAN
  <2>1. "error" \in States \ (Busy \cup Restful)
      BY DEF States, Busy, Restful
  <2> QED
      BY <2>1, SafelyLeaves, SafelyState DEF Inv, StateOK, FlagsOK
<1>3. PreflightCovers => OffCovers'
    BY <1>1, QuietOpen DEF PreflightCovers, OffCovers, Away, Accounted
<1>4. dirty \/ timer' \/ Halted \/ OffCovers'
    BY <1>1, <1>3 DEF RestInv, Covered, Woken
<1> HIDE DEF s
<1> QED
    BY <1>1, <1>2, <1>4, EndOnceRestInv DEF s

LEMMA StartRunUndone ==
    ASSUME RunsOK, FlagsOK, NEW caller \in Callers, NEW ops \in SUBSET Diffs,
           NEW id \in Nat, NEW s, StartRun(caller, ops, id, s)
    PROVE  /\ runs'[caller] # None /\ runs'[caller].ops = ops
           /\ \A c \in Callers : c # caller => runs'[c] = runs[c]
<1> DEFINE run == [ops |-> ops, touched |-> ops, paused |-> userPaused,
                   end |-> None, id |-> id]
<1>1. run \in RunOfPlan /\ run # None /\ run.ops = ops
    BY EngineAssumption DEF RunOfPlan, FlagsOK
<1>2. runs' = [runs EXCEPT ![caller] = run]
    BY DEF StartRun
<1> HIDE DEF run
<1> QED
    BY <1>1, <1>2 DEF RunsOK

(* The gate has the plan run, or held and its safe rest run. *)
LEMMA CycleGatesRests ==
    ASSUME Inv, Inv', RestInv, CycleGates
    PROVE  RestInv'
<1> DEFINE affected == cycle.ops \cap Destructive
           safe == cycle.ops \ affected
<1>1. /\ cycle.pc = "preflight" /\ rootUp /\ cycle \in CycleRecord
      /\ UNCHANGED <<work, localView, remoteView, session, stopped, userPaused, timer,
                     rootUp, quarantined, left>>
    BY DEF CycleGates, control, inbox, Inv, CycleOK
<1>2. Open' = Open /\ cycle.ops \subseteq Diffs /\ ~ cycle.held
    BY <1>1, QuietOpen DEF CycleRecord, Inv, CycleOK
<1>3. \/ Halted \/ timer \/ dirty
      \/ Open \subseteq quarantined \cup left \cup cycle.ops \cup cycle.withheld
    BY <1>1 DEF RestInv, Covered, Woken, PreflightCovers
<1>4. ASSUME Hold(cycle)
      PROVE  Held' = affected \cup cycle.withheld /\ gate' # None
  <2>1. gate'.signature = affected \cup cycle.withheld
      BY <1>4 DEF Hold
  <2>2. gate' \in HeldPlan /\ gate' # None
    <3>1. gate' # None => gate' \in HeldPlan
        BY DEF Inv, HeldAsShown
    <3>2. gate' = [id |-> gate'.id, ops |-> cycle.ops, withheld |-> cycle.withheld,
                   affected |-> affected, signature |-> affected \cup cycle.withheld]
        BY <1>4 DEF Hold
    <3>3. cycle.withheld \subseteq Diffs
        BY <1>1 DEF CycleRecord
    <3>4. gate'.id \in Nat
      <4> DEFINE same == SameHeld(affected \cup cycle.withheld)
      <4>1. gate'.id = IF same THEN gate.id ELSE seq + 1
          BY <1>4 DEF Hold
      <4>2. seq \in Nat /\ (same => gate.id \in Nat)
          BY DEF Inv, HeldAsShown, HeldPlan, SameHeld
      <4> HIDE DEF same
      <4> QED
          BY <4>1, <4>2
    <3>5. gate' \in HeldPlan
        BY <1>2, <3>2, <3>3, <3>4 DEF HeldPlan
    <3> QED
        BY <3>5, EngineAssumption
  <2> QED
      BY <2>1, <2>2 DEF Held
<1>5. ASSUME NEW ops \in SUBSET Diffs, StartRun("cycle", ops, 0, state), UNCHANGED dirty,
             cycle'.pc = "run",
             Open \cap (cycle.ops \cup cycle.withheld) \subseteq
                 ops \cup Held' \cup (IF cycle'.held THEN {} ELSE cycle'.withheld)
      PROVE  RestInv'
  <2>1. runs'["cycle"] # None /\ runs'["cycle"].ops = ops
      BY <1>5, StartRunUndone DEF Inv, Callers
  <2>2. Undone("cycle")' = ops
      BY <2>1 DEF Undone
  <2>3. Open \subseteq quarantined \cup left \cup cycle.ops \cup cycle.withheld => RunCovers'
      BY <1>1, <1>2, <1>5, <2>2 DEF RunCovers, Accounted
  <2>4. HeldShows' /\ BusyForCause'
      BY <1>5 DEF HeldShows, BusyForCause
  <2>5. CASE Halted \/ timer \/ dirty
      BY <1>1, <1>5, <2>4, <2>5, StillWoken DEF RestInv
  <2>6. CASE ~ (Halted \/ timer \/ dirty)
      BY <1>3, <1>5, <2>3, <2>4, <2>6 DEF RestInv, Covered
  <2> QED
      BY <2>5, <2>6
<1>6. CASE /\ Hold(cycle) /\ safe = {} /\ UNCHANGED running
           /\ EndOnce(Safely(state, "awaiting_confirmation"), dirty)
  <2> DEFINE s == Safely(state, "awaiting_confirmation")
  <2>1. s \in States /\ s \notin Busy \cup Restful /\ dirty \in BOOLEAN
    <3>1. "awaiting_confirmation" \in States \ (Busy \cup Restful)
        BY DEF States, Busy, Restful
    <3> QED
        BY <3>1, SafelyLeaves, SafelyState DEF Inv, StateOK, FlagsOK
  <2>2. cycle.ops \cup cycle.withheld \subseteq Held'
      BY <1>4, <1>6
  <2>3. dirty \/ timer' \/ Halted \/ OffCovers'
      BY <1>1, <1>2, <1>3, <2>2 DEF OffCovers, Accounted
  <2> HIDE DEF s
  <2> QED
      BY <1>1, <1>6, <2>1, <2>3, EndOnceRestInv DEF s
<1>7. CASE /\ Hold(cycle) /\ cycle' = [cycle EXCEPT !.pc = "run", !.held = TRUE]
           /\ StartRun("cycle", safe, 0, state) /\ UNCHANGED dirty
  <2>1. cycle'.pc = "run"
      BY <1>1, <1>7 DEF CycleRecord
  <2>2. cycle.ops \cup cycle.withheld \subseteq safe \cup Held'
      BY <1>4, <1>7
  <2>3. safe \in SUBSET Diffs
      BY <1>2
  <2> HIDE DEF safe
  <2> QED
      BY <1>5, <1>7, <2>1, <2>2, <2>3
<1>8. CASE /\ gate' = None /\ cycle' = [cycle EXCEPT !.pc = "run"]
           /\ StartRun("cycle", cycle.ops, 0, state) /\ UNCHANGED dirty
  <2>1. cycle'.pc = "run" /\ ~ cycle'.held /\ cycle'.withheld = cycle.withheld
      BY <1>1, <1>2, <1>8 DEF CycleRecord
  <2> QED
      BY <1>2, <1>5, <1>8, <2>1
<1> QED
    BY <1>6, <1>7, <1>8 DEF CycleGates

(* A run of the cycle runs only in the cycle that waits for it. *)
CycleRuns == runs["cycle"] # None => cycle.pc = "run"

LEMMA RunOverUndone ==
    ASSUME RunsOK, NEW c \in Callers, RunReturns(c)
    PROVE  /\ runs[c] # None /\ runs'[c] = None
           /\ \A b \in Callers : b # c => runs'[b] = runs[b]
BY DEF RunReturns, RunOver, RunsOK

(* The cycle ends with its run: the operations that it did not come to are  *)
(* left, and so is what the plan withheld, unless it is held.               *)
LEMMA CycleRunEndsRests ==
    ASSUME Inv, Inv', RestInv, CycleRuns, CycleRunEnds
    PROVE  RestInv'
<1> DEFINE news == localView' # localView /\ ~ stopped /\ ~ userPaused
           again == dirty \/ news
           over == StateOver("cycle")
           s == IF cycle.held THEN Safely(over, "awaiting_confirmation")
                ELSE Finished(over)
<1>1. /\ RunReturns("cycle") /\ timer' = (timer \/ news) /\ EndOnce(s, again)
      /\ left' = left \cup runs["cycle"].ops \cup (IF cycle.held THEN {} ELSE cycle.withheld)
      /\ UNCHANGED <<work, remoteView, session, stopped, userPaused, rootUp,
                     quarantined, gate>>
    BY DEF CycleRunEnds, control, holding, inbox
<1>2. /\ cycle.pc = "run" /\ runs["cycle"] # None /\ runs'["cycle"] = None
      /\ runs'["confirm"] = runs["confirm"]
    BY <1>1, RunOverUndone DEF CycleRuns, Callers, Inv
<1>3. s \in States /\ s \notin Busy /\ (gate' # None => s \notin Restful)
  <2>1. over \in States
      BY StateOverState DEF Inv
  <2>2. "awaiting_confirmation" \in States \ (Busy \cup Restful)
      BY DEF States, Busy, Restful
  <2> HIDE DEF over
  <2> QED
      BY <2>1, <2>2, SafelyLeaves, SafelyState, FinishedRests, FinishedState
<1>4. again \in BOOLEAN
    BY DEF Inv, FlagsOK
<1>5. CASE Halted \/ timer \/ dirty \/ news
  <2> HIDE DEF s
  <2> QED
      BY <1>1, <1>3, <1>4, <1>5, EndOnceRestInv
<1>6. CASE ~ (Halted \/ timer \/ dirty \/ news)
  <2>1. localView' = localView /\ RunCovers
      BY <1>2, <1>6 DEF Halted, RestInv, Covered, Woken
  <2>2. /\ Held' = Held /\ Undone("confirm")' = Undone("confirm")
        /\ Undone("cycle") \subseteq left'
      BY <1>1, <1>2 DEF Held, Undone
  <2>3. Open' = Open
      BY <1>1, <2>1, QuietOpen
  <2>4. rootUp => Open' \subseteq Accounted'
      BY <1>1, <2>1, <2>2, <2>3 DEF RunCovers, Accounted
  <2>5. OffCovers'
      BY <1>1, <2>4 DEF OffCovers, Away
  <2> HIDE DEF s, again
  <2> QED
      BY <1>1, <1>3, <1>4, <2>5, EndOnceRestInv
<1> QED
    BY <1>5, <1>6

-----------------------------------------------------------------------------
(* Runs. *)

(* An operation that a run takes up leaves the other operations as they are. *)
LEMMA RunItemUndone ==
    ASSUME Inv, NEW c \in Callers, NEW d \in Diffs, RunItem(c, d)
    PROVE  \A b \in Callers :
              runs[b] # None =>
                 /\ runs'[b] # None /\ runs[b].ops \ {d} \subseteq runs'[b].ops
                 /\ d \in runs[b].ops =>
                      d \in runs'[b].ops \/ d \notin work' \/ d \in left'
<1>1. runs[c] # None /\ runs[c] \in RunOfPlan /\ DOMAIN runs = Callers
    BY DEF RunItem, Inv, RunsOK
<1>2. PICK r \in RunOfPlan :
         /\ runs' = [runs EXCEPT ![c] = r]
         /\ runs[c].ops \ {d} \subseteq r.ops
         /\ d \in r.ops \/ d \notin work' \/ d \in left'
  <2>1. CASE /\ runs' = [runs EXCEPT ![c] = [runs[c] EXCEPT !.ops = runs[c].ops \ {d}]]
             /\ d \notin work' \/ d \in left'
    <3>1. PICK r : r = [runs[c] EXCEPT !.ops = runs[c].ops \ {d}]
        OBVIOUS
    <3>2. r \in RunOfPlan /\ r.ops = runs[c].ops \ {d}
        BY <1>1, <3>1 DEF RunOfPlan
    <3> QED
        BY <2>1, <3>1, <3>2
  <2>2. ASSUME NEW kind \in {"auth", "disk_full"}, d \in runs[c].ops,
               runs' = [runs EXCEPT ![c] = [runs[c] EXCEPT !.end = kind]]
        PROVE  \E r \in RunOfPlan :
                 /\ runs' = [runs EXCEPT ![c] = r]
                 /\ runs[c].ops \ {d} \subseteq r.ops
                 /\ d \in r.ops \/ d \notin work' \/ d \in left'
    <3>1. PICK r : r = [runs[c] EXCEPT !.end = kind]
        OBVIOUS
    <3>2. r \in RunOfPlan /\ r.ops = runs[c].ops
        BY <1>1, <3>1 DEF RunOfPlan
    <3> QED
        BY <2>2, <3>1, <3>2
  <2>3. \/ /\ runs' = [runs EXCEPT ![c] = [runs[c] EXCEPT !.ops = runs[c].ops \ {d}]]
           /\ d \notin work' \/ d \in left'
        \/ \E kind \in {"auth", "disk_full"} :
              runs' = [runs EXCEPT ![c] = [runs[c] EXCEPT !.end = kind]]
      BY DEF RunItem, Inv, RunsOK
  <2>4. d \in runs[c].ops
      BY DEF RunItem
  <2> QED
      BY <2>1, <2>2, <2>3, <2>4
<1>3. r # None
    BY EngineAssumption
<1> QED
    BY <1>1, <1>2, <1>3

LEMMA RunItemRests ==
    ASSUME Inv, Inv', RestInv, NEW c \in Callers, NEW d \in Diffs, RunItem(c, d)
    PROVE  RestInv'
<1>1. UNCHANGED <<rootUp, session, startup, state, stopped, userPaused, dirty, timer,
                  cycle, gate>>
    BY DEF RunItem, login, control, holding
<1>2. /\ Open' \subseteq Open /\ remoteView \cap Open' \subseteq remoteView'
      /\ (localView = None => localView' = None)
      /\ handled \cap Open' \subseteq handled'
      /\ quarantined \subseteq quarantined' /\ left \subseteq left'
  <2>1. CASE /\ work' = work \ {d} /\ handled' = handled \ {d}
             /\ localView' = IF d \in work /\ localView # None
                             THEN localView \ {d} ELSE localView
             /\ remoteView' = IF d \in work THEN remoteView \ {d} ELSE remoteView
             /\ UNCHANGED <<quarantined, left>>
    <3>1. Open' \subseteq Open \ {d}
        BY <2>1 DEF Open, Seen
    <3> QED
        BY <2>1, <3>1
  <2>2. CASE /\ UNCHANGED <<work, localView, remoteView, handled>>
             /\ quarantined \subseteq quarantined' /\ left \subseteq left'
      BY <2>2, QuietOpen
  <2> QED
      BY <2>1, <2>2 DEF RunItem
<1>3. \A b \in Callers : runs[b] # None =>
          runs'[b] # None /\ runs[b].ops \subseteq runs'[b].ops \cup left' \cup (Diffs \ Open')
  <2>1. \A b \in Callers : runs[b] # None => runs[b].ops \subseteq Diffs
      BY DEF Inv, RunsOK, RunOfPlan
  <2>2. Open' \subseteq work'
      BY DEF Open
  <2> QED
      BY <2>1, <2>2, RunItemUndone
<1>4. Calm
  <2>1. Held' = Held
      BY <1>1 DEF Held
  <2>2. /\ Undone("cycle") \subseteq Undone("cycle")' \cup left' \cup (Diffs \ Open')
        /\ Undone("confirm") \subseteq Undone("confirm")' \cup left' \cup (Diffs \ Open')
      BY <1>3 DEF Undone, Callers
  <2> QED
      BY <1>1, <1>2, <2>1, <2>2 DEF Calm, Halted, Accounted
<1> QED
    BY <1>1, <1>3, <1>4, CalmCovers, CalmRests DEF RestInv, Callers

(* A confirmed plan ends: what it did not come to is left. *)
LEMMA ConfirmRunEndsRests ==
    ASSUME Inv, Inv', RestInv, ConfirmRunEnds
    PROVE  RestInv'
<1> DEFINE over == StateOver("confirm")
<1>1. /\ RunReturns("confirm") /\ left' = left \cup runs["confirm"].ops
      /\ state' = Finished(over)
      /\ UNCHANGED <<work, remoteView, session, stopped, userPaused, rootUp, startup,
                     quarantined, handled, gate, cycle>>
    BY DEF ConfirmRunEnds, holding, inbox, login, control
<1>2. over \in States
    BY StateOverState DEF Inv
<1> HIDE DEF over
<1>3. HeldShows' /\ BusyForCause'
    BY <1>1, <1>2, FinishedRests DEF HeldShows, BusyForCause
<1>4. CASE localView' # localView
  <2>1. timer' \/ Halted'
      BY <1>1, <1>4, TriggerWakes DEF ConfirmRunEnds
  <2> QED
      BY <1>3, <2>1, WokenCovers DEF RestInv
<1>5. CASE localView' = localView
  <2>1. UNCHANGED <<dirty, timer>>
      BY <1>5 DEF ConfirmRunEnds
  <2>2. runs["confirm"] # None /\ runs'["cycle"] = runs["cycle"]
      BY <1>1, RunOverUndone DEF Callers, Inv
  <2>3. /\ Held' = Held /\ Undone("cycle")' = Undone("cycle")
        /\ Undone("confirm") \subseteq left'
      BY <1>1, <2>2 DEF Held, Undone
  <2>4. Calm
      BY <1>1, <1>5, <2>1, <2>3, QuietOpen DEF Calm, Halted, Accounted
  <2> QED
      BY <1>3, <2>4, CalmCovers DEF RestInv
<1> QED
    BY <1>4, <1>5

LEMMA ResolveRunEndsRests ==
    ASSUME Inv, Inv', RestInv, ResolveRunEnds
    PROVE  RestInv'
<1>1. /\ Trigger /\ state' = StateOver("resolve")
      /\ UNCHANGED <<stopped, userPaused, cycle, gate, left, session>>
    BY DEF ResolveRunEnds, login, control, holding
<1>2. timer' \/ Halted'
    BY <1>1, TriggerWakes
<1>3. state' = state \/ state' \notin Busy \cup Restful
  <2>1. {"error", "needs_login"} \subseteq States \ (Busy \cup Restful)
      BY DEF States, Busy, Restful
  <2> QED
      BY <1>1, <2>1, SafelyLeaves DEF StateOver, Inv, StateOK
<1>4. HeldShows'
    BY <1>1, <1>3 DEF RestInv, HeldShows
<1> QED
    BY <1>2, <1>4, WokenCovers DEF RestInv, BusyForCause

-----------------------------------------------------------------------------
(* The commands. *)

LEMMA PauseRests ==
    ASSUME Inv, Inv', RestInv, Pause \/ Stop
    PROVE  RestInv'
<1>1. Halted' /\ UNCHANGED <<cycle, gate, left, session>>
    BY DEF Pause, Stop, Halted, holding, login
<1>2. state' = state \/ state' \notin Busy \cup Restful
  <2>1. "paused" \in States \ (Busy \cup Restful)
      BY DEF States, Busy, Restful
  <2> QED
      BY <2>1, SafelyLeaves DEF Pause, Stop, Inv, StateOK
<1>3. HeldShows'
    BY <1>1, <1>2 DEF RestInv, HeldShows
<1> QED
    BY <1>1, <1>3, WokenCovers DEF RestInv, BusyForCause

LEMMA RunCycleCommandsRest ==
    ASSUME Inv, Inv', RestInv, Resume \/ SyncNow
    PROVE  RestInv'
<1>1. ~ userPaused' /\ session' = session /\ ViewsOK'
    BY DEF Resume, SyncNow, control, Inv
<1>2. PICK s \in States : RunCycle(s)
  <2>1. "idle" \in States
      BY DEF States
  <2> QED
      BY <2>1 DEF Resume, SyncNow, Inv, StateOK
<1> QED
    BY <1>1, <1>2, RunCycleCovers, RunCycleRests DEF RestInv

(* What was held is what the confirmed plan has to do. *)
LEMMA ConfirmRests ==
    ASSUME Inv, Inv', RestInv, Confirm
    PROVE  RestInv'
<1> DEFINE ops == gate.ops \cup gate.withheld
<1>1. /\ gate # None /\ gate' = None /\ runs["confirm"] = None
      /\ StartRun("confirm", ops, gate.id, state)
      /\ UNCHANGED <<work, localView, remoteView, rootUp, session, startup, stopped,
                     userPaused, dirty, timer, cycle, handled, quarantined, left>>
    BY DEF Confirm, views, login, control, inbox
<1>2. /\ ops \in SUBSET Diffs /\ gate.id \in Nat /\ Held \subseteq ops
  <2>1. /\ gate \in HeldPlan /\ gate.affected = gate.ops \cap Destructive
        /\ gate.signature = gate.affected \cup gate.withheld
      BY <1>1 DEF Inv, HeldAsShown
  <2> QED
      BY <1>1, <2>1 DEF HeldPlan, Held
<1> HIDE DEF ops
<1>3. /\ runs'["confirm"] # None /\ runs'["confirm"].ops = ops
      /\ runs'["cycle"] = runs["cycle"]
    BY <1>1, <1>2, StartRunUndone DEF Inv, Callers
<1>4. /\ Undone("confirm") = {} /\ Undone("confirm")' = ops
      /\ Undone("cycle")' = Undone("cycle")
    BY <1>1, <1>3 DEF Undone
<1>5. Calm
    BY <1>1, <1>2, <1>4, QuietOpen DEF Calm, Halted, Accounted
<1>6. HeldShows' /\ BusyForCause'
    BY <1>1, <1>3 DEF HeldShows, BusyForCause
<1> QED
    BY <1>5, <1>6, CalmCovers DEF RestInv

(* What was held is left. *)
LEMMA RejectPlanRests ==
    ASSUME Inv, Inv', RestInv, RejectPlan
    PROVE  RestInv'
<1>1. /\ gate # None /\ gate' = None /\ left' = left \cup gate.signature
      /\ state' = Safely(state, Resting)
      /\ UNCHANGED <<work, localView, remoteView, rootUp, session, startup, stopped,
                     userPaused, dirty, timer, cycle, runs, handled, quarantined>>
    BY DEF RejectPlan, views, login, control, inbox, running
<1>2. /\ Held \subseteq left' /\ Undone("confirm")' = Undone("confirm")
      /\ Undone("cycle")' = Undone("cycle")
    BY <1>1 DEF Held, Undone
<1>3. Calm
    BY <1>1, <1>2, QuietOpen DEF Calm, Halted, Accounted
<1>4. state' \notin Busy
  <2>1. Resting \in States \ Busy /\ state \in States
      BY DEF Resting, States, Busy, Inv, StateOK
  <2>2. CASE state \in Busy
      BY <1>1, <2>1, <2>2, SafelyAnywhere
  <2>3. CASE state \notin Busy
      BY <1>1, <2>1, <2>3, SafelyEither
  <2> QED
      BY <2>2, <2>3
<1> QED
    BY <1>1, <1>3, <1>4, CalmCovers DEF RestInv, HeldShows, BusyForCause

LEMMA ResolveRests ==
    ASSUME Inv, Inv', RestInv, NEW d \in Diffs, Resolve(d) \/ Release(d)
    PROVE  RestInv'
<1>1. UNCHANGED <<work, localView, remoteView, rootUp, session, startup, stopped,
                  userPaused, cycle, gate, left>>
    BY DEF Resolve, Release, views, login, control, holding
<1>2. CASE Trigger /\ UNCHANGED state
  <2>1. timer' \/ Halted'
      BY <1>1, <1>2, TriggerWakes
  <2>2. HeldShows'
      BY <1>1, <1>2 DEF RestInv, HeldShows
  <2> QED
      BY <2>1, <2>2, WokenCovers DEF RestInv, BusyForCause
<1>3. CASE /\ StartRun("resolve", {d}, 0, state)
           /\ UNCHANGED <<dirty, timer, handled, quarantined>>
  <2>1. /\ runs'["resolve"] # None /\ runs'["cycle"] = runs["cycle"]
        /\ runs'["confirm"] = runs["confirm"]
      BY <1>3, StartRunUndone DEF Inv, Callers
  <2>2. /\ Held' = Held /\ Undone("confirm")' = Undone("confirm")
        /\ Undone("cycle")' = Undone("cycle")
      BY <1>1, <2>1 DEF Held, Undone
  <2>3. Calm
      BY <1>1, <1>3, <2>2, QuietOpen DEF Calm, Halted, Accounted
  <2>4. state' \in {state, "syncing"} /\ "syncing" \notin Restful
      BY <1>3, SafelyEither DEF StartRun, Restful
  <2>5. HeldShows'
      BY <1>1, <2>4 DEF RestInv, HeldShows
  <2> QED
      BY <2>1, <2>3, <2>5, CalmCovers DEF RestInv, BusyForCause
<1> QED
    BY <1>2, <1>3 DEF Resolve, Release

(* A login is followed by start(), or leaves all to the next trigger. *)
LEMMA LogInRests ==
    ASSUME Inv, Inv', RestInv, LogIn
    PROVE  RestInv'
<1>1. UNCHANGED <<work, localView, remoteView, rootUp, stopped, userPaused, dirty, timer,
                  cycle, gate, runs, handled, quarantined>>
    BY DEF LogIn, views, control, holding, running, inbox
<1>2. \/ startup' # "off" /\ state' = "scanning" /\ left' = left
      \/ left' = Diffs /\ state' = state
    BY DEF LogIn
<1>3. Open' = Open /\ Open \subseteq Diffs /\ left \subseteq left'
    BY <1>1, <1>2, QuietOpen DEF Inv, ViewsOK, InboxOK, Open
<1>4. Accounted \subseteq Accounted'
  <2>1. /\ Held' = Held /\ Undone("confirm")' = Undone("confirm")
        /\ Undone("cycle")' = Undone("cycle")
      BY <1>1 DEF Held, Undone
  <2> QED
      BY <1>1, <1>3, <2>1 DEF Accounted
<1>5. Covered'
  <2>1. OffCovers'
      BY <1>2, <1>3 DEF OffCovers, Away, Accounted
  <2>2. /\ Looked => Looked'
        /\ ConflictsCover => ConflictsCover'
        /\ PreflightCovers => PreflightCovers'
        /\ RunCovers => RunCovers'
      BY <1>1, <1>3, <1>4 DEF Looked, ConflictsCover, PreflightCovers, RunCovers
  <2> QED
      BY <1>1, <2>1, <2>2 DEF RestInv, Covered, Halted, Woken
<1>6. gate' # None => gate'.signature \subseteq Diffs
    BY DEF Inv, HeldAsShown, HeldPlan
<1>7. HeldShows'
    BY <1>2, <1>6 DEF HeldShows, Restful
<1> QED
    BY <1>2, <1>5, <1>7 DEF RestInv, BusyForCause

-----------------------------------------------------------------------------
(* The invariant. *)

LEMMA InitRest == Init => RestInv /\ CycleRuns
<1> SUFFICES ASSUME Init PROVE RestInv /\ CycleRuns
    OBVIOUS
<1>1. cycle.pc = "off" /\ localView = None /\ gate = None /\ runs["cycle"] = None
    BY NoCycleRecord DEF Init, Callers
<1> QED
    BY <1>1 DEF RestInv, Covered, OffCovers, Away, HeldShows, BusyForCause, CycleRuns

LEMMA StutterRests ==
    ASSUME Inv, Inv', RestInv, UNCHANGED vars
    PROVE  RestInv'
<1>1. Calm
    BY QuietCalm DEF vars, views, login, control, running, holding, inbox
<1> QED
    BY <1>1, CalmCovers, CalmRests DEF RestInv, vars, running, holding

LEMMA NextRests ==
    ASSUME Inv, Inv', RestInv, CycleRuns, [Next]_vars
    PROVE  RestInv'
<1>1. CASE UNCHANGED vars
    BY <1>1, StutterRests
<1>2. CASE Program
  <2>1. CASE Start \/ Inputs \/ TimerFires \/ Unthrottled \/ SessionCleared \/ Stopped
      BY <2>1, StartRests, ReportsRest, TimerFiresRests, StatusRests DEF Inputs
  <2>2. CASE Cycle
      BY <2>2, CycleListingRests, CyclePlansRests, CycleThrowsRests, CycleHandlesRests,
         CycleReplansRests, PreflightFailsRests, CycleGatesRests, CycleRunEndsRests
      DEF Cycle
  <2>3. CASE Run
      BY <2>3, RunItemRests, ConfirmRunEndsRests, ResolveRunEndsRests DEF Run
  <2> QED
      BY <1>2, <2>1, <2>2, <2>3 DEF Program
<1>3. CASE User
    BY <1>3, PauseRests, RunCycleCommandsRest, ConfirmRests, RejectPlanRests,
       LogInRests, ResolveRests DEF User
<1>4. CASE World
    BY <1>4, RootUnavailableRests, StatusRests, ChangeRests DEF World
<1>5. CASE PeriodicListing
    BY <1>5, PeriodicListingRests
<1> QED
    BY <1>1, <1>2, <1>3, <1>4, <1>5 DEF Next

(* No cycle is begun while one waits for its run. *)
LEMMA NextCycleRuns ==
    ASSUME Inv, Inv', CycleRuns, [Next]_vars
    PROVE  CycleRuns'
<1>1. ASSUME runs'["cycle"] # None => runs["cycle"] # None,
             UNCHANGED cycle \/ cycle.pc # "run"
      PROVE  CycleRuns'
    BY <1>1 DEF CycleRuns
<1>2. ASSUME NEW s, RunCycle(s), UNCHANGED runs
      PROVE  CycleRuns'
    BY <1>1, <1>2 DEF RunCycle
<1>3. CASE UNCHANGED vars
    BY <1>1, <1>3 DEF vars, running
<1>4. CASE Start
  <2>1. (\E s \in States : RunCycle(s)) \/ UNCHANGED cycle
      BY <1>4, FailureStateState
      DEF Start, StartRecovered, StartWatched, StartListed, StartEnds, Inv, StateOK
  <2> QED
      BY <1>1, <1>2, <1>4, <2>1
      DEF Start, StartRecovered, StartWatched, StartListed, running
<1>5. CASE TimerFires \/ Resume \/ SyncNow
    BY <1>2, <1>5 DEF TimerFires, Resume, SyncNow, running
<1>6. CASE Inputs \/ Unthrottled \/ SessionCleared \/ Stopped \/ PeriodicListing
           \/ RejectPlan \/ LogIn \/ (\E d \in Diffs : Release(d)) \/ World
    BY <1>1, <1>6
    DEF Inputs, LocalChanges, RootRestored, RemoteEvent, Unthrottled, SessionCleared,
        Stopped, PeriodicListing, RejectPlan, LogIn, Release, World, RootUnavailable,
        Throttled, SessionLost, Change, running
<1>7. CASE CycleListing \/ CyclePlans \/ CycleThrows \/ CycleHandles \/ CycleReplans
           \/ PreflightFails
    BY <1>1, <1>7
    DEF CycleListing, CyclePlans, CycleThrows, CycleHandles, CycleReplans,
        PreflightFails, running
<1>8. CASE CycleGates
  <2>1. cycle.pc = "preflight" /\ cycle \in CycleRecord
      BY <1>8 DEF CycleGates, Inv, CycleOK
  <2>2. UNCHANGED runs \/ cycle'.pc = "run"
      BY <1>8, <2>1 DEF CycleGates, CycleRecord, running
  <2> QED
      BY <1>1, <2>1, <2>2 DEF CycleRuns
<1>9. CASE CycleRunEnds
  <2>1. runs'["cycle"] = None
      BY <1>9, RunOverUndone DEF CycleRunEnds, Callers, Inv
  <2> QED
      BY <2>1 DEF CycleRuns
<1>10. CASE Run
  <2>1. CASE \E c \in Callers, d \in Diffs : RunItem(c, d)
    <3>1. PICK c \in Callers, d \in Diffs : RunItem(c, d)
        BY <2>1
    <3>2. runs[c] # None /\ \E r : runs' = [runs EXCEPT ![c] = r]
        BY <3>1 DEF RunItem
    <3>3. runs'["cycle"] # None => runs["cycle"] # None
        BY <3>2 DEF Inv, RunsOK, Callers
    <3> QED
        BY <1>1, <3>1, <3>3 DEF RunItem
  <2>2. CASE ConfirmRunEnds \/ ResolveRunEnds
      BY <1>1, <2>2, RunOverUndone DEF ConfirmRunEnds, ResolveRunEnds, Callers, Inv
  <2> QED
      BY <1>10, <2>1, <2>2 DEF Run
<1>11. CASE Pause \/ Stop
  <2>1. runs' = runs \/ (executor # None /\ \E r : runs' = [runs EXCEPT ![executor] = r])
      BY <1>11 DEF Pause, Stop, PauseExecutor
  <2>2. runs'["cycle"] # None => runs["cycle"] # None
      BY <2>1 DEF Inv, RunsOK, Callers
  <2> QED
      BY <1>1, <1>11, <2>2 DEF Pause, Stop
<1>12. CASE Confirm \/ \E d \in Diffs : Resolve(d)
  <2>1. \/ runs' = runs
        \/ \E c \in {"confirm", "resolve"} : \E r : runs' = [runs EXCEPT ![c] = r]
      BY <1>12 DEF Confirm, Resolve, StartRun, running
  <2>2. runs'["cycle"] = runs["cycle"]
      BY <2>1 DEF Inv, RunsOK, Callers
  <2> QED
      BY <1>1, <1>12, <2>2 DEF Confirm, Resolve
<1> QED
    BY <1>3, <1>4, <1>5, <1>6, <1>7, <1>8, <1>9, <1>10, <1>11, <1>12
    DEF Next, Program, User, Cycle

LEMMA RestInvariant == Spec => [](Inv /\ RestInv /\ CycleRuns)
<1>1. Init => RestInv /\ CycleRuns
    BY InitRest
<1>2. Inv /\ Inv' /\ RestInv /\ CycleRuns /\ [Next]_vars => RestInv' /\ CycleRuns'
    BY NextRests, NextCycleRuns
<1> QED
    BY <1>1, <1>2, Invariant, PTL DEF Spec

(* When all is quiet and the status says idle or attention, there is nothing *)
(* to sync but what was quarantined or left undone for a reason, no plan     *)
(* waits unseen for a confirmation, and the status does not go on saying     *)
(* that the engine works: no interleaving of the watcher, the mirror, the    *)
(* cycles, the confirmed plans, the commands and the failures loses the      *)
(* trigger that a change needs (trigger(), dirty, shouldRerun(),             *)
(* restingState()).                                                          *)
THEOREM StatusTruthful == Spec => []RestIsTruthful
BY RestInvariant, RestImplied, PTL
=============================================================================
