------------------------------- MODULE Engine -------------------------------
(***************************************************************************)
(* The cycle scheduler of src/engine/engine.ts with its state machine      *)
(* (src/engine/status.ts) and the gate of src/safety/brake.ts.             *)
(*                                                                         *)
(* What there is to sync is a set of differences between the two sides.    *)
(* Users make and withdraw differences; the watcher and the mirror show    *)
(* them to the engine late; cycles plan what they see and execute it.  How *)
(* a plan comes about and how an operation is executed is the subject of   *)
(* Reconcile and Executor.                                                 *)
(***************************************************************************)
EXTENDS Integers, FiniteSets, Sequences

CONSTANTS
    None,
    LocalDiffs, RemoteDiffs,    \* differences, by the side they are made on
    Destructive,    \* those a plan deletes or replaces something for
    Conflicting,    \* those a plan reports as conflicts at first
    BrakeLimit,     \* how many of these pass the brake, by its lower limit
    Commands,       \* what the user of this instance does
    Failures,       \* what goes wrong in this instance
    LoggedIn,       \* whether there is a session when start() is called
    StartPaused,    \* config.startPaused
    MaxChanges, MaxCommands, MaxFailures     \* bounds of this model

Diffs == LocalDiffs \cup RemoteDiffs

\* A call of executePlan(): what is to do yet, all of it, whether the executor
\* is paused, why it ends, and the number of the plan that it was confirmed for.
RunOfPlan == [ops : SUBSET Diffs, touched : SUBSET Diffs, paused : BOOLEAN,
              end : {None, "auth", "disk_full"}, id : Nat]

\* PlanGate.current: a plan, what the brake stopped of it, and all that it
\* destroys.
HeldPlan == [id : Nat, ops : SUBSET Diffs, withheld : SUBSET Diffs,
             affected : SUBSET Diffs, signature : SUBSET Diffs]

ASSUME EngineAssumption ==
    /\ LocalDiffs \cap RemoteDiffs = {} /\ IsFiniteSet(Diffs)
    /\ Destructive \subseteq Diffs /\ Conflicting \subseteq Diffs \ Destructive
    /\ None \notin RunOfPlan /\ None \notin HeldPlan
    /\ \A view \in SUBSET LocalDiffs : view # None
    /\ {BrakeLimit, MaxChanges, MaxCommands, MaxFailures} \subseteq Nat
    /\ Commands \subseteq {"pause", "resume", "sync", "confirm", "reject",
                           "resolve", "release", "stop", "login"}
    /\ Failures \subseteq {"auth", "session", "connection", "listing", "throw",
                           "preflight", "item", "disk_full", "throttle", "root"}
    /\ {LoggedIn, StartPaused} \subseteq SUBSET BOOLEAN

VARIABLES
    work,        \* the differences there are
    localView,   \* local differences in the watcher's snapshot; None: no scan
    remoteView,  \* remote differences in the mirror
    mirror,      \* RemoteMirror: [complete, available]
    rootUp,      \* localRootAvailable
    session,     \* "in", "lost" (the status is yet to change) or "out"
    subscribed,  \* start() listens to the session
    startup,     \* where start() is
    feed,        \* the event feed and the listing timer run
    state,       \* status.state
    userPaused, stopped, dirty,
    timer,       \* triggerTimer is armed
    cycle,       \* the running cycle
    runs,        \* executePlan() calls in progress, by caller
    executor,    \* whose run this.executor is
    gate, seq,   \* PlanGate: the held plan and the last number given out
    handled,     \* conflicts that handleNew() has turned into plain work
    conflicts,   \* open conflicts
    quarantined, \* open quarantine entries
    shown,       \* history: what each held plan's number was first given for
    left,        \* history: what was left undone knowingly since the last plan
    changes, commands, failures     \* counters of the bounds

views    == <<localView, remoteView, mirror, rootUp>>
login    == <<session, subscribed, startup, feed>>
control  == <<userPaused, stopped>>
running  == <<runs, executor>>
holding  == <<gate, seq, shown>>
inbox    == <<handled, conflicts, quarantined>>
bounds   == <<changes, commands, failures>>
vars     == <<work, views, login, state, control, dirty, timer, cycle, running,
              holding, inbox, left, bounds>>

Callers == {"cycle", "confirm", "resolve"}

States == {"idle", "scanning", "syncing", "paused", "offline", "throttled",
           "attention", "awaiting_confirmation", "error", "needs_login",
           "stopped"}

NoCycle == [pc |-> "off", local |-> {}, shunned |-> {}, ops |-> {},
            withheld |-> {}, held |-> FALSE]

-----------------------------------------------------------------------------
(* The state machine.                                                      *)

\* TRANSITIONS: the states that a state does not lead to.
Forbidden ==
    [s \in States |->
        CASE s \in {"scanning", "syncing", "idle", "attention"} -> {}
          [] s = "awaiting_confirmation" -> {"throttled"}
          [] s = "throttled" -> {"awaiting_confirmation"}
          [] s = "offline" -> {"syncing", "awaiting_confirmation"}
          [] s = "paused" -> {"syncing", "offline", "throttled",
                              "awaiting_confirmation"}
          [] s = "error" -> {"syncing", "offline", "throttled", "attention",
                             "awaiting_confirmation"}
          [] s = "needs_login" -> {"idle", "syncing", "offline", "throttled",
                                   "attention", "awaiting_confirmation"}
          [] s = "stopped" -> States]

\* Mutant: a state is left out of a row.
CanTransitionPausedOn(s, t) ==
    s = t \/ t \notin Forbidden[s] \cup (IF s = "paused" THEN {"stopped"} ELSE {})

CanTransition(s, t) == s = t \/ t \notin Forbidden[s]

\* setStateSafely
Safely(s, t) == IF CanTransition(s, t) THEN t ELSE s

\* restingState(), of what this step leaves behind.
Resting ==
    IF gate' # None THEN "awaiting_confirmation"
    ELSE IF conflicts' # {} \/ quarantined' # {} THEN "attention" ELSE "idle"

\* The state finishCycle() makes of s.
Finished(s) ==
    IF s \in {"error", "needs_login", "paused"} THEN s ELSE Safely(s, Resting)

-----------------------------------------------------------------------------
(* Helpers of the actions.                                                 *)

Seen == (IF localView = None THEN {} ELSE localView) \cup remoteView

\* trigger(), from a step that leaves the cycle alone.
Trigger ==
    IF stopped \/ userPaused THEN UNCHANGED <<dirty, timer>>
    ELSE dirty' = TRUE /\ timer' = TRUE

\* The loop of runCycle() starts cycleOnce() in state s; `dirty' is reset.
BeginCycle(s) ==
    /\ dirty' = FALSE
    /\ IF userPaused' \/ session = "out"
       THEN cycle' = NoCycle /\ state' = s
       ELSE /\ state' = Safely(s, "scanning")
            /\ cycle' = IF localView' = None THEN NoCycle
                        ELSE [NoCycle EXCEPT
                                !.pc = IF mirror'.complete THEN "digest"
                                       ELSE "listing",
                                !.local = localView']

\* Mutant: who joins the running cycle gets no other.
RunCycleJoins(s) ==
    IF cycle.pc = "off" THEN BeginCycle(s)
    ELSE state' = s /\ UNCHANGED <<dirty, cycle>>

\* runCycle(), called in state s.
RunCycle(s) ==
    IF cycle.pc = "off" THEN BeginCycle(s)
    ELSE dirty' = TRUE /\ state' = s /\ UNCHANGED cycle

\* shouldRerun()
ShouldRerun(again) == again /\ ~ stopped /\ ~ userPaused

\* cycleOnce() ends in state s; `again' is the dirty flag by then.
EndOnce(s, again) ==
    IF ShouldRerun(again) THEN BeginCycle(s)
    ELSE cycle' = NoCycle /\ state' = s /\ dirty' = again

\* remoteFailure(): the state it makes of s, and what it tells the mirror.  An
\* error of another kind is a "listing" or a "throw", by what it ends.  It
\* hands an "auth" error to the session too, which takes no RemoteError for a
\* rejection (isSessionRejected()) and goes on.
FailureState(s, kind) ==
    Safely(s, CASE kind = "auth" -> "needs_login"
                [] kind = "connection" -> "offline"
                [] kind \in {"throw", "listing"} -> "error")
FailureEffects(kind) ==
    mirror' = IF kind = "auth" THEN mirror
              ELSE [mirror EXCEPT !.available = FALSE]

\* A failure that this instance has in store.
Fails(kind) == /\ kind \in Failures /\ failures < MaxFailures
               /\ failures' = failures + 1
               /\ UNCHANGED <<changes, commands>>

\* A remote call answers, or fails; with no session it is refused.
Answers == session = "in" /\ UNCHANGED bounds
CallFails(kind) ==
    \/ Fails(kind)
    \/ kind = "auth" /\ session # "in" /\ UNCHANGED bounds

\* RemoteMirror.fullRefresh()
Listed == /\ remoteView' = work \cap RemoteDiffs
          /\ mirror' = [complete |-> TRUE, available |-> TRUE]
NotListed == /\ mirror' = [complete |-> FALSE, available |-> FALSE]
             /\ UNCHANGED remoteView

\* executePlan() starts, in state s.
StartRun(caller, ops, id, s) ==
    /\ runs' = [runs EXCEPT ![caller] =
                  [ops |-> ops, touched |-> ops, paused |-> userPaused,
                   end |-> None, id |-> id]]
    /\ executor' = caller
    /\ state' = Safely(s, "syncing")

\* this.executor?.pause()
PauseExecutor ==
    runs' = IF executor = None THEN runs
            ELSE [runs EXCEPT ![executor].paused = TRUE]

-----------------------------------------------------------------------------
(* start().                                                                *)

Init ==
    /\ work \in SUBSET Diffs
    /\ localView = None /\ remoteView = {}
    /\ mirror = [complete |-> FALSE, available |-> TRUE]
    /\ rootUp = TRUE /\ feed = FALSE
    /\ session \in {IF b THEN "in" ELSE "out" : b \in LoggedIn}
    /\ IF session = "in"
       THEN subscribed = FALSE /\ startup = "recover" /\ state = "scanning"
       ELSE subscribed = TRUE /\ startup = "off" /\ state = "needs_login"
    /\ userPaused \in StartPaused
    /\ stopped = FALSE /\ dirty = FALSE /\ timer = FALSE
    /\ cycle = NoCycle
    /\ runs = [c \in Callers |-> None] /\ executor = None
    /\ gate = None /\ seq = 0 /\ shown = <<>>
    /\ handled = {} /\ conflicts = {} /\ quarantined = {}
    /\ left = {}
    /\ changes = 0 /\ commands = 0 /\ failures = 0

\* recoverJournal() is done.
StartRecovered ==
    /\ startup = "recover"
    /\ startup' = "watch"
    /\ UNCHANGED <<work, views, session, subscribed, feed, state, control,
                   dirty, timer, cycle, running, holding, inbox, left, bounds>>

\* The watcher has scanned, and reports what it found.
StartWatched ==
    /\ startup = "watch"
    /\ startup' = "list"
    /\ IF stopped \/ ~ rootUp THEN UNCHANGED localView
       ELSE localView' = work \cap LocalDiffs
    /\ IF localView' # localView THEN Trigger ELSE UNCHANGED <<dirty, timer>>
    /\ UNCHANGED <<work, remoteView, mirror, rootUp, session, subscribed, feed,
                   state, control, cycle, running, holding, inbox, left,
                   bounds>>

StartEnds(s) ==
    IF userPaused THEN state' = Safely(s, "paused") /\ UNCHANGED <<dirty, cycle>>
    ELSE RunCycle(s)

StartListed ==
    /\ startup = "list"
    /\ startup' = "off" /\ feed' = TRUE
    /\ UNCHANGED <<localView, session, control>>
    /\ \/ Answers /\ Listed /\ StartEnds(state)
       \/ \E kind \in {"auth", "connection", "listing"} :
             /\ CallFails(kind) /\ NotListed
             /\ StartEnds(FailureState(state, kind))
    /\ UNCHANGED <<work, rootUp, subscribed, timer, running, holding, inbox,
                   left>>

-----------------------------------------------------------------------------
(* Inputs from watcher, feed and timers.                                   *)

\* Users of either side make a difference, or undo it.  One that is made again
\* is another: what a view still shows of the old one is not its fingerprint.
Change(d) ==
    /\ changes < MaxChanges
    /\ changes' = changes + 1
    /\ \/ d \in work /\ work' = work \ {d} /\ UNCHANGED <<localView, remoteView>>
       \/ /\ d \notin work /\ work' = work \cup {d}
          /\ localView' = IF localView = None THEN None ELSE localView \ {d}
          /\ remoteView' = remoteView \ {d}
    /\ UNCHANGED <<mirror, rootUp, login, state, control, dirty, timer, cycle,
                   running, holding, inbox, left, commands, failures>>

\* onLocalEvent: `changes'
LocalChanges ==
    /\ ~ stopped /\ rootUp
    /\ localView # None /\ localView # work \cap LocalDiffs
    /\ localView' = work \cap LocalDiffs
    /\ Trigger
    /\ UNCHANGED <<work, remoteView, mirror, rootUp, login, state, control,
                   cycle, running, holding, inbox, left, bounds>>

\* onLocalEvent: `root_unavailable' and `root_restored'
RootUnavailable ==
    /\ ~ stopped /\ rootUp /\ localView # None
    /\ Fails("root")
    /\ rootUp' = FALSE
    /\ state' = Safely(state, "error")
    /\ UNCHANGED <<work, localView, remoteView, mirror, login, control, dirty,
                   timer, cycle, running, holding, inbox, left>>

RootRestored ==
    /\ ~ stopped /\ ~ rootUp
    /\ rootUp' = TRUE
    /\ localView' = work \cap LocalDiffs
    /\ Trigger
    /\ UNCHANGED <<work, remoteView, mirror, login, state, control, cycle,
                   running, holding, inbox, left, bounds>>

\* onRemoteEvent: only a deletion is applied without a call.
RemoteEvent(d) ==
    /\ feed /\ session = "in"
    /\ (d \in remoteView) # (d \in work)
    /\ remoteView' = IF d \in work THEN remoteView \cup {d} ELSE remoteView \ {d}
    /\ mirror' = IF d \in work \cap Destructive THEN mirror
                 ELSE [mirror EXCEPT !.available = TRUE]
    /\ Trigger
    /\ UNCHANGED <<work, localView, rootUp, login, state, control, cycle,
                   running, holding, inbox, left, bounds>>

\* Mutant: a new listing starts no cycle.
RelistedOnly == Listed /\ UNCHANGED <<dirty, timer, state>>

Relisted == Listed /\ Trigger /\ UNCHANGED state

\* The listing timer, and onRemoteRefreshRequired.
PeriodicListing ==
    /\ feed
    /\ \/ Answers /\ Relisted
       \/ \E kind \in {"auth", "connection", "listing"} :
             /\ CallFails(kind) /\ NotListed
             /\ state' = FailureState(state, kind)
             /\ UNCHANGED <<dirty, timer>>
    /\ UNCHANGED <<work, localView, rootUp, login, control, cycle, running,
                   holding, inbox, left>>

TimerFires ==
    /\ timer
    /\ timer' = FALSE
    /\ UNCHANGED <<localView, mirror, session, control>>
    /\ RunCycle(state)
    /\ UNCHANGED <<work, remoteView, rootUp, subscribed, startup, feed, running,
                   holding, inbox, left, bounds>>

\* onThrottle
Throttled ==
    /\ Fails("throttle")
    /\ state \in {"syncing", "idle", "scanning"}
    /\ state' = "throttled"
    /\ UNCHANGED <<work, views, login, control, dirty, timer, cycle, running,
                   holding, inbox, left>>

Unthrottled ==
    /\ state = "throttled"
    /\ UNCHANGED <<holding, inbox>>
    /\ state' = Safely(state, IF cycle.pc # "off" THEN "syncing" ELSE Resting)
    /\ UNCHANGED <<work, views, login, control, dirty, timer, cycle, running,
                   left, bounds>>

\* The API client is refused a new token and signs out; then SessionState tells.
SessionLost ==
    /\ session = "in" /\ Fails("session")
    /\ session' = "lost"
    /\ UNCHANGED <<work, views, subscribed, startup, feed, state, control, dirty,
                   timer, cycle, running, holding, inbox, left>>

SessionCleared ==
    /\ session = "lost"
    /\ session' = "out"
    /\ state' = IF subscribed THEN "needs_login" ELSE state
    /\ UNCHANGED <<work, views, subscribed, startup, feed, control, dirty,
                   timer, cycle, running, holding, inbox, left, bounds>>

-----------------------------------------------------------------------------
(* cycleOnce().                                                            *)

CycleListing ==
    /\ cycle.pc = "listing"
    /\ UNCHANGED <<localView, session, control>>
    /\ \/ /\ Answers /\ Listed
          /\ cycle' = [cycle EXCEPT !.pc = "digest"]
          /\ UNCHANGED <<state, dirty, left>>
       \/ \E kind \in {"auth", "connection", "listing"} :
             /\ CallFails(kind) /\ NotListed
             /\ EndOnce(FailureState(state, kind), dirty)
             /\ left' = left \cup cycle.local \cup remoteView
    /\ UNCHANGED <<work, rootUp, subscribed, startup, feed, timer, running,
                   holding, inbox>>

\* What a plan does and what it withholds, of the differences in a view.  A
\* deletion that only an incomplete mirror shows is neither: it is blocked.
Unsure(seen) == IF mirror.complete /\ mirror.available THEN {}
                ELSE seen \cap RemoteDiffs \cap Destructive
Planned(seen) ==
    IF ~ rootUp THEN [ops |-> {}, withheld |-> LocalDiffs]
    ELSE [ops      |-> seen \ Unsure(seen),
          withheld |-> IF mirror.complete THEN Unsure(seen) ELSE {}]
Blocked(seen) == IF mirror.complete THEN {} ELSE Unsure(seen)

\* gateAndExecute() up to its await.
GateAndExecute(plan) ==
    IF plan.ops \cup plan.withheld = {}
    THEN EndOnce(Finished(state), dirty)
    ELSE /\ cycle' = [cycle EXCEPT !.pc = "preflight", !.ops = plan.ops,
                                   !.withheld = plan.withheld]
         /\ UNCHANGED <<state, dirty>>

\* The digests are there: plan.  Conflicts are handled with the root away, too.
CyclePlans ==
    /\ cycle.pc = "digest"
    /\ UNCHANGED <<localView, mirror, session, control, holding, inbox>>
    /\ LET seen == (cycle.local \cup remoteView) \ quarantined
           new  == (seen \cap Conflicting) \ handled
       IN  /\ left' = Blocked(seen)
           /\ IF new # {}
              THEN /\ cycle' = [cycle EXCEPT !.pc = "conflicts", !.ops = new,
                                             !.shunned = quarantined]
                   /\ UNCHANGED <<state, dirty>>
              ELSE GateAndExecute(Planned(seen))
    /\ UNCHANGED <<work, remoteView, rootUp, subscribed, startup, feed, timer,
                   running, bounds>>

\* An await of cycleOnce() or gateAndExecute() throws.
CycleThrows ==
    /\ cycle.pc \in {"conflicts", "preflight"}
    /\ UNCHANGED <<localView, session, control>>
    /\ \E kind \in {"auth", "connection", "throw"} :
          /\ CallFails(kind) /\ FailureEffects(kind)
          /\ EndOnce(FailureState(state, kind), dirty)
    /\ \E done \in SUBSET (IF cycle.pc = "conflicts" THEN cycle.ops ELSE {}) :
          handled' = handled \cup done /\ conflicts' = conflicts \cup done
    /\ left' = left \cup cycle.local \cup remoteView
    /\ UNCHANGED <<work, remoteView, rootUp, subscribed, startup, feed, timer,
                   running, holding, quarantined>>

\* handleNew() has renamed and detached; the watcher scans once more.
CycleHandles ==
    /\ cycle.pc = "conflicts"
    /\ Answers
    /\ handled' = handled \cup cycle.ops
    /\ conflicts' = conflicts \cup cycle.ops
    /\ localView' = IF rootUp THEN work \cap LocalDiffs ELSE localView
    /\ IF localView' # localView THEN Trigger ELSE UNCHANGED <<dirty, timer>>
    /\ cycle' = [cycle EXCEPT !.pc = "replan", !.ops = {}, !.local = localView']
    /\ UNCHANGED <<work, remoteView, mirror, rootUp, login, state, control,
                   running, holding, quarantined, left>>

\* The second plan: its conflicts are dropped, and the quarantine is the old.
CycleReplans ==
    /\ cycle.pc = "replan"
    /\ UNCHANGED <<localView, mirror, session, control, holding, inbox>>
    /\ LET seen == (cycle.local \cup remoteView) \ cycle.shunned
       IN  /\ left' = Blocked(seen)
           /\ GateAndExecute(Planned(seen \ (Conflicting \ handled)))
    /\ UNCHANGED <<work, remoteView, rootUp, subscribed, startup, feed, timer,
                   running, bounds>>

PreflightFails ==
    /\ cycle.pc = "preflight"
    /\ UNCHANGED <<localView, mirror, session, control>>
    /\ \/ Fails("preflight")
       \/ ~ rootUp /\ UNCHANGED bounds
    /\ EndOnce(Safely(state, "error"), dirty)
    /\ left' = left \cup cycle.ops \cup cycle.withheld
    /\ UNCHANGED <<work, remoteView, rootUp, subscribed, startup, feed, timer,
                   running, holding, inbox>>

\* Mutant: the number stays as long as a plan is held.
SameHeldAny(signature) == gate # None

\* The held plan destroys the same.
SameHeld(signature) == gate # None /\ gate.signature = signature

\* PlanGate.evaluate(): hold the plan, under the number of what it destroys.
Hold(plan) ==
    LET affected  == plan.ops \cap Destructive
        signature == affected \cup plan.withheld
        same      == SameHeld(signature)
        id        == IF same THEN gate.id ELSE seq + 1
    IN  /\ gate' = [id |-> id, ops |-> plan.ops, withheld |-> plan.withheld,
                    affected |-> affected, signature |-> signature]
        /\ seq' = IF same THEN seq ELSE id
        /\ shown' = IF id \in DOMAIN shown THEN shown
                    ELSE Append(shown, signature)

\* Preflight is passed: the gate, and the plan or its safe part runs.
CycleGates ==
    /\ cycle.pc = "preflight"
    /\ rootUp /\ Answers
    /\ UNCHANGED <<localView, mirror, session, control, inbox>>
    /\ LET affected == cycle.ops \cap Destructive
           safe     == cycle.ops \ affected
       IN  IF Cardinality(affected) > BrakeLimit
           THEN /\ Hold(cycle)
                /\ IF safe = {}
                   THEN /\ EndOnce(Safely(state, "awaiting_confirmation"), dirty)
                        /\ UNCHANGED running
                   ELSE /\ cycle' = [cycle EXCEPT !.pc = "run", !.held = TRUE]
                        /\ StartRun("cycle", safe, 0, state)
                        /\ UNCHANGED dirty
           ELSE /\ gate' = None
                /\ cycle' = [cycle EXCEPT !.pc = "run"]
                /\ StartRun("cycle", cycle.ops, 0, state)
                /\ UNCHANGED <<dirty, seq, shown>>
    /\ UNCHANGED <<work, remoteView, rootUp, subscribed, startup, feed, timer,
                   left>>

-----------------------------------------------------------------------------
(* executePlan().                                                          *)

\* The loop of execute() takes up an operation; what is no more is skipped.
RunItem(c, d) ==
    /\ runs[c] # None
    /\ runs[c].end = None /\ ~ runs[c].paused /\ d \in runs[c].ops
    /\ \/ /\ Answers
          /\ runs' = [runs EXCEPT ![c].ops = @ \ {d}]
          /\ work' = work \ {d}
          /\ localView' = IF d \in work /\ localView # None
                          THEN localView \ {d} ELSE localView
          /\ remoteView' = IF d \in work THEN remoteView \ {d} ELSE remoteView
          /\ handled' = handled \ {d}
          /\ UNCHANGED <<quarantined, left>>
       \/ /\ Fails("item")
          /\ runs' = [runs EXCEPT ![c].ops = @ \ {d}]
          /\ quarantined' \in {quarantined, quarantined \cup {d}}
          /\ left' = left \cup {d}
          /\ UNCHANGED <<work, localView, remoteView, handled>>
       \/ \E kind \in {"auth", "disk_full"} :
             /\ CallFails(kind)
             /\ runs' = [runs EXCEPT ![c].end = kind]
             /\ UNCHANGED <<work, localView, remoteView, handled, quarantined,
                            left>>
    /\ UNCHANGED <<mirror, rootUp, login, state, control, dirty, timer, cycle,
                   executor, holding, conflicts>>

RunOver(c) == /\ runs[c] # None
              /\ runs[c].ops = {} \/ runs[c].paused \/ runs[c].end # None

\* Mutant: the executor is not forgotten.
RunReturnsKeeping(c) ==
    /\ RunOver(c)
    /\ runs' = [runs EXCEPT ![c] = None] /\ UNCHANGED executor
    /\ LET touched == runs[c].touched
       IN  localView' = IF stopped \/ ~ rootUp \/ localView = None THEN localView
                        ELSE (localView \ touched)
                                \cup (work \cap LocalDiffs \cap touched)

\* execute() returns, the watcher looks at what was touched, and executePlan()
\* forgets the executor of the moment.
RunReturns(c) ==
    /\ RunOver(c)
    /\ runs' = [runs EXCEPT ![c] = None] /\ executor' = None
    /\ LET touched == runs[c].touched
       IN  localView' = IF stopped \/ ~ rootUp \/ localView = None THEN localView
                        ELSE (localView \ touched)
                                \cup (work \cap LocalDiffs \cap touched)

\* The state in which execute() leaves the engine.
StateOver(c) ==
    CASE runs[c].end = "disk_full" -> Safely(state, "error")
      [] runs[c].end = "auth"      -> Safely(state, "needs_login")
      [] OTHER                     -> state

\* The rest of gateAndExecute().
CycleRunEnds ==
    /\ RunReturns("cycle")
    /\ UNCHANGED <<mirror, session, control, holding, inbox>>
    /\ LET news == localView' # localView /\ ~ stopped /\ ~ userPaused
           s    == StateOver("cycle")
       IN  /\ timer' = (timer \/ news)
           /\ EndOnce(IF cycle.held THEN Safely(s, "awaiting_confirmation")
                      ELSE Finished(s), dirty \/ news)
    /\ left' = left \cup runs["cycle"].ops
                    \cup (IF cycle.held THEN {} ELSE cycle.withheld)
    /\ UNCHANGED <<work, remoteView, rootUp, subscribed, startup, feed, bounds>>

\* The rest of confirmHeldPlan().
ConfirmRunEnds ==
    /\ RunReturns("confirm")
    /\ UNCHANGED <<holding, inbox>>
    /\ IF localView' # localView THEN Trigger ELSE UNCHANGED <<dirty, timer>>
    /\ state' = Finished(StateOver("confirm"))
    /\ left' = left \cup runs["confirm"].ops
    /\ UNCHANGED <<work, remoteView, mirror, rootUp, login, control, cycle,
                   bounds>>

\* The rest of resolveConflict().
ResolveRunEnds ==
    /\ RunReturns("resolve")
    /\ Trigger
    /\ state' = StateOver("resolve")
    /\ UNCHANGED <<work, remoteView, mirror, rootUp, login, control, cycle,
                   holding, inbox, left, bounds>>

-----------------------------------------------------------------------------
(* User controls.                                                          *)

Command(name) == /\ name \in Commands /\ commands < MaxCommands /\ ~ stopped
                 /\ commands' = commands + 1
                 /\ UNCHANGED <<changes, failures>>

Pause ==
    /\ Command("pause")
    /\ userPaused' = TRUE
    /\ PauseExecutor
    /\ state' = Safely(state, "paused")
    /\ UNCHANGED <<work, views, login, stopped, dirty, timer, cycle, executor,
                   holding, inbox, left>>

Resume ==
    /\ Command("resume") /\ userPaused
    /\ userPaused' = FALSE
    /\ UNCHANGED <<views, session, stopped>>
    /\ RunCycle(IF state = "paused" THEN "idle" ELSE state)
    /\ UNCHANGED <<work, subscribed, startup, feed, timer, running, holding,
                   inbox, left>>

SyncNow ==
    /\ Command("sync") /\ ~ userPaused
    /\ UNCHANGED <<views, session, control>>
    /\ RunCycle(state)
    /\ UNCHANGED <<work, subscribed, startup, feed, timer, running, holding,
                   inbox, left>>

\* confirmHeldPlan(), one at a time: any other number than the held is refused.
Confirm ==
    /\ Command("confirm")
    /\ gate # None /\ runs["confirm"] = None
    /\ gate' = None
    /\ StartRun("confirm", gate.ops \cup gate.withheld, gate.id, state)
    /\ UNCHANGED <<work, views, login, control, dirty, timer, cycle, seq, shown,
                   inbox, left>>

RejectPlan ==
    /\ Command("reject")
    /\ gate # None
    /\ gate' = None
    /\ left' = left \cup gate.signature
    /\ UNCHANGED inbox
    /\ state' = Safely(state, Resting)
    /\ UNCHANGED <<work, views, login, control, dirty, timer, cycle, running,
                   seq, shown>>

\* resolveConflict(): the choice asks for operations of its own, or for none.
Resolve(d) ==
    /\ Command("resolve")
    /\ d \in conflicts
    /\ conflicts' = conflicts \ {d}
    /\ \/ Trigger /\ UNCHANGED <<state, running>>
       \/ /\ runs["resolve"] = None
          /\ StartRun("resolve", {d}, 0, state)
          /\ UNCHANGED <<dirty, timer>>
    /\ UNCHANGED <<work, views, login, control, cycle, holding, handled,
                   quarantined, left>>

Release(d) ==
    /\ Command("release")
    /\ d \in quarantined
    /\ quarantined' = quarantined \ {d}
    /\ Trigger
    /\ UNCHANGED <<work, views, login, state, control, cycle, running, holding,
                   handled, conflicts, left>>

\* A new login in this process; start() again if that is what it waits for.
LogIn ==
    /\ Command("login") /\ session = "out" /\ startup = "off"
    /\ session' = "in"
    /\ IF subscribed /\ state = "needs_login"
       THEN startup' = "recover" /\ state' = "scanning" /\ UNCHANGED left
       ELSE left' = Diffs /\ UNCHANGED <<startup, state>>
    /\ UNCHANGED <<work, views, subscribed, feed, control, dirty, timer, cycle,
                   running, holding, inbox>>

\* stop() up to its awaits, and after them.
Stop ==
    /\ Command("stop")
    /\ stopped' = TRUE
    /\ timer' = FALSE /\ feed' = FALSE
    /\ PauseExecutor
    /\ UNCHANGED <<work, views, session, subscribed, startup, state, userPaused,
                   dirty, cycle, executor, holding, inbox, left>>

Stopped ==
    /\ stopped /\ cycle.pc = "off"
    /\ CanTransition(state, "stopped")
    /\ state' = "stopped"
    /\ UNCHANGED <<work, views, login, control, dirty, timer, cycle, running,
                   holding, inbox, left, bounds>>

-----------------------------------------------------------------------------

Start == StartRecovered \/ StartWatched \/ StartListed
Inputs == LocalChanges \/ RootRestored \/ \E d \in RemoteDiffs : RemoteEvent(d)
Cycle == \/ CycleListing \/ CyclePlans \/ CycleThrows \/ CycleHandles
         \/ CycleReplans \/ PreflightFails \/ CycleGates \/ CycleRunEnds
Run == \/ \E c \in Callers, d \in Diffs : RunItem(c, d)
       \/ ConfirmRunEnds \/ ResolveRunEnds

\* What happens by itself.
Program == Start \/ Inputs \/ TimerFires \/ Unthrottled \/ SessionCleared
           \/ Cycle \/ Run \/ Stopped

\* What the user, the world and the listing timer may do.
User == \/ Pause \/ Resume \/ SyncNow \/ Confirm \/ RejectPlan \/ LogIn \/ Stop
        \/ \E d \in Diffs : Resolve(d) \/ Release(d)
World == RootUnavailable \/ Throttled \/ SessionLost \/ \E d \in Diffs : Change(d)

Next == /\ state # "stopped"
        /\ Program \/ User \/ World \/ PeriodicListing

Running(A) == state # "stopped" /\ A

\* Ready code runs, calls return, timers fire, a change is noticed.
Fairness == /\ WF_vars(Running(Start)) /\ WF_vars(Running(LocalChanges))
            /\ WF_vars(Running(RootRestored))
            /\ \A d \in RemoteDiffs : WF_vars(Running(RemoteEvent(d)))
            /\ WF_vars(Running(TimerFires)) /\ WF_vars(Running(Unthrottled))
            /\ WF_vars(Running(SessionCleared)) /\ WF_vars(Running(Cycle))
            /\ WF_vars(Running(Run)) /\ WF_vars(Running(Stopped))

Spec == Init /\ [][Next]_vars /\ Fairness

-----------------------------------------------------------------------------
(* Properties.                                                             *)

\* Every variable has its type; this.executor is one that runs, and a held
\* plan has a number that was given out.
TypeOK ==
    /\ work \subseteq Diffs
    /\ localView = None \/ localView \subseteq LocalDiffs
    /\ remoteView \subseteq RemoteDiffs
    /\ mirror \in [complete : BOOLEAN, available : BOOLEAN]
    /\ rootUp \in BOOLEAN /\ subscribed \in BOOLEAN /\ feed \in BOOLEAN
    /\ session \in {"in", "lost", "out"}
    /\ startup \in {"off", "recover", "watch", "list"}
    /\ state \in States
    /\ {userPaused, stopped, dirty, timer} \subseteq BOOLEAN
    /\ cycle \in [pc : {"off", "listing", "digest", "conflicts", "replan",
                        "preflight", "run"},
                  local : SUBSET LocalDiffs, shunned : SUBSET Diffs,
                  ops : SUBSET Diffs, withheld : SUBSET Diffs, held : BOOLEAN]
    /\ \A c \in Callers : runs[c] # None => runs[c] \in RunOfPlan
    /\ executor # None => runs[executor] # None
    /\ seq \in Nat /\ shown \in Seq(SUBSET Diffs)
    /\ gate # None => /\ gate \in HeldPlan /\ gate.id \in DOMAIN shown
                      /\ gate.affected \subseteq gate.ops
    /\ {handled, conflicts, quarantined, left} \subseteq SUBSET Diffs

\* Nothing runs or is about to, and every change has been noticed.
Quiet == /\ state # "stopped" /\ ~ stopped /\ ~ userPaused
         /\ startup = "off" /\ cycle.pc = "off" /\ ~ timer
         /\ \A c \in Callers : runs[c] = None
         /\ session = "in" /\ rootUp
         /\ localView = work \cap LocalDiffs
         /\ remoteView = work \cap RemoteDiffs

NotBusyAtRest ==
    Quiet /\ left # Diffs => state \notin {"scanning", "syncing"}

\* When the status says idle or attention, and all is quiet, there is nothing
\* to do but what is quarantined, or what the last cycle failed at, withheld
\* or had rejected, or a login has left to the next trigger; and no other plan
\* waits for a confirmation (restingState(), and the triggers that must have
\* led to a cycle).  Nor does the status go on saying that the engine works:
\* every path out of a cycle, a confirmed plan or a resolution rests.
RestIsTruthful ==
    /\ Quiet /\ state \in {"idle", "attention"} =>
        /\ work \subseteq quarantined \cup left
        /\ gate # None => gate.signature \subseteq left
    /\ NotBusyAtRest

\* A confirmed plan deletes and replaces nothing that its number did not stand
\* for when the number was given out (brake.ts: a plan that grows gets a new
\* number).
ConfirmedOnly ==
    runs["confirm"] # None =>
        runs["confirm"].touched \cap Destructive \subseteq shown[runs["confirm"].id]

\* stop() comes to its end: what runs is not started again, and every state
\* may stop.
StopLeads == stopped ~> state = "stopped"

\* What keeps the engine from syncing for a reason.
Excused == \/ stopped \/ userPaused \/ session # "in" \/ gate # None
           \/ ~ rootUp

\* As long as nothing fails and nothing is rejected, changes bring about the
\* cycles they need by themselves, without the periodic listing: in the end
\* nothing is left to do (trigger(), dirty, shouldRerun(), resume()).
Served ==
    <>[](failures = 0 /\ left = {} /\ ~ Excused => work = {})

\* After failures, the periodic listing brings about the cycle that does the
\* rest (the listing timer of start()).
Recovers == WF_vars(PeriodicListing)
                => <>[](feed /\ ~ Excused => work \subseteq quarantined)
=============================================================================
