---------------------------- MODULE LaggingView ----------------------------
(***************************************************************************)
(* What the engine may rely on when it plans from a view of a tree that    *)
(* others change: the view of the drive (RemoteFeed) and the view of the   *)
(* local folder (LocalWatcher) both implement it.                          *)
(*                                                                         *)
(* A view lags.  It is brought up to date by readings, which take time,    *)
(* may overlap and may end in any order.  What a reading puts into the     *)
(* view is never older than the beginning of that reading, and a thing     *)
(* that stayed where it was all the while is never missed.                 *)
(***************************************************************************)
EXTENDS Naturals, Sequences

CONSTANTS
    Things,      \* what there may be in the tree
    Absent,      \* shown for a thing that is not there
    Unknown,     \* shown for a thing the view does not claim to know
    Own(_, _),   \* Own(tree, t): what a reading of t alone finds in a tree
    Way(_, _),   \* Way(tree, t): the folders a listing goes through to find t
    OutOfView    \* the Way of what a listing of the whole tree does not find

VARIABLES
    past,        \* the trees there were, the last one is the tree of now
    shown,       \* what the view shows for each thing
    readings     \* where in the past the readings in progress began

vars == <<past, shown, readings>>

(* Something happens to the tree.                                          *)
Change ==
    /\ Len(past') = Len(past) + 1
    /\ SubSeq(past', 1, Len(past)) = past
    /\ UNCHANGED <<shown, readings>>

(* A reading begins.                                                       *)
Begin ==
    /\ readings' = readings \union {Len(past)}
    /\ UNCHANGED <<past, shown>>

(* t stood in one place of the tree from moment r on.                      *)
Steady(t, r) ==
    /\ Way(past[r], t) # OutOfView
    /\ \A i \in r .. Len(past) : Way(past[i], t) = Way(past[r], t)

(* What a reading that began at moment r may say of t.                     *)
Seen(t, r) ==
    {Own(past[i], t) : i \in r .. Len(past)} \union
    (IF Steady(t, r) THEN {} ELSE {Absent})

(* A reading that began at moment r, or one that takes no time, adds to    *)
(* the view.  Readings may end with it, and the view may give up what it   *)
(* knew.                                                                   *)
Look(r) ==
    /\ \A t \in Things : shown'[t] \in {shown[t], Unknown} \union Seen(t, r)
    /\ DOMAIN shown' = Things
    /\ readings' \subseteq readings
    /\ UNCHANGED past

Init ==
    /\ Len(past) = 1
    /\ shown = [t \in Things |-> Unknown]
    /\ readings = {}

Next ==
    \/ Change
    \/ Begin
    \/ \E r \in readings \union {Len(past)} : Look(r)

Spec == Init /\ [][Next]_vars

=============================================================================
