------------------------------ MODULE TabStrip ------------------------------
(***************************************************************************)
(* What the tab manager of fortrust-core promises to the browser window:   *)
(* an ordered strip of tabs, one of which is active as long as there is    *)
(* one.  Memory states, ticks and budgets are hidden; TabManager shows     *)
(* that they never disturb the strip.                                      *)
(***************************************************************************)
EXTENDS Naturals, Sequences, SequencesExt

CONSTANT
    MaxTabId        \* bound on the ids handed out (the code counts in a u64)

VARIABLES
    order,          \* the ids of the open tabs, left to right
    active,         \* the active id, or NoTab
    nextId          \* the next id to hand out

vars == <<order, active, nextId>>

NoTab == 0

Init ==
    /\ order = <<>>
    /\ active = NoTab
    /\ nextId = 1

\* A new tab goes to the right end of the strip and becomes active.
Open ==
    /\ nextId <= MaxTabId
    /\ order' = Append(order, nextId)
    /\ active' = nextId
    /\ nextId' = nextId + 1

Activate(k) ==
    /\ active # order[k]
    /\ active' = order[k]
    /\ UNCHANGED <<order, nextId>>

\* Closing the active tab activates the rightmost of those that remain.
Close(k) ==
    LET rest == RemoveAt(order, k)
    IN  /\ order' = rest
        /\ active' = IF active # order[k] THEN active
                     ELSE IF rest = <<>> THEN NoTab ELSE Last(rest)
        /\ UNCHANGED nextId

\* A tab is dragged to position j.
Reorder(k, j) ==
    /\ order' = InsertAt(RemoveAt(order, k), j, order[k])
    /\ UNCHANGED <<active, nextId>>

Next ==
    \/ Open
    \/ \E k \in DOMAIN order : Activate(k) \/ Close(k)
    \/ \E k, j \in DOMAIN order : Reorder(k, j)

Spec == Init /\ [][Next]_vars
=============================================================================
