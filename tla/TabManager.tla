----------------------------- MODULE TabManager -----------------------------
(***************************************************************************)
(* TabManager of fortrust-core: the strip of tabs and the memory policy    *)
(* that open_tab and activate run before they return.  Every tab is        *)
(* "Active" (in front), "Warm" (a live renderer in the background),        *)
(* "Suspended" (a snapshot) or "Discarded" (nothing).                      *)
(*                                                                         *)
(* Titles, urls, the private flag and the privacy counter are data of the  *)
(* tab that the policy does not read (BrowserShell has the urls).  Nothing *)
(* in the repository ever sets Tab::pinned, so it is left out.             *)
(***************************************************************************)
EXTENDS Integers, Sequences, SequencesExt, FiniteSets

CONSTANTS
    ActiveMb,       \* max_active_renderer_mb
    WarmMb,         \* max_warm_renderer_mb
    SnapshotMb,     \* what suspended_snapshot_kb amounts to, rounded up, at least 1
    BudgetMb,       \* max_total_tab_ram_mb
    WarmTabLimit,   \* warm_tab_limit
    SuspendAfter,   \* suspend_background_after_ticks
    MaxTabId,       \* bound on next_id, a u64 in the code
    MaxTick         \* bound on tick, a u64 in the code

ASSUME ConfigAssumption ==
    /\ ActiveMb \in Nat /\ WarmMb \in Nat /\ SnapshotMb \in Nat \ {0}
    /\ BudgetMb \in Nat /\ WarmTabLimit \in Nat /\ SuspendAfter \in Nat

ASSUME BoundAssumption == MaxTabId \in Nat /\ MaxTick \in Nat

VARIABLES
    tabs,           \* the ids of the open tabs, left to right
    active,         \* the active id, or NoTab
    nextId,
    tick,           \* counts the activations
    status,         \* id of an open tab -> Status
    lastTick        \* id of an open tab -> the tick of its last activation

vars == <<tabs, active, nextId, tick, status, lastTick>>

NoTab  == 0
TabId  == 1 .. MaxTabId
Status == {"Active", "Warm", "Suspended", "Discarded"}

OpenTabs == ToSet(tabs)

Init ==
    /\ tabs = <<>>
    /\ active = NoTab
    /\ nextId = 1
    /\ tick = 0
    /\ status = <<>>
    /\ lastTick = <<>>

-----------------------------------------------------------------------------
(* The memory policy, as functions from the statuses before to those after.*)

In(st, s) == {i \in DOMAIN st : st[i] = s}

TotalMb(st) ==
    Cardinality(In(st, "Active")) * ActiveMb
      + Cardinality(In(st, "Warm")) * WarmMb
      + Cardinality(In(st, "Suspended")) * SnapshotMb

Put(st, S, s) == [i \in DOMAIN st |-> IF i \in S THEN s ELSE st[i]]

SuspendStale(st, act, last, now) ==
    Put(st, {i \in DOMAIN st \ {act} : now - last[i] >= SuspendAfter}, "Suspended")

\* Mutant of LimitWarm: one warm tab more.
LimitWarmOneMore(st, act, last) ==
    LET warm     == In(st, "Warm") \ {act}
        older(i) == {j \in warm : last[j] < last[i]}
    IN  Put(st,
            {i \in warm : Cardinality(older(i)) + WarmTabLimit + 1 < Cardinality(warm)},
            "Suspended")

\* Ticks are distinct (DistinctTicks), so the sort has no ties to break: the
\* overflow is the warm tabs with fewer than overflow warm tabs before them.
LimitWarm(st, act, last) ==
    LET warm     == In(st, "Warm") \ {act}
        older(i) == {j \in warm : last[j] < last[i]}
    IN  Put(st,
            {i \in warm : Cardinality(older(i)) + WarmTabLimit < Cardinality(warm)},
            "Suspended")

\* The tabs of C that a loop "while over budget, put the first one left to s"
\* puts to s, where rank gives their order: those before which it did not stop.
Trimmed(st, C, rank, s) ==
    LET before(i) == {j \in C : rank[j] < rank[i]}
    IN  {i \in C : \A j \in before(i) \cup {i} :
                        TotalMb(Put(st, before(j), s)) > BudgetMb}

\* All the candidates of the first loop weigh WarmMb, and max_by_key returns
\* the last maximum: it works from right to left, not by age.
SuspendRank(seq) ==
    [i \in ToSet(seq) |-> Len(seq) - (CHOOSE k \in DOMAIN seq : seq[k] = i)]

SuspendForBudget(st, act, seq) ==
    LET candidates == {i \in DOMAIN st \ {act} :
                            st[i] \notin {"Suspended", "Discarded"}}
    IN  Put(st, Trimmed(st, candidates, SuspendRank(seq), "Suspended"), "Suspended")

\* Mutant of DiscardForBudget: the youngest first.
DiscardNewestForBudget(st, act, last) ==
    LET candidates == In(st, "Suspended") \ {act}
        newest     == [i \in DOMAIN last |-> 0 - last[i]]
    IN  Put(st, Trimmed(st, candidates, newest, "Discarded"), "Discarded")

DiscardForBudget(st, act, last) ==
    LET candidates == In(st, "Suspended") \ {act}
    IN  Put(st, Trimmed(st, candidates, last, "Discarded"), "Discarded")

\* The three methods in the order the code calls them, as four stages.
EnforceMemoryPolicy(st, act, last, now, seq) ==
    LET fresh   == SuspendStale(st, act, last, now)
        limited == LimitWarm(fresh, act, last)
        fitting == SuspendForBudget(limited, act, seq)
    IN  DiscardForBudget(fitting, act, last)

-----------------------------------------------------------------------------

\* Mutant of Promoted: every tab is warmed.
PromotedOverAll(i, open, old) ==
    [j \in open |-> IF j = i THEN "Active" ELSE "Warm"]

\* Among the open tabs i becomes active and old (if it is one of them) warm.
Promoted(i, open, old) ==
    [j \in open |-> IF j = i THEN "Active" ELSE IF j = old THEN "Warm" ELSE status[j]]

Stamped(i, open) == [j \in open |-> IF j = i THEN tick + 1 ELSE lastTick[j]]

\* Tab i of the strip seq becomes active in place of old, and the policy runs.
BringToFront(i, seq, old) ==
    LET open == ToSet(seq)
    IN  /\ tick < MaxTick
        /\ tick' = tick + 1
        /\ active' = i
        /\ lastTick' = Stamped(i, open)
        /\ status' = EnforceMemoryPolicy(Promoted(i, open, old), i, Stamped(i, open),
                                         tick + 1, seq)

OpenTab ==
    /\ nextId <= MaxTabId
    /\ tabs' = Append(tabs, nextId)
    /\ BringToFront(nextId, Append(tabs, nextId), active)
    /\ nextId' = nextId + 1

Activate(k) ==
    /\ active # tabs[k]
    /\ BringToFront(tabs[k], tabs, active)
    /\ UNCHANGED <<tabs, nextId>>

\* Mutant of CloseTab: the first tab takes over.
CloseTabToFirst(k) ==
    LET rest == RemoveAt(tabs, k)
        kept == ToSet(rest)
    IN  /\ tabs' = rest
        /\ UNCHANGED nextId
        /\ \/ /\ active = tabs[k] /\ rest # <<>>
              /\ BringToFront(Head(rest), rest, NoTab)
           \/ /\ active = tabs[k] => rest = <<>>
              /\ active' = IF active = tabs[k] THEN NoTab ELSE active
              /\ status' = [i \in kept |-> status[i]]
              /\ lastTick' = [i \in kept |-> lastTick[i]]
              /\ UNCHANGED tick

CloseTab(k) ==
    LET rest == RemoveAt(tabs, k)
        kept == ToSet(rest)
    IN  /\ tabs' = rest
        /\ UNCHANGED nextId
        /\ \/ /\ active = tabs[k] /\ rest # <<>>
              /\ BringToFront(Last(rest), rest, NoTab)
           \/ /\ active = tabs[k] => rest = <<>>
              /\ active' = IF active = tabs[k] THEN NoTab ELSE active
              /\ status' = [i \in kept |-> status[i]]
              /\ lastTick' = [i \in kept |-> lastTick[i]]
              /\ UNCHANGED tick

\* The new index is clamped to the strip; moving a tab onto itself is nothing.
ReorderTab(k, j) ==
    /\ tabs' = InsertAt(RemoveAt(tabs, k), j, tabs[k])
    /\ UNCHANGED <<active, nextId, tick, status, lastTick>>

Next ==
    \/ OpenTab
    \/ \E k \in DOMAIN tabs : Activate(k) \/ CloseTab(k)
    \/ \E k, j \in DOMAIN tabs : ReorderTab(k, j)

Spec == Init /\ [][Next]_vars

-----------------------------------------------------------------------------
TypeOK ==
    /\ tabs \in Seq(TabId)
    /\ active \in {NoTab} \cup TabId
    /\ nextId \in 1 .. MaxTabId + 1
    /\ tick \in 0 .. MaxTick
    /\ status \in [OpenTabs -> Status]
    /\ lastTick \in [OpenTabs -> 1 .. MaxTick]

\* Ids are never reused, neither on the strip nor after a close.
IdsUnique ==
    /\ \A k, j \in DOMAIN tabs : tabs[k] = tabs[j] => k = j
    /\ \A i \in OpenTabs : i < nextId

\* As long as a tab is open, exactly one is in front, and it is the tab that
\* active names: no step of the policy demotes it, no close leaves a gap.
OneActive ==
    /\ tabs = <<>> => active = NoTab
    /\ tabs # <<>> => active \in OpenTabs /\ In(status, "Active") = {active}

\* Activations are totally ordered, so "least recently used" is one tab.
DistinctTicks ==
    /\ \A i \in OpenTabs : lastTick[i] <= tick
    /\ \A i, j \in OpenTabs : lastTick[i] = lastTick[j] => i = j

\* No more than WarmTabLimit background tabs keep a renderer.
WarmBounded == Cardinality(In(status, "Warm")) <= WarmTabLimit

\* The strip is over its budget only when nothing is left to give up: every
\* background tab is discarded.
BudgetRespected ==
    TotalMb(status) > BudgetMb =>
        \A i \in OpenTabs \ {active} : status[i] = "Discarded"

\* A background tab that kept a renderer was looked at less than SuspendAfter
\* activations ago.
NoStaleRenderer ==
    \A i \in In(status, "Warm") : tick - lastTick[i] < SuspendAfter

\* The memory policy leaves the strip within all its limits at once, although
\* each of its passes changes what the passes before it have done.
PolicyLimits == WarmBounded /\ NoStaleRenderer /\ BudgetRespected

\* A renderer comes (back) to life only for the tab being activated.
RestoredByActivation ==
    \A i \in OpenTabs \cap OpenTabs' :
        status[i] \in {"Suspended", "Discarded"} /\ status'[i] \in {"Active", "Warm"}
            => i = active' /\ i # active

OnlyActivationRestores == [][RestoredByActivation]_vars

\* The policy never gives up the snapshot of a tab while an older one keeps
\* its own.
DiscardedByAge ==
    \A i, j \in OpenTabs' :
        /\ status'[i] = "Discarded" /\ (i \in OpenTabs => status[i] # "Discarded")
        /\ status'[j] = "Suspended"
        => lastTick'[i] < lastTick'[j]

ColdestDiscardedFirst == [][DiscardedByAge]_vars

\* The memory policy is invisible on the strip.
Strip == INSTANCE TabStrip WITH order <- tabs
StripSpec == Strip!Spec
=============================================================================
