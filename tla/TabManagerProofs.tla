-------------------------- MODULE TabManagerProofs --------------------------
(***************************************************************************)
(* Proofs about TabManager, for every value of the memory configuration    *)
(* and of the bounds.  The memory policy is taken apart into its four      *)
(* stages; then every action is either BringToFront on some strip, or      *)
(* leaves the statuses of the remaining tabs alone.  The second half shows *)
(* what the policy achieves: warm tabs are few and recent, and the budget  *)
(* is exceeded only when there is nothing left to give up.                 *)
(***************************************************************************)
EXTENDS TabManager, SequenceLemmas, FiniteSetTheorems, WellFoundedInduction

-----------------------------------------------------------------------------
(* The stages of the policy.                                               *)

\* The statuses after each stage of the policy.
Fresh(st, act, last, now)         == SuspendStale(st, act, last, now)
Limited(st, act, last, now)       == LimitWarm(Fresh(st, act, last, now), act, last)
Fitting(st, act, last, now, seq)  == SuspendForBudget(Limited(st, act, last, now), act, seq)
Enforced(st, act, last, now, seq) == EnforceMemoryPolicy(st, act, last, now, seq)

\* g is f with some tabs other than act put to s.
Stage(S, act, f, g, s) ==
    /\ g \in [S -> Status]
    /\ \A i \in S : (i = act => g[i] = f[i]) /\ g[i] \in {f[i], s}

\* Putting any background tabs to a snapshot or to nothing is a stage.
LEMMA PutStage ==
    ASSUME NEW S, NEW act, NEW f \in [S -> Status], NEW C, act \notin C
    PROVE  /\ Stage(S, act, f, Put(f, C, "Suspended"), "Suspended")
           /\ Stage(S, act, f, Put(f, C, "Discarded"), "Discarded")
BY DEF Put, Status, Stage

\* enforce_memory_policy is its four stages one after the other.
LEMMA EnforcedIsDiscard ==
    \A st, act, last, now, seq :
        Enforced(st, act, last, now, seq) =
            DiscardForBudget(Fitting(st, act, last, now, seq), act, last)
BY DEF Enforced, EnforceMemoryPolicy, Fitting, Limited, Fresh

\* Each stage only ever suspends or discards, and never the active tab.
LEMMA PolicyStages ==
    ASSUME NEW S, NEW st \in [S -> Status], NEW act, NEW last, NEW now, NEW seq
    PROVE  /\ Stage(S, act, st, Fresh(st, act, last, now), "Suspended")
           /\ Stage(S, act, Fresh(st, act, last, now), Limited(st, act, last, now), "Suspended")
           /\ Stage(S, act, Limited(st, act, last, now),
                    Fitting(st, act, last, now, seq), "Suspended")
           /\ Stage(S, act, Fitting(st, act, last, now, seq),
                    Enforced(st, act, last, now, seq), "Discarded")
<1> DEFINE fresh   == Fresh(st, act, last, now)
           limited == Limited(st, act, last, now)
           fitting == Fitting(st, act, last, now, seq)
<1>1. Stage(S, act, st, fresh, "Suspended")
  BY PutStage DEF Fresh, SuspendStale
<1>2. Stage(S, act, fresh, limited, "Suspended")
  <2>1. fresh \in [S -> Status]
    BY <1>1 DEF Stage
  <2> QED
    BY <2>1, PutStage DEF Limited, LimitWarm
<1>3. Stage(S, act, limited, fitting, "Suspended")
  <2>1. limited \in [S -> Status]
    BY <1>2 DEF Stage
  <2>2. \A C, rank : act \notin C => act \notin Trimmed(limited, C, rank, "Suspended")
    BY DEF Trimmed
  <2> QED
    BY <2>1, <2>2, PutStage DEF Fitting, SuspendForBudget
<1>4. Stage(S, act, fitting, Enforced(st, act, last, now, seq), "Discarded")
  <2>1. fitting \in [S -> Status]
    BY <1>3 DEF Stage
  <2>2. \A C, rank : act \notin C => act \notin Trimmed(fitting, C, rank, "Discarded")
    BY DEF Trimmed
  <2>3. Stage(S, act, fitting, DiscardForBudget(fitting, act, last), "Discarded")
    BY <2>1, <2>2, PutStage DEF DiscardForBudget
  <2> QED
    BY <2>3, EnforcedIsDiscard
<1> QED
  BY <1>1, <1>2, <1>3, <1>4

\* The whole policy leaves the active tab alone and gives up, never restores.
LEMMA PolicyShape ==
    ASSUME NEW S, NEW st \in [S -> Status], NEW act, NEW last, NEW now, NEW seq
    PROVE  /\ Enforced(st, act, last, now, seq) \in [S -> Status]
           /\ \A i \in S :
                /\ i = act => Enforced(st, act, last, now, seq)[i] = st[i]
                /\ Enforced(st, act, last, now, seq)[i] \in {st[i], "Suspended", "Discarded"}
BY PolicyStages DEF Stage

-----------------------------------------------------------------------------
(* The strip: ids, the active tab, the ticks.                              *)

\* The strengthening that is inductive on its own.
StripInv == TypeOK /\ IdsUnique /\ OneActive /\ DistinctTicks

\* Bringing tab i of a strip to the front, when no tab of the strip but i and
\* old is active, makes i the one active tab and the last one activated.
LEMMA BringToFrontShape ==
    ASSUME StripInv,
           NEW i, NEW seq, NEW old, i \in ToSet(seq),
           ToSet(seq) \subseteq OpenTabs \cup {i},
           \A j \in ToSet(seq) \ {i, old} : status[j] # "Active",
           BringToFront(i, seq, old)
    PROVE  /\ active' = i
           /\ tick' = tick + 1 /\ tick' \in 1 .. MaxTick
           /\ lastTick' \in [ToSet(seq) -> 1 .. MaxTick]
           /\ \A j \in ToSet(seq) : lastTick'[j] = IF j = i THEN tick + 1 ELSE lastTick[j]
           /\ \A j \in ToSet(seq) : lastTick'[j] <= tick'
           /\ \A j, m \in ToSet(seq) : lastTick'[j] = lastTick'[m] => j = m
           /\ status' \in [ToSet(seq) -> Status]
           /\ \A j \in ToSet(seq) : status'[j] = "Active" <=> j = i
           /\ \A j \in ToSet(seq) : status'[j] = "Warm" =>
                j = old \/ (j \in OpenTabs /\ status[j] = "Warm")
<1> DEFINE open == ToSet(seq)
           last == [j \in open |-> IF j = i THEN tick + 1 ELSE lastTick[j]]
           st   == [j \in open |-> IF j = i THEN "Active"
                                   ELSE IF j = old THEN "Warm" ELSE status[j]]
           new  == Enforced(st, i, last, tick + 1, seq)
<1>1. tick < MaxTick /\ tick' = tick + 1 /\ active' = i /\ lastTick' = last /\ status' = new
  BY DEF BringToFront, Promoted, Stamped, Enforced
<1>2. tick \in Nat /\ MaxTick \in Nat /\ tick' \in 1 .. MaxTick
  BY <1>1, BoundAssumption DEF StripInv, TypeOK
<1>3. \A j \in open \ {i} : /\ lastTick[j] \in 1 .. MaxTick /\ lastTick[j] <= tick
                            /\ status[j] \in Status
  BY DEF StripInv, TypeOK, DistinctTicks
<1>4. st \in [open -> Status]
  BY <1>3 DEF Status
<1>5. /\ new \in [open -> Status]
      /\ \A j \in open : /\ j = i => new[j] = st[j]
                         /\ new[j] \in {st[j], "Suspended", "Discarded"}
  <2> HIDE DEF st, last
  <2> QED
    BY <1>4, PolicyShape
<1>6. \A j \in open : new[j] = "Active" <=> j = i
  <2> HIDE DEF new
  <2> QED
    BY <1>5
<1>7. \A j \in open : new[j] = "Warm" => j = old \/ (j \in OpenTabs /\ status[j] = "Warm")
  <2> HIDE DEF new
  <2> QED
    BY <1>5
<1>8. last \in [open -> 1 .. MaxTick] /\ \A j \in open : last[j] <= tick + 1
  BY <1>1, <1>2, <1>3
<1>9. \A j, m \in open : last[j] = last[m] => j = m
  BY <1>2, <1>3 DEF StripInv, DistinctTicks
<1> HIDE DEF new, last, st
<1>10. \A j \in open : last[j] = IF j = i THEN tick + 1 ELSE lastTick[j]
  BY DEF last
<1> QED
  BY <1>1, <1>2, <1>5, <1>6, <1>7, <1>8, <1>9, <1>10

\* open_tab: the new id is fresh, so the ids stay distinct and it is the active one.
LEMMA OpenTabStrip ==
    ASSUME StripInv, OpenTab PROVE StripInv'
<1> DEFINE seq == Append(tabs, nextId)
<1>1. nextId \in TabId /\ tabs \in Seq(TabId) /\ nextId \notin OpenTabs
  BY BoundAssumption DEF OpenTab, StripInv, TypeOK, IdsUnique, TabId
<1>2. /\ seq \in Seq(TabId) /\ ToSet(seq) = OpenTabs \cup {nextId}
      /\ \A a, b \in DOMAIN seq : seq[a] = seq[b] => a = b
  BY <1>1, AppendSet DEF StripInv, IdsUnique, OpenTabs
<1>3. \A j \in OpenTabs \ {active} : status[j] # "Active"
  BY DEF StripInv, OneActive, TypeOK, In, OpenTabs, ToSet
<1>4. tabs' = seq /\ nextId' = nextId + 1 /\ BringToFront(nextId, seq, active)
  BY DEF OpenTab
<1> HIDE DEF seq
<1>5. /\ active' = nextId
      /\ tick' \in 1 .. MaxTick
      /\ lastTick' \in [ToSet(seq) -> 1 .. MaxTick]
      /\ \A j \in ToSet(seq) : lastTick'[j] <= tick'
      /\ \A j, m \in ToSet(seq) : lastTick'[j] = lastTick'[m] => j = m
      /\ status' \in [ToSet(seq) -> Status]
      /\ \A j \in ToSet(seq) : status'[j] = "Active" <=> j = nextId
  BY <1>2, <1>3, <1>4, BringToFrontShape
<1>6. OpenTabs' = ToSet(seq)
  BY <1>4 DEF OpenTabs
<1>7. TypeOK'
  <2>1. nextId' \in 1 .. MaxTabId + 1
    BY <1>1, <1>4, BoundAssumption DEF TabId
  <2> QED
    BY <1>1, <1>2, <1>4, <1>5, <1>6, <2>1 DEF TypeOK
<1>8. IdsUnique'
  <2>1. \A i \in OpenTabs : i < nextId /\ i \in TabId
    BY <1>1 DEF IdsUnique, StripInv, TypeOK, OpenTabs, ToSet
  <2>2. \A i \in OpenTabs' : i < nextId'
    BY <1>1, <1>2, <1>4, <1>6, <2>1 DEF TabId
  <2>3. \A a, b \in DOMAIN tabs' : tabs'[a] = tabs'[b] => a = b
    BY <1>2, <1>4, Zenon
  <2> QED
    BY <2>2, <2>3 DEF IdsUnique
<1>9. OneActive'
  <2>1. nextId \in OpenTabs' /\ tabs' # <<>>
    <3>1. nextId \in OpenTabs'
      BY <1>2, <1>6
    <3>2. ToSet(<<>>) = {}
      BY DEF ToSet
    <3> QED
      BY <3>1, <3>2 DEF OpenTabs
  <2> QED
    BY <1>5, <1>6, <2>1 DEF OneActive, In
<1>10. DistinctTicks'
  BY <1>5, <1>6 DEF DistinctTicks
<1> QED
  BY <1>7, <1>8, <1>9, <1>10 DEF StripInv

\* activate: the strip stays, the activated tab becomes the one active tab.
LEMMA ActivateStrip ==
    ASSUME StripInv, NEW k \in DOMAIN tabs, Activate(k) PROVE StripInv'
<1>1. tabs[k] \in OpenTabs /\ tabs[k] \in TabId /\ tabs \in Seq(TabId) /\ tabs # <<>>
  BY DEF OpenTabs, ToSet, StripInv, TypeOK
<1>2. \A j \in OpenTabs \ {active} : status[j] # "Active"
  BY DEF StripInv, OneActive, TypeOK, In, OpenTabs, ToSet
<1>3. tabs' = tabs /\ nextId' = nextId /\ BringToFront(tabs[k], tabs, active)
  BY DEF Activate
<1>4. /\ active' = tabs[k]
      /\ tick' \in 1 .. MaxTick
      /\ lastTick' \in [OpenTabs -> 1 .. MaxTick]
      /\ \A j \in OpenTabs : lastTick'[j] <= tick'
      /\ \A j, m \in OpenTabs : lastTick'[j] = lastTick'[m] => j = m
      /\ status' \in [OpenTabs -> Status]
      /\ \A j \in OpenTabs : status'[j] = "Active" <=> j = tabs[k]
  BY <1>1, <1>2, <1>3, BringToFrontShape DEF OpenTabs
<1>5. OpenTabs' = OpenTabs
  BY <1>3 DEF OpenTabs
<1>6. TypeOK' /\ DistinctTicks'
  BY <1>1, <1>3, <1>4, <1>5, BoundAssumption DEF TypeOK, StripInv, DistinctTicks
<1>7. IdsUnique'
  BY <1>3, <1>5 DEF IdsUnique, StripInv
<1>8. OneActive'
  BY <1>1, <1>3, <1>4, <1>5 DEF OneActive, In
<1> QED
  BY <1>6, <1>7, <1>8 DEF StripInv

\* close_tab: either the rightmost remaining tab is brought to the front, or the
\* active tab stays what it was, or no tab is left.
LEMMA CloseTabStrip ==
    ASSUME StripInv, NEW k \in DOMAIN tabs, CloseTab(k) PROVE StripInv'
<1> DEFINE rest == RemoveAt(tabs, k)
<1>1. tabs[k] \in OpenTabs /\ tabs \in Seq(TabId) /\ tabs # <<>>
  BY DEF OpenTabs, ToSet, StripInv, TypeOK
<1>2. /\ rest \in Seq(TabId)
      /\ ToSet(rest) = OpenTabs \ {tabs[k]}
      /\ \A a, b \in DOMAIN rest : rest[a] = rest[b] => a = b
  BY <1>1, RemoveAtProperties, RemoveAtSet DEF StripInv, IdsUnique, OpenTabs
<1>3. \A j \in OpenTabs \ {active} : status[j] # "Active"
  BY DEF StripInv, OneActive, TypeOK, In, OpenTabs, ToSet
<1>4. tabs' = rest /\ nextId' = nextId
  BY DEF CloseTab
<1>5. OpenTabs' = ToSet(rest)
  BY <1>4 DEF OpenTabs
<1>6. IdsUnique'
  BY <1>2, <1>4, <1>5 DEF IdsUnique, StripInv
<1>7. CASE active = tabs[k] /\ rest # <<>>
  <2>1. BringToFront(Last(rest), rest, NoTab)
    BY <1>7 DEF CloseTab
  <2> HIDE DEF rest
  <2>2. Last(rest) \in ToSet(rest) /\ Last(rest) \in TabId
    BY <1>2, <1>7 DEF Last, ToSet
  <2>3. /\ active' = Last(rest)
        /\ tick' \in 1 .. MaxTick
        /\ lastTick' \in [ToSet(rest) -> 1 .. MaxTick]
        /\ \A j \in ToSet(rest) : lastTick'[j] <= tick'
        /\ \A j, m \in ToSet(rest) : lastTick'[j] = lastTick'[m] => j = m
        /\ status' \in [ToSet(rest) -> Status]
        /\ \A j \in ToSet(rest) : status'[j] = "Active" <=> j = Last(rest)
    BY <1>2, <1>3, <1>7, <2>1, <2>2, BringToFrontShape
  <2>4. TypeOK' /\ DistinctTicks'
    BY <1>2, <1>4, <1>5, <2>2, <2>3, BoundAssumption DEF TypeOK, StripInv, DistinctTicks
  <2>5. OneActive'
    BY <1>4, <1>5, <1>7, <2>2, <2>3 DEF OneActive, In
  <2> QED
    BY <1>6, <2>4, <2>5 DEF StripInv
<1>8. CASE active = tabs[k] => rest = <<>>
  <2>1. /\ active' = IF active = tabs[k] THEN NoTab ELSE active
        /\ status' = [i \in ToSet(rest) |-> status[i]]
        /\ lastTick' = [i \in ToSet(rest) |-> lastTick[i]]
        /\ tick' = tick
    BY <1>8 DEF CloseTab
  <2> HIDE DEF rest
  <2>2. TypeOK' /\ DistinctTicks'
    BY <1>2, <1>4, <1>5, <2>1, BoundAssumption DEF TypeOK, StripInv, DistinctTicks
  <2>3. OneActive'
    <3>1. active \in OpenTabs /\ active # NoTab /\ status[active] = "Active"
      BY <1>1, BoundAssumption DEF StripInv, OneActive, In, TypeOK, OpenTabs, ToSet, TabId, NoTab
    <3>2. CASE active = tabs[k]
      BY <1>4, <1>8, <2>1, <3>2 DEF OneActive
    <3>3. CASE active # tabs[k]
      <4>1. active \in ToSet(rest) /\ rest # <<>>
        BY <1>2, <3>1, <3>3 DEF ToSet
      <4> QED
        BY <1>2, <1>3, <1>4, <1>5, <2>1, <3>1, <3>3, <4>1 DEF OneActive, In
    <3> QED
      BY <3>2, <3>3
  <2> QED
    BY <1>6, <2>2, <2>3 DEF StripInv
<1> QED
  BY <1>7, <1>8

\* reorder_tab: the same tabs in another order.
LEMMA ReorderTabStrip ==
    ASSUME StripInv, NEW k \in DOMAIN tabs, NEW j \in DOMAIN tabs, ReorderTab(k, j)
    PROVE  StripInv'
<1>1. tabs \in Seq(TabId)
  BY DEF StripInv, TypeOK
<1>2. /\ tabs' \in Seq(TabId)
      /\ Len(tabs') = Len(tabs)
      /\ ToSet(tabs') = ToSet(tabs)
      /\ \A a, b \in DOMAIN tabs' : tabs'[a] = tabs'[b] => a = b
  BY <1>1, MoveSet DEF ReorderTab, StripInv, IdsUnique
<1>3. OpenTabs' = OpenTabs /\ (tabs' = <<>> <=> tabs = <<>>)
  BY <1>1, <1>2 DEF OpenTabs
<1> QED
  BY <1>2, <1>3 DEF ReorderTab, StripInv, TypeOK, IdsUnique, OneActive, DistinctTicks, In

\* TabManager::new: no tab, no active tab.
LEMMA InitStrip == Init => StripInv
BY BoundAssumption DEF Init, StripInv, TypeOK, IdsUnique, OneActive, DistinctTicks,
                       OpenTabs, ToSet, In, NoTab

\* Every step preserves the invariant of the strip.
LEMMA NextStrip ==
    ASSUME StripInv, [Next]_vars PROVE StripInv'
<1>1. CASE OpenTab
  BY <1>1, OpenTabStrip
<1>2. ASSUME NEW k \in DOMAIN tabs, Activate(k) PROVE StripInv'
  BY <1>2, ActivateStrip
<1>3. ASSUME NEW k \in DOMAIN tabs, CloseTab(k) PROVE StripInv'
  BY <1>3, CloseTabStrip
<1>4. ASSUME NEW k \in DOMAIN tabs, NEW j \in DOMAIN tabs, ReorderTab(k, j) PROVE StripInv'
  BY <1>4, ReorderTabStrip
<1>5. CASE UNCHANGED vars
  BY <1>5 DEF vars, StripInv, TypeOK, IdsUnique, OneActive, DistinctTicks, OpenTabs, In
<1> QED
  BY <1>1, <1>2, <1>3, <1>4, <1>5 DEF Next

\* The strip is sound in every state, whatever the memory configuration.
THEOREM StripInvariant == Spec => []StripInv
BY InitStrip, NextStrip, PTL DEF Spec

\* Type correctness.
THEOREM TypeCorrect == Spec => []TypeOK
BY StripInvariant, PTL DEF StripInv

\* A tab id is never on the strip twice and never handed out again (open_tab).
THEOREM IdsNeverReused == Spec => []IdsUnique
BY StripInvariant, PTL DEF StripInv

\* While tabs are open exactly one is in front, and active names it
\* (open_tab, activate and close_tab with the policy they run).
THEOREM ExactlyOneActive == Spec => []OneActive
BY StripInvariant, PTL DEF StripInv

\* No two tabs carry the same activation tick, so "least recently used" names
\* one tab (next_tick).
THEOREM ActivationsOrdered == Spec => []DistinctTicks
BY StripInvariant, PTL DEF StripInv

\* The memory policy is invisible on the strip: TabManager implements TabStrip.
THEOREM ImplementsTabStrip == Spec => StripSpec
<1>1. Init => Strip!Init
  BY DEF Init, Strip!Init, NoTab, Strip!NoTab
<1>2. ASSUME [Next]_vars PROVE [Strip!Next]_(Strip!vars)
  <2>1. CASE OpenTab
    BY <2>1 DEF OpenTab, BringToFront, Strip!Next, Strip!Open
  <2>2. ASSUME NEW k \in DOMAIN tabs, Activate(k) PROVE Strip!Next
    BY <2>2 DEF Activate, BringToFront, Strip!Next, Strip!Activate
  <2>3. ASSUME NEW k \in DOMAIN tabs, CloseTab(k) PROVE Strip!Next
    <3> DEFINE rest == RemoveAt(tabs, k)
    <3>1. tabs' = rest /\ nextId' = nextId
      BY <2>3 DEF CloseTab
    <3>2. active' = IF active # tabs[k] THEN active
                    ELSE IF rest = <<>> THEN NoTab ELSE Last(rest)
      <4>1. CASE active = tabs[k] /\ rest # <<>>
        BY <2>3, <4>1 DEF CloseTab, BringToFront
      <4>2. CASE active = tabs[k] => rest = <<>>
        <5>1. active' = IF active = tabs[k] THEN NoTab ELSE active
          BY <2>3, <4>2 DEF CloseTab
        <5> QED
          BY <4>2, <5>1
      <4> QED
        BY <4>1, <4>2
    <3>3. Strip!Close(k)
      BY <3>1, <3>2 DEF Strip!Close, NoTab, Strip!NoTab, RemoveAt, Strip!RemoveAt,
                        Last, Strip!Last
    <3> QED
      BY <3>3 DEF Strip!Next
  <2>4. ASSUME NEW k \in DOMAIN tabs, NEW j \in DOMAIN tabs, ReorderTab(k, j)
        PROVE  Strip!Next
    <3>1. Strip!Reorder(k, j)
      BY <2>4 DEF ReorderTab, Strip!Reorder, RemoveAt, Strip!RemoveAt,
                  InsertAt, Strip!InsertAt
    <3> QED
      BY <3>1 DEF Strip!Next
  <2>5. CASE UNCHANGED vars
    BY <2>5 DEF vars, Strip!vars
  <2> QED
    BY <1>2, <2>1, <2>2, <2>3, <2>4, <2>5 DEF Next
<1> QED
  BY <1>1, <1>2, PTL DEF Spec, StripSpec, Strip!Spec

\* A renderer comes back to life only for the tab being activated.
THEOREM OnlyActivation == Spec => OnlyActivationRestores
<1>1. ASSUME StripInv, [Next]_vars PROVE RestoredByActivation
  <2>1. \A j \in OpenTabs : status[j] \in Status /\ (j = active => status[j] = "Active")
    BY <1>1 DEF StripInv, TypeOK, OneActive, In, OpenTabs, ToSet
  <2>2. \A j \in OpenTabs \ {active} : status[j] # "Active"
    BY <1>1 DEF StripInv, OneActive, TypeOK, In, OpenTabs, ToSet
  <2>3. CASE OpenTab
    <3>1. nextId \in TabId /\ tabs \in Seq(TabId) /\ nextId \notin OpenTabs
      BY <1>1, <2>3, BoundAssumption DEF OpenTab, StripInv, TypeOK, IdsUnique, TabId
    <3> DEFINE seq == Append(tabs, nextId)
    <3>2. ToSet(seq) = OpenTabs \cup {nextId}
      BY <1>1, <3>1, AppendSet DEF StripInv, IdsUnique, OpenTabs
    <3>3. tabs' = seq /\ BringToFront(nextId, seq, active)
      BY <2>3 DEF OpenTab
    <3> HIDE DEF seq
    <3>4. /\ \A j \in ToSet(seq) : status'[j] = "Active" <=> j = nextId
          /\ \A j \in ToSet(seq) : status'[j] = "Warm" =>
                j = active \/ (j \in OpenTabs /\ status[j] = "Warm")
      BY <1>1, <2>2, <3>2, <3>3, BringToFrontShape
    <3> QED
      BY <2>1, <3>1, <3>2, <3>4 DEF RestoredByActivation
  <2>4. ASSUME NEW k \in DOMAIN tabs, Activate(k) PROVE RestoredByActivation
    <3>1. tabs[k] \in OpenTabs /\ OpenTabs' = OpenTabs /\ active' = tabs[k] /\ tabs[k] # active
      BY <2>4 DEF Activate, BringToFront, OpenTabs, ToSet
    <3>2. BringToFront(tabs[k], tabs, active)
      BY <2>4 DEF Activate
    <3>3. /\ \A j \in OpenTabs : status'[j] = "Active" <=> j = tabs[k]
          /\ \A j \in OpenTabs : status'[j] = "Warm" =>
                j = active \/ (j \in OpenTabs /\ status[j] = "Warm")
      BY <1>1, <2>2, <3>1, <3>2, BringToFrontShape DEF OpenTabs
    <3> QED
      BY <2>1, <3>1, <3>3 DEF RestoredByActivation
  <2>5. ASSUME NEW k \in DOMAIN tabs, CloseTab(k) PROVE RestoredByActivation
    <3> DEFINE rest == RemoveAt(tabs, k)
    <3>1. tabs[k] \in OpenTabs /\ tabs \in Seq(TabId)
      BY <1>1 DEF OpenTabs, ToSet, StripInv, TypeOK
    <3>2. rest \in Seq(TabId) /\ ToSet(rest) = OpenTabs \ {tabs[k]}
      BY <1>1, <3>1, RemoveAtProperties, RemoveAtSet DEF StripInv, IdsUnique, OpenTabs
    <3>3. OpenTabs' = ToSet(rest)
      BY <2>5 DEF CloseTab, OpenTabs
    <3>4. CASE active = tabs[k] /\ rest # <<>>
      <4>1. BringToFront(Last(rest), rest, NoTab)
        BY <2>5, <3>4 DEF CloseTab
      <4> HIDE DEF rest
      <4>2. Last(rest) \in ToSet(rest)
        BY <3>2, <3>4 DEF Last, ToSet
      <4>3. NoTab \notin OpenTabs
        BY <3>1, BoundAssumption DEF OpenTabs, ToSet, TabId, NoTab
      <4>4. /\ active' = Last(rest)
            /\ \A j \in ToSet(rest) : status'[j] = "Active" <=> j = Last(rest)
            /\ \A j \in ToSet(rest) : status'[j] = "Warm" =>
                j = NoTab \/ (j \in OpenTabs /\ status[j] = "Warm")
        BY <1>1, <2>2, <3>2, <3>4, <4>1, <4>2, BringToFrontShape
      <4> QED
        BY <3>2, <3>3, <3>4, <4>2, <4>3, <4>4 DEF RestoredByActivation
    <3>5. CASE active = tabs[k] => rest = <<>>
      <4>1. status' = [i \in ToSet(rest) |-> status[i]]
        BY <2>5, <3>5 DEF CloseTab
      <4> QED
        BY <3>3, <4>1 DEF RestoredByActivation
    <3> QED
      BY <3>4, <3>5
  <2>6. ASSUME NEW k \in DOMAIN tabs, NEW j \in DOMAIN tabs, ReorderTab(k, j) PROVE RestoredByActivation
    BY <2>6 DEF ReorderTab, RestoredByActivation
  <2>7. CASE UNCHANGED vars
    BY <2>7 DEF vars, RestoredByActivation
  <2> QED
    BY <1>1, <2>3, <2>4, <2>5, <2>6, <2>7 DEF Next
<1> QED
  BY <1>1, StripInvariant, PTL DEF Spec, OnlyActivationRestores

-----------------------------------------------------------------------------
(* The loop "while over budget, give up the next candidate".               *)

\* A non-empty set of ranked elements has one of least rank.
LEMMA LeastRank ==
    ASSUME NEW C, NEW rank, \A i \in C : rank[i] \in Nat, C # {}
    PROVE  \E m \in C : \A i \in C : rank[m] <= rank[i]
<1> DEFINE T == {rank[i] : i \in C}
           R == {ss \in Nat \X Nat : ss[1] < ss[2]}
<1>1. T \subseteq Nat /\ T # {}
  OBVIOUS
<1>2. IsWellFoundedOn(R, Nat)
  BY NatLessThanWellFounded DEF OpToRel
<1> HIDE DEF R, T
<1>3. PICK x \in T : \A y \in T : ~ (<<y, x>> \in R)
  BY <1>1, <1>2, WFMin
<1>4. \A y \in T : ~ (y < x)
  BY <1>1, <1>3 DEF R
<1>5. PICK m \in C : x = rank[m]
  BY DEF T
<1>6. \A i \in C : rank[i] \in T
  BY DEF T
<1> QED
  BY <1>4, <1>5, <1>6

\* The candidates given up are the first ones; either all of them are, or the
\* loop stopped because the total fits; it does nothing when the total fits.
LEMMA TrimmedProperties ==
    ASSUME NEW st, st = [i \in DOMAIN st |-> st[i]], NEW C, NEW rank, NEW s,
           \A i \in C : rank[i] \in Nat,
           \A i, j \in C : rank[i] = rank[j] => i = j,
           NEW gone, gone = Trimmed(st, C, rank, s)
    PROVE  /\ gone \subseteq C
           /\ \A i \in gone : \A j \in C : rank[j] < rank[i] => j \in gone
           /\ TotalMb(Put(st, gone, s)) > BudgetMb => gone = C
           /\ ~ (TotalMb(st) > BudgetMb) => gone = {}
<1> DEFINE before(i) == {j \in C : rank[j] < rank[i]}
           Over(i) == TotalMb(Put(st, before(i), s)) > BudgetMb
<1>1. \A i : i \in gone <=> i \in C /\ \A j \in before(i) \cup {i} : Over(j)
  BY DEF Trimmed
<1> HIDE DEF Over
<1>2. gone \subseteq C
  BY <1>1
<1>3. ASSUME NEW i \in gone, NEW j \in C, rank[j] < rank[i] PROVE j \in gone
  <2>1. \A m \in before(j) \cup {j} : m \in before(i)
    BY <1>2, <1>3
  <2> QED
    BY <1>1, <2>1
<1>4. ASSUME TotalMb(Put(st, gone, s)) > BudgetMb, gone # C PROVE FALSE
  <2>1. PICK m \in C \ gone : \A i \in C \ gone : rank[m] <= rank[i]
    BY <1>2, <1>4, LeastRank
  <2>2. ASSUME NEW j \in C, rank[j] < rank[m] PROVE j \in gone
    BY <2>1, <2>2
  <2>3. ASSUME NEW j \in gone PROVE rank[j] < rank[m]
    <3>1. ~ (rank[m] < rank[j])
      BY <1>3, <2>1
    <3>2. rank[m] # rank[j]
      BY <1>2, <2>1
    <3> QED
      BY <1>2, <3>1, <3>2
  <2>4. before(m) = gone
    BY <1>2, <2>2, <2>3
  <2>5. Over(m)
    BY <1>4, <2>4 DEF Over
  <2>6. \A j \in before(m) : Over(j)
    BY <1>1, <2>4
  <2> QED
    BY <1>1, <2>1, <2>5, <2>6
<1>5. ASSUME ~ (TotalMb(st) > BudgetMb), gone # {} PROVE FALSE
  <2>1. C # {}
    BY <1>2, <1>5
  <2>2. PICK m \in C : \A i \in C : rank[m] <= rank[i]
    BY <2>1, LeastRank
  <2>3. before(m) = {}
    BY <2>2
  <2>4. Put(st, {}, s) = st
    BY DEF Put
  <2>5. ~ Over(m)
    BY <1>5, <2>3, <2>4 DEF Over
  <2>6. PICK i \in gone : TRUE
    BY <1>5
  <2>7. m \in before(i) \cup {i}
    BY <1>2, <2>2
  <2> QED
    BY <1>1, <2>5, <2>7
<1> QED
  BY <1>2, <1>3, <1>4, <1>5

-----------------------------------------------------------------------------
(* The stages once more: what each of them guarantees.                     *)

\* A strip holds finitely many tabs.
LEMMA StripFinite ==
    ASSUME NEW seq \in Seq(TabId) PROVE IsFiniteSet(ToSet(seq))
<1>1. \A k \in DOMAIN seq : seq[k] \in TabId
  OBVIOUS
<1>2. IsFiniteSet(1 .. MaxTabId)
  BY FS_Interval, BoundAssumption
<1>3. ToSet(seq) \subseteq 1 .. MaxTabId
  BY <1>1 DEF ToSet, TabId
<1> QED
  BY <1>2, <1>3, FS_Subset

\* At most WarmTabLimit background tabs are left warm by limit_warm_tabs.
LEMMA LimitWarmBound ==
    ASSUME NEW S, IsFiniteSet(S), NEW st \in [S -> Status], NEW act, NEW last \in [S -> Nat],
           \A i, j \in S : last[i] = last[j] => i = j
    PROVE  Cardinality(In(LimitWarm(st, act, last), "Warm") \ {act}) <= WarmTabLimit
<1> DEFINE warm     == In(st, "Warm") \ {act}
           older(i) == {j \in warm : last[j] < last[i]}
           left     == {i \in warm : ~ (Cardinality(older(i)) + WarmTabLimit < Cardinality(warm))}
<1>1. warm \subseteq S /\ IsFiniteSet(warm)
  BY FS_Subset DEF In
<1>2. \A i : older(i) \subseteq warm /\ IsFiniteSet(older(i))
  BY <1>1, FS_Subset
<1>3. Cardinality(warm) \in Nat /\ \A i : Cardinality(older(i)) \in Nat
  BY <1>1, <1>2, FS_CardinalityType
<1>4. In(LimitWarm(st, act, last), "Warm") \ {act} = left
  BY <1>1 DEF LimitWarm, Put, In
<1>5. CASE left = {}
  <2>1. Cardinality({}) = 0
    BY FS_EmptySet
  <2> HIDE DEF left
  <2> QED
    BY <1>4, <1>5, <2>1, ConfigAssumption
<1>6. CASE left # {}
  <2>1. PICK m \in left : \A i \in left : last[m] <= last[i]
    BY <1>1, <1>6, LeastRank
  <2>2. left \subseteq warm \ older(m)
    BY <1>1, <2>1
  <2>3. /\ IsFiniteSet(warm \ older(m))
        /\ Cardinality(warm \ older(m)) = Cardinality(warm) - Cardinality(older(m))
    <3>1. warm \cap older(m) = older(m)
      BY <1>2
    <3> QED
      BY <1>1, <3>1, FS_Difference
  <2>4. Cardinality(left) <= Cardinality(warm \ older(m)) /\ Cardinality(left) \in Nat
    BY <2>2, <2>3, FS_Subset, FS_CardinalityType
  <2>5. ~ (Cardinality(older(m)) + WarmTabLimit < Cardinality(warm))
    BY <2>1
  <2>6. Cardinality(older(m)) \in Nat /\ Cardinality(warm) \in Nat
    BY <1>3
  <2> DEFINE all == Cardinality(warm)
             skipped == Cardinality(older(m))
             kept == Cardinality(left)
  <2>7. kept \in Nat /\ kept <= all - skipped /\ skipped \in Nat /\ all \in Nat
        /\ ~ (skipped + WarmTabLimit < all)
    BY <2>3, <2>4, <2>5, <2>6
  <2> HIDE DEF all, skipped, kept
  <2>8. kept <= WarmTabLimit
    BY <2>7, ConfigAssumption
  <2> QED
    BY <1>4, <2>8 DEF kept
<1> QED
  BY <1>5, <1>6

\* The order from the right end of the strip is a ranking.
LEMMA SuspendRankProperties ==
    ASSUME NEW seq \in Seq(TabId), \A a, b \in DOMAIN seq : seq[a] = seq[b] => a = b
    PROVE  /\ \A i \in ToSet(seq) : SuspendRank(seq)[i] \in Nat
           /\ \A i, j \in ToSet(seq) : SuspendRank(seq)[i] = SuspendRank(seq)[j] => i = j
<1> DEFINE pos(i) == CHOOSE k \in DOMAIN seq : seq[k] = i
<1>1. \A i \in ToSet(seq) : pos(i) \in DOMAIN seq /\ seq[pos(i)] = i
  BY DEF ToSet
<1>2. \A i \in ToSet(seq) : SuspendRank(seq)[i] = Len(seq) - pos(i)
  BY DEF SuspendRank
<1> HIDE DEF pos
<1>3. Len(seq) \in Nat /\ DOMAIN seq = 1 .. Len(seq)
  OBVIOUS
<1>4. \A i \in ToSet(seq) : pos(i) \in 1 .. Len(seq)
  BY <1>1, <1>3
<1>5. \A i \in ToSet(seq) : SuspendRank(seq)[i] \in Nat
  BY <1>2, <1>3, <1>4
<1>6. ASSUME NEW i \in ToSet(seq), NEW j \in ToSet(seq),
             SuspendRank(seq)[i] = SuspendRank(seq)[j]
      PROVE  i = j
  <2>1. pos(i) = pos(j)
    BY <1>2, <1>3, <1>4, <1>6
  <2> QED
    BY <1>1, <2>1
<1> QED
  BY <1>5, <1>6

\* What one run of the policy, from st to final, has to establish.
Achieved(seq, act, now, st, last, final) ==
    /\ Cardinality(In(final, "Warm")) <= WarmTabLimit
    /\ \A i \in ToSet(seq) : final[i] = "Warm" => ~ (now - last[i] >= SuspendAfter)
    /\ TotalMb(final) > BudgetMb =>
         \A i \in ToSet(seq) \ {act} : final[i] = "Discarded"
    /\ \A i, j \in ToSet(seq) :
         /\ final[i] = "Discarded" /\ st[i] # "Discarded" /\ final[j] = "Suspended"
         => last[i] < last[j]

\* It does, whatever the statuses it starts from.
LEMMA PolicyGuarantees ==
    ASSUME NEW seq \in Seq(TabId), \A a, b \in DOMAIN seq : seq[a] = seq[b] => a = b,
           NEW act \in ToSet(seq), NEW now,
           NEW st \in [ToSet(seq) -> Status],
           \A i \in ToSet(seq) : st[i] = "Active" <=> i = act,
           NEW last \in [ToSet(seq) -> Nat],
           \A i, j \in ToSet(seq) : last[i] = last[j] => i = j,
           NEW final, final = Enforced(st, act, last, now, seq)
    PROVE  Achieved(seq, act, now, st, last, final)
<1> DEFINE S       == ToSet(seq)
           fresh   == Fresh(st, act, last, now)
           limited == Limited(st, act, last, now)
           fitting == Fitting(st, act, last, now, seq)
           C1 == {i \in S \ {act} : limited[i] \notin {"Suspended", "Discarded"}}
           T1 == Trimmed(limited, C1, SuspendRank(seq), "Suspended")
           C2 == In(fitting, "Suspended") \ {act}
           T2 == Trimmed(fitting, C2, last, "Discarded")
<1>1. /\ Stage(S, act, st, fresh, "Suspended")
      /\ Stage(S, act, fresh, limited, "Suspended")
      /\ Stage(S, act, limited, fitting, "Suspended")
      /\ Stage(S, act, fitting, final, "Discarded")
  BY PolicyStages
<1>2. /\ fresh \in [S -> Status] /\ limited \in [S -> Status]
      /\ fitting \in [S -> Status] /\ final \in [S -> Status]
      /\ fresh[act] = "Active" /\ limited[act] = "Active"
      /\ fitting[act] = "Active" /\ final[act] = "Active"
  BY <1>1 DEF Stage
<1>3. fitting = Put(limited, T1, "Suspended")
  BY <1>2 DEF Fitting, SuspendForBudget
<1>4. final = Put(fitting, T2, "Discarded")
  BY EnforcedIsDiscard DEF DiscardForBudget
<1>5. limited = LimitWarm(fresh, act, last)
  BY DEF Limited
<1>6. fresh = SuspendStale(st, act, last, now)
  BY DEF Fresh
<1>7. /\ T1 \subseteq C1
      /\ TotalMb(Put(limited, T1, "Suspended")) > BudgetMb => T1 = C1
  <2>1. C1 \subseteq S
    OBVIOUS
  <2>2. /\ \A i \in C1 : SuspendRank(seq)[i] \in Nat
        /\ \A i, j \in C1 : SuspendRank(seq)[i] = SuspendRank(seq)[j] => i = j
    BY <2>1, SuspendRankProperties
  <2>3. limited = [i \in DOMAIN limited |-> limited[i]]
    BY <1>2
  <2> HIDE DEF C1, limited
  <2> QED
    BY <2>2, <2>3, TrimmedProperties
<1>8. C2 \subseteq S
  BY <1>2 DEF In
<1>9. /\ T2 \subseteq C2
      /\ \A i \in T2 : \A j \in C2 : last[j] < last[i] => j \in T2
      /\ TotalMb(Put(fitting, T2, "Discarded")) > BudgetMb => T2 = C2
      /\ ~ (TotalMb(fitting) > BudgetMb) => T2 = {}
  <2> HIDE DEF C2, fitting
  <2>1. /\ \A i \in C2 : last[i] \in Nat
        /\ \A i, j \in C2 : last[i] = last[j] => i = j
    BY <1>8
  <2>2. fitting = [i \in DOMAIN fitting |-> fitting[i]]
    BY <1>2
  <2> QED
    BY <2>1, <2>2, TrimmedProperties
<1> HIDE DEF fresh, limited, fitting, C1, T1, C2, T2
<1>10. Cardinality(In(final, "Warm")) <= WarmTabLimit
  <2>1. In(final, "Warm") \subseteq In(limited, "Warm") \ {act}
    BY <1>1, <1>2 DEF Stage, In
  <2>2. IsFiniteSet(In(limited, "Warm") \ {act})
    BY <1>2, StripFinite, FS_Subset DEF In
  <2>3. Cardinality(In(limited, "Warm") \ {act}) <= WarmTabLimit
    BY <1>2, <1>5, LimitWarmBound, StripFinite
  <2>4. /\ Cardinality(In(final, "Warm")) <= Cardinality(In(limited, "Warm") \ {act})
        /\ Cardinality(In(final, "Warm")) \in Nat
        /\ Cardinality(In(limited, "Warm") \ {act}) \in Nat
    BY <2>1, <2>2, FS_Subset, FS_CardinalityType
  <2> QED
    BY <2>3, <2>4, ConfigAssumption
<1>11. ASSUME NEW i \in S, final[i] = "Warm" PROVE ~ (now - last[i] >= SuspendAfter)
  <2>1. fresh[i] = "Warm" /\ i # act
    BY <1>1, <1>2, <1>11 DEF Stage
  <2> QED
    BY <1>6, <2>1 DEF SuspendStale, Put
<1>12. ASSUME TotalMb(final) > BudgetMb, NEW i \in S \ {act} PROVE final[i] = "Discarded"
  <2>1. T2 = C2
    BY <1>4, <1>9, <1>12
  <2>2. TotalMb(fitting) > BudgetMb
    <3>1. SUFFICES ASSUME T2 = {} PROVE final = fitting
      BY <1>9, <1>12
    <3> QED
      BY <1>2, <1>4, <3>1 DEF Put
  <2>3. T1 = C1
    BY <1>3, <1>7, <2>2
  <2>4. fitting[i] \in {"Suspended", "Discarded"}
    BY <1>2, <1>3, <2>3 DEF Put, C1
  <2> QED
    BY <1>2, <1>4, <2>1, <2>4 DEF Put, C2, In
<1>13. ASSUME NEW i \in S, NEW j \in S,
              final[i] = "Discarded", st[i] # "Discarded", final[j] = "Suspended"
       PROVE  last[i] < last[j]
  <2>1. fitting[i] # "Discarded"
    BY <1>1, <1>13 DEF Stage
  <2>2. i \in T2
    BY <1>2, <1>4, <1>13, <2>1 DEF Put
  <2>3. j \in C2 /\ j \notin T2
    BY <1>1, <1>2, <1>4, <1>13 DEF Put, C2, In, Stage
  <2>4. ~ (last[j] < last[i]) /\ last[i] # last[j]
    BY <1>9, <2>2, <2>3
  <2> QED
    BY <2>4
<1> QED
  BY <1>10, <1>11, <1>12, <1>13 DEF Achieved
-----------------------------------------------------------------------------
(* The invariant of the policy, on top of that of the strip.               *)

PolicyInv == WarmBounded /\ NoStaleRenderer /\ BudgetRespected

\* Every action that brings a tab to the front re-establishes the policy, and
\* discards by age, whatever the state of the other tabs was.
LEMMA BringToFrontPolicy ==
    ASSUME StripInv,
           NEW i, NEW seq \in Seq(TabId), NEW old, i \in ToSet(seq),
           \A a, b \in DOMAIN seq : seq[a] = seq[b] => a = b,
           ToSet(seq) \subseteq OpenTabs \cup {i},
           \A j \in ToSet(seq) \ {i, old} : status[j] # "Active",
           tabs' = seq,
           BringToFront(i, seq, old)
    PROVE  PolicyInv' /\ DiscardedByAge
<1> DEFINE open == ToSet(seq)
           last == [j \in open |-> IF j = i THEN tick + 1 ELSE lastTick[j]]
           st   == [j \in open |-> IF j = i THEN "Active"
                                   ELSE IF j = old THEN "Warm" ELSE status[j]]
           now  == tick + 1
           new  == Enforced(st, i, last, now, seq)
<1>1. tick' = now /\ active' = i /\ lastTick' = last /\ status' = new
  BY DEF BringToFront, Promoted, Stamped, Enforced
<1>2. OpenTabs' = open
  BY DEF OpenTabs
<1>3. /\ last \in [open -> 1 .. MaxTick]
      /\ \A j, m \in open : last[j] = last[m] => j = m
      /\ status' \in [open -> Status]
  <2>1. /\ lastTick' \in [open -> 1 .. MaxTick]
        /\ \A j, m \in open : lastTick'[j] = lastTick'[m] => j = m
        /\ status' \in [open -> Status]
    BY BringToFrontShape
  <2> HIDE DEF last, st, new, now
  <2> QED
    BY <1>1, <2>1
<1>4. st \in [open -> Status]
  <2>1. \A j \in open \ {i} : status[j] \in Status
    BY DEF StripInv, TypeOK
  <2> QED
    BY <2>1 DEF Status
<1>5. \A j \in open : st[j] = "Active" <=> j = i
  OBVIOUS
<1>6. \A j \in open : st[j] = "Discarded" => j \in OpenTabs /\ status[j] = "Discarded"
  OBVIOUS
<1> HIDE DEF st, last
<1>7. last \in [open -> Nat]
  BY <1>3
<1>13. new = Enforced(st, i, last, now, seq)
  OBVIOUS
<1> HIDE DEF now, new
<1>14. Achieved(seq, i, now, st, last, new)
  <2>1. /\ st \in [ToSet(seq) -> Status]
        /\ last \in [ToSet(seq) -> Nat]
        /\ \A j \in ToSet(seq) : st[j] = "Active" <=> j = i
        /\ \A j, m \in ToSet(seq) : last[j] = last[m] => j = m
    BY <1>3, <1>4, <1>5, <1>7
  <2> HIDE DEF open
  <2> QED
    BY <2>1, <1>13, PolicyGuarantees
<1>8. /\ Cardinality(In(new, "Warm")) <= WarmTabLimit
      /\ \A j \in open : new[j] = "Warm" => ~ (now - last[j] >= SuspendAfter)
      /\ TotalMb(new) > BudgetMb => \A j \in open \ {i} : new[j] = "Discarded"
      /\ \A a, b \in open :
            /\ new[a] = "Discarded" /\ st[a] # "Discarded" /\ new[b] = "Suspended"
            => last[a] < last[b]
  BY <1>14 DEF Achieved
<1>9. WarmBounded'
  BY <1>1, <1>8 DEF WarmBounded, In
<1>10. NoStaleRenderer'
  <2>1. \A j \in open : now - last[j] \in Int
    BY <1>3, BoundAssumption DEF StripInv, TypeOK, now
  <2>2. \A j \in open : new[j] = "Warm" => now - last[j] < SuspendAfter
    BY <1>8, <2>1, ConfigAssumption
  <2> QED
    BY <1>1, <1>3, <2>2 DEF NoStaleRenderer, In
<1>11. BudgetRespected'
  <2>1. TotalMb(status)' = TotalMb(new)
    BY <1>1 DEF TotalMb, In
  <2> QED
    BY <1>1, <1>2, <1>8, <2>1 DEF BudgetRespected
<1>12. DiscardedByAge
  BY <1>1, <1>2, <1>6, <1>8 DEF DiscardedByAge
<1> QED
  BY <1>9, <1>10, <1>11, <1>12 DEF PolicyInv

\* A product grows with its first factor.
LEMMA TimesMonotone ==
    ASSUME NEW a \in Nat, NEW b \in Nat, a <= b, NEW c \in Nat
    PROVE  a * c <= b * c /\ a * c \in Nat /\ b * c \in Nat
OBVIOUS

\* Forgetting tabs never adds memory.
LEMMA FewerTabsLess ==
    ASSUME NEW S, IsFiniteSet(S), NEW st \in [S -> Status], NEW R, R \subseteq S,
           NEW less, less = [i \in R |-> st[i]]
    PROVE  /\ TotalMb(less) <= TotalMb(st)
           /\ TotalMb(less) \in Nat /\ TotalMb(st) \in Nat
           /\ Cardinality(In(less, "Warm")) <= Cardinality(In(st, "Warm"))
           /\ Cardinality(In(less, "Warm")) \in Nat /\ Cardinality(In(st, "Warm")) \in Nat
<1>1. ASSUME NEW s
      PROVE  /\ Cardinality(In(less, s)) <= Cardinality(In(st, s))
             /\ Cardinality(In(less, s)) \in Nat /\ Cardinality(In(st, s)) \in Nat
  <2>1. In(less, s) \subseteq In(st, s) /\ In(st, s) \subseteq S
    BY DEF In
  <2>2. IsFiniteSet(In(st, s)) /\ IsFiniteSet(In(less, s))
    BY <2>1, FS_Subset
  <2> QED
    BY <2>1, <2>2, FS_Subset, FS_CardinalityType
<1> DEFINE a1 == Cardinality(In(less, "Active"))    * ActiveMb
           b1 == Cardinality(In(st,   "Active"))    * ActiveMb
           a2 == Cardinality(In(less, "Warm"))      * WarmMb
           b2 == Cardinality(In(st,   "Warm"))      * WarmMb
           a3 == Cardinality(In(less, "Suspended")) * SnapshotMb
           b3 == Cardinality(In(st,   "Suspended")) * SnapshotMb
<1>2. a1 \in Nat /\ b1 \in Nat /\ a1 <= b1
  BY <1>1, TimesMonotone, ConfigAssumption
<1>3. a2 \in Nat /\ b2 \in Nat /\ a2 <= b2
  BY <1>1, TimesMonotone, ConfigAssumption
<1>4. a3 \in Nat /\ b3 \in Nat /\ a3 <= b3
  BY <1>1, TimesMonotone, ConfigAssumption
<1>5. TotalMb(less) = a1 + a2 + a3 /\ TotalMb(st) = b1 + b2 + b3
  BY DEF TotalMb
<1> HIDE DEF a1, a2, a3, b1, b2, b3
<1> QED
  BY <1>1, <1>2, <1>3, <1>4, <1>5

\* A close that brings no tab to the front keeps the policy: the remaining tabs
\* keep their status.
LEMMA ForgetPolicy ==
    ASSUME StripInv, PolicyInv, NEW kept, kept \subseteq OpenTabs,
           OpenTabs' = kept,
           kept # {} => active' = active,
           tick' = tick,
           status' = [j \in kept |-> status[j]],
           lastTick' = [j \in kept |-> lastTick[j]]
    PROVE  PolicyInv' /\ DiscardedByAge
<1>1. IsFiniteSet(OpenTabs) /\ status \in [OpenTabs -> Status]
  BY StripFinite DEF StripInv, TypeOK, OpenTabs
<1>2. /\ TotalMb(status') <= TotalMb(status)
      /\ TotalMb(status') \in Nat /\ TotalMb(status) \in Nat
      /\ Cardinality(In(status', "Warm")) <= Cardinality(In(status, "Warm"))
      /\ Cardinality(In(status', "Warm")) \in Nat /\ Cardinality(In(status, "Warm")) \in Nat
  BY <1>1, FewerTabsLess
<1>3. WarmBounded'
  <2>1. Cardinality(In(status, "Warm")) <= WarmTabLimit
    BY DEF PolicyInv, WarmBounded
  <2>2. Cardinality(In(status', "Warm")) <= WarmTabLimit
    BY <1>2, <2>1, ConfigAssumption
  <2> QED
    BY <2>2 DEF WarmBounded, In
<1>4. NoStaleRenderer'
  <2>1. \A j \in kept : status'[j] = status[j] /\ lastTick'[j] = lastTick[j]
    OBVIOUS
  <2>2. \A j \in kept : status[j] = "Warm" => tick - lastTick[j] < SuspendAfter
    BY <1>1 DEF PolicyInv, NoStaleRenderer, In
  <2> QED
    BY <2>1, <2>2 DEF NoStaleRenderer, In
<1>5. BudgetRespected'
  <2>1. TotalMb(status)' = TotalMb(status')
    BY DEF TotalMb, In
  <2>2. ASSUME TotalMb(status') > BudgetMb, NEW j \in kept \ {active'}
        PROVE  status'[j] = "Discarded"
    <3>1. TotalMb(status) > BudgetMb /\ active' = active
      BY <1>2, <2>2, ConfigAssumption
    <3> QED
      BY <2>2, <3>1 DEF PolicyInv, BudgetRespected
  <2> QED
    BY <2>1, <2>2 DEF BudgetRespected
<1>6. DiscardedByAge
  BY DEF DiscardedByAge
<1> QED
  BY <1>3, <1>4, <1>5, <1>6 DEF PolicyInv

\* What a step of the system does to the policy, from a state of the strip
\* invariant: the invariant is kept, and tabs are discarded by age.
LEMMA NextPolicy ==
    ASSUME StripInv, PolicyInv, [Next]_vars PROVE PolicyInv' /\ DiscardedByAge
<1> USE DEF StripInv
<1>1. /\ tabs \in Seq(TabId)
      /\ \A a, b \in DOMAIN tabs : tabs[a] = tabs[b] => a = b
      /\ \A j \in OpenTabs \ {active} : status[j] # "Active"
  BY DEF OneActive, TypeOK, IdsUnique, In, OpenTabs, ToSet
<1>2. CASE OpenTab
  <2> DEFINE seq == Append(tabs, nextId)
  <2>1. nextId \in TabId /\ nextId \notin OpenTabs
    BY <1>2, BoundAssumption DEF OpenTab, TypeOK, IdsUnique, TabId
  <2>2. /\ seq \in Seq(TabId) /\ ToSet(seq) = OpenTabs \cup {nextId}
        /\ \A a, b \in DOMAIN seq : seq[a] = seq[b] => a = b
    BY <1>1, <2>1, AppendSet DEF OpenTabs
  <2>3. tabs' = seq /\ BringToFront(nextId, seq, active)
    BY <1>2 DEF OpenTab
  <2> HIDE DEF seq, StripInv
  <2> QED
    BY <1>1, <2>2, <2>3, BringToFrontPolicy
<1>3. ASSUME NEW k \in DOMAIN tabs, Activate(k) PROVE PolicyInv' /\ DiscardedByAge
  <2>1. tabs' = tabs /\ BringToFront(tabs[k], tabs, active) /\ tabs[k] \in ToSet(tabs)
    BY <1>3 DEF Activate, ToSet
  <2> HIDE DEF StripInv
  <2> QED
    BY <1>1, <2>1, BringToFrontPolicy DEF OpenTabs
<1>4. ASSUME NEW k \in DOMAIN tabs, CloseTab(k) PROVE PolicyInv' /\ DiscardedByAge
  <2> DEFINE rest == RemoveAt(tabs, k)
  <2>1. /\ rest \in Seq(TabId)
        /\ ToSet(rest) = OpenTabs \ {tabs[k]}
        /\ \A a, b \in DOMAIN rest : rest[a] = rest[b] => a = b
    BY <1>1, RemoveAtProperties, RemoveAtSet DEF OpenTabs
  <2>2. tabs' = rest /\ OpenTabs' = ToSet(rest)
    BY <1>4 DEF CloseTab, OpenTabs
  <2>3. CASE active = tabs[k] /\ rest # <<>>
    <3>1. BringToFront(Last(rest), rest, NoTab)
      BY <1>4, <2>3 DEF CloseTab
    <3> HIDE DEF rest, StripInv
    <3>2. Last(rest) \in ToSet(rest)
      BY <2>1, <2>3 DEF Last, ToSet
    <3> QED
      BY <1>1, <2>1, <2>2, <2>3, <3>1, <3>2, BringToFrontPolicy
  <2>4. CASE active = tabs[k] => rest = <<>>
    <3>1. /\ active' = IF active = tabs[k] THEN NoTab ELSE active
          /\ status' = [i \in ToSet(rest) |-> status[i]]
          /\ lastTick' = [i \in ToSet(rest) |-> lastTick[i]]
          /\ tick' = tick
      BY <1>4, <2>4 DEF CloseTab
    <3> HIDE DEF rest, StripInv
    <3>2. ToSet(rest) # {} => active' = active
      BY <2>4, <3>1 DEF ToSet
    <3> QED
      BY <2>1, <2>2, <3>1, <3>2, ForgetPolicy
  <2> QED
    BY <2>3, <2>4
<1>5. ASSUME NEW k \in DOMAIN tabs, NEW j \in DOMAIN tabs, ReorderTab(k, j)
      PROVE  PolicyInv' /\ DiscardedByAge
  <2>1. /\ tabs' = InsertAt(RemoveAt(tabs, k), j, tabs[k])
        /\ UNCHANGED <<active, nextId, tick, status, lastTick>>
    BY <1>5 DEF ReorderTab
  <2>2. OpenTabs' = OpenTabs
    BY <1>1, <2>1, MoveSet DEF OpenTabs
  <2> QED
    BY <2>1, <2>2 DEF PolicyInv, WarmBounded, NoStaleRenderer, BudgetRespected,
                      DiscardedByAge, In, TotalMb
<1>6. CASE UNCHANGED vars
  BY <1>6 DEF vars, PolicyInv, WarmBounded, NoStaleRenderer, BudgetRespected,
              DiscardedByAge, In, TotalMb, OpenTabs
<1> QED
  BY <1>2, <1>3, <1>4, <1>5, <1>6 DEF Next

\* Before the first tab there is nothing to bound.
LEMMA InitPolicy == Init => PolicyInv
<1> SUFFICES ASSUME Init PROVE PolicyInv
  OBVIOUS
<1>1. tabs = <<>> /\ status = <<>>
  BY DEF Init
<1>2. \A s : In(status, s) = {}
  BY <1>1 DEF In
<1>3. OpenTabs = {}
  BY <1>1 DEF OpenTabs, ToSet
<1>4. Cardinality({}) = 0
  BY FS_EmptySet
<1> QED
  BY <1>2, <1>3, <1>4, ConfigAssumption
     DEF PolicyInv, WarmBounded, NoStaleRenderer, BudgetRespected

\* The policy holds in every state, whatever the configuration: the lemma on one
\* run of the policy re-establishes it at every activation, and no other action
\* changes a status.
THEOREM PolicyInvariant == Spec => []PolicyInv
<1>1. StripInv /\ PolicyInv /\ [Next]_vars => PolicyInv'
  BY NextPolicy
<1> QED
  BY <1>1, InitPolicy, StripInvariant, PTL DEF Spec

\* No more than WarmTabLimit background tabs ever keep a renderer (limit_warm_tabs).
THEOREM WarmTabsBounded == Spec => []WarmBounded
BY PolicyInvariant, PTL DEF PolicyInv

\* No background tab keeps its renderer for SuspendAfter activations
\* (suspend_stale_background_tabs).
THEOREM NoRendererGoesStale == Spec => []NoStaleRenderer
BY PolicyInvariant, PTL DEF PolicyInv

\* The budget is exceeded only when every background tab is discarded
\* (fit_total_budget).
THEOREM BudgetIsRespected == Spec => []BudgetRespected
BY PolicyInvariant, PTL DEF PolicyInv

\* After every step, all the limits of the policy hold together
\* (enforce_memory_policy).
THEOREM LimitsKept == Spec => []PolicyLimits
BY WarmTabsBounded, NoRendererGoesStale, BudgetIsRespected, PTL DEF PolicyLimits

\* The policy discards the least recently used snapshot first (the second loop
\* of fit_total_budget).
THEOREM DiscardsColdest == Spec => ColdestDiscardedFirst
<1>1. StripInv /\ PolicyInv /\ [Next]_vars => [DiscardedByAge]_vars
  BY NextPolicy
<1> QED
  BY <1>1, StripInvariant, PolicyInvariant, PTL DEF Spec, ColdestDiscardedFirst
=============================================================================
