------------------------------ MODULE DataProofs ------------------------------
(***************************************************************************)
(* Proofs about what the browser keeps: for every number of tabs and of     *)
(* workspaces, the workspaces partition the tabs and a partition of storage *)
(* is never given to a second container; the caches of the database hold    *)
(* what its tables hold; cookies stay with the site they were set under;    *)
(* local storage keeps to its quota and no record outlives its database;    *)
(* the address bar offers what was asked for its text; and what a search    *)
(* answers is clean, its cache keeping the answers used last.               *)
(***************************************************************************)
EXTENDS Workspaces, Storage, Cookies, WebStorage, Omnibox, SequenceLemmas, FiniteSetTheorems, TLAPS

-----------------------------------------------------------------------------
(* Workspaces.                                                             *)

\* What the numbers are: tabs and workspaces are numbered on, and what a
\* workspace that is gone listed has been taken from it.
Numbered ==
    /\ lastTab \in 1 .. MaxTab
    /\ open \subseteq 1 .. lastTab /\ moved \subseteq open /\ adrift \subseteq open
    /\ workspaceId \in [1 .. MaxTab -> 0 .. lastId]
    /\ lastId \in 1 .. MaxWorkspace
    /\ ids \subseteq 1 .. lastId /\ DefaultWorkspace \in ids
    /\ tabsOf \in [1 .. MaxWorkspace -> SUBSET open]
    /\ \A w \in (1 .. MaxWorkspace) \ ids : tabsOf[w] = {}

\* A deleted workspace's number is not given again, so neither is its partition.
Partitions ==
    /\ containers \subseteq ids
    /\ retired \subseteq 1 .. lastId
    /\ ids \intersect retired = {}

WorkspacesInv == Numbered /\ Partitions /\ TabsPlaced

USE WorkspacesAssumption DEF DefaultWorkspace

LEMMA InitInv == WorkspacesInit => WorkspacesInv
BY DEF WorkspacesInit, WorkspacesInv, Numbered, Partitions, TabsPlaced, NoWorkspace, Home

\* Creating a workspace lists no tab, and takes a number of its own.
LEMMA CreateInv == WorkspacesInv /\ (Create \/ CreateContainer) => WorkspacesInv'
<1> SUFFICES ASSUME WorkspacesInv, Create \/ CreateContainer PROVE WorkspacesInv'
  OBVIOUS
<1> USE DEF WorkspacesInv
<1>1. /\ lastId' = lastId + 1 /\ lastId' \in 1 .. MaxWorkspace
      /\ ids' = ids \union {lastId + 1} /\ lastId + 1 \notin ids
      /\ UNCHANGED <<open, lastTab, workspaceId, moved, adrift, tabsOf>>
      /\ active' = active /\ retired' = retired
      /\ containers' \in {containers, containers \union {lastId + 1}}
  BY DEF Create, CreateContainer, tabVars, histories, containerVars, Numbered
<1>2. Numbered'
  BY <1>1 DEF Numbered
<1>3. Partitions'
  BY <1>1 DEF Numbered, Partitions
<1>4. TabsPlaced'
  <2>1. tabsOf[lastId + 1] = {}
    BY <1>1 DEF Numbered
  <2>2. containers' \intersect retired' = {}
    BY <1>1, <1>3 DEF Partitions
  <2>3. \A tab \in open : Home(workspaceId[tab])' = Home(workspaceId[tab])
    BY <1>1 DEF Numbered, Home
  <2> QED BY <1>1, <2>1, <2>2, <2>3 DEF TabsPlaced
<1> QED BY <1>2, <1>3, <1>4

LEMMA ActivateInv == ASSUME NEW id PROVE WorkspacesInv /\ Activate(id) => WorkspacesInv'
BY DEF WorkspacesInv, Activate, tabVars, histories, containerVars, Numbered, Partitions, TabsPlaced, Home

\* Deleting moves the tabs to the default workspace, where they were not.
LEMMA DeleteInv ==
    ASSUME WorkspacesInv, NEW id \in 1 .. MaxWorkspace, Delete(id)
    PROVE  WorkspacesInv'
<1> USE DEF WorkspacesInv
<1> DEFINE joined == tabsOf[DefaultWorkspace] \union tabsOf[id]
<1>1. /\ id \in ids \ {DefaultWorkspace} /\ ids' = ids \ {id}
      /\ tabsOf' = [tabsOf EXCEPT ![DefaultWorkspace] = joined, ![id] = {}]
      /\ UNCHANGED <<open, lastTab, workspaceId, moved, adrift, lastId>>
      /\ active' \in ids' /\ containers' = containers \ {id}
      /\ retired' = retired \union (containers \intersect {id})
  BY DEF Delete, Retire, tabVars, histories, TabsPlaced, Numbered
<1>2. /\ tabsOf'[DefaultWorkspace] = joined /\ tabsOf'[id] = {}
      /\ \A w \in (1 .. MaxWorkspace) \ {DefaultWorkspace, id} : tabsOf'[w] = tabsOf[w]
      /\ tabsOf' \in [1 .. MaxWorkspace -> SUBSET open]
  BY <1>1 DEF Numbered
<1>3. Numbered'
  BY <1>1, <1>2 DEF Numbered
<1>4. Partitions'
  BY <1>1 DEF Numbered, Partitions
<1>5. TabsPlaced'
  <2>1. \A w \in ids' : tabsOf'[w] \subseteq open' \ adrift'
    BY <1>1, <1>2 DEF Numbered, TabsPlaced
  <2>2. \A v, w \in ids' : v # w => tabsOf'[v] \cap tabsOf'[w] = {}
    <3>1. \A w \in ids' \ {DefaultWorkspace} : tabsOf'[w] \cap joined = {} /\ tabsOf'[w] = tabsOf[w]
      BY <1>1, <1>2 DEF Numbered, TabsPlaced
    <3>2. \A v, w \in ids' \ {DefaultWorkspace} : v # w => tabsOf[v] \cap tabsOf[w] = {}
      BY <1>1 DEF TabsPlaced
    <3>3. tabsOf'[DefaultWorkspace] = joined
      BY <1>2
    <3> HIDE DEF joined
    <3> QED BY <3>1, <3>2, <3>3
  <2>3. \A tab \in open' \ adrift' : \E w \in ids' : tab \in tabsOf'[w]
    <3> SUFFICES ASSUME NEW tab \in open \ adrift PROVE \E w \in ids' : tab \in tabsOf'[w]
      BY <1>1
    <3>1. PICK w \in ids : tab \in tabsOf[w]
      BY DEF TabsPlaced
    <3>2. CASE w \in {DefaultWorkspace, id}
      <4>1. tab \in joined /\ DefaultWorkspace \in ids'
        BY <1>1, <3>1, <3>2 DEF Numbered
      <4> QED BY <1>2, <4>1
    <3>3. CASE w \notin {DefaultWorkspace, id}
      <4>1. w \in (1 .. MaxWorkspace) \ {DefaultWorkspace, id} /\ w \in ids'
        BY <1>1, <3>3 DEF Numbered
      <4> QED BY <1>2, <3>1, <4>1
    <3> QED BY <3>2, <3>3
  <2>4. containers' \intersect retired' = {}
    BY <1>1 DEF TabsPlaced
  <2>5. \A tab \in open' \ (adrift' \union moved') : tab \in tabsOf'[Home(workspaceId[tab])']
    <3> SUFFICES ASSUME NEW tab \in open \ (adrift \union moved)
                 PROVE  tab \in tabsOf'[Home(workspaceId[tab])']
      BY <1>1
    <3>1. tab \in tabsOf[Home(workspaceId[tab])]
      BY DEF TabsPlaced
    <3>2. CASE workspaceId[tab] \in ids'
      BY <1>1, <1>2, <3>1, <3>2 DEF Home, Numbered
    <3>3. CASE workspaceId[tab] \notin ids'
      <4>1. Home(workspaceId[tab])' = DefaultWorkspace /\ Home(workspaceId[tab]) \in {DefaultWorkspace, id}
        BY <1>1, <3>3 DEF Home
      <4> QED BY <1>2, <3>1, <4>1
    <3> QED BY <3>2, <3>3
  <2> QED BY <1>1, <2>1, <2>2, <2>3, <2>4, <2>5 DEF TabsPlaced
<1> QED BY <1>3, <1>4, <1>5

\* Removing all of them leaves every listed tab in the default workspace.
LEMMA RemoveInv == WorkspacesInv /\ RemoveWorkspaces => WorkspacesInv'
<1> SUFFICES ASSUME WorkspacesInv, RemoveWorkspaces PROVE WorkspacesInv'
  OBVIOUS
<1> USE DEF WorkspacesInv
<1>1. /\ ids' = {DefaultWorkspace} /\ active' = DefaultWorkspace
      /\ UNCHANGED <<open, lastTab, workspaceId, moved, adrift, lastId>>
      /\ containers' = containers \ (ids \ {DefaultWorkspace})
      /\ retired' = retired \union (containers \intersect (ids \ {DefaultWorkspace}))
      /\ tabsOf' \in [1 .. MaxWorkspace -> SUBSET open]
      /\ tabsOf'[DefaultWorkspace] = UNION {tabsOf[v] : v \in ids}
      /\ \A w \in (1 .. MaxWorkspace) \ {DefaultWorkspace} : tabsOf'[w] = {}
  BY DEF RemoveWorkspaces, Retire, tabVars, histories, Numbered, TabsPlaced
<1>2. Numbered'
  BY <1>1 DEF Numbered
<1>3. Partitions'
  BY <1>1 DEF Numbered, Partitions
<1>4. TabsPlaced'
  <2>1. \A tab \in open \ adrift : tab \in tabsOf'[DefaultWorkspace]
    BY <1>1 DEF TabsPlaced
  <2>2. tabsOf'[DefaultWorkspace] \subseteq open \ adrift
    BY <1>1 DEF TabsPlaced
  <2>3. \A tab \in open : Home(workspaceId[tab])' = DefaultWorkspace
    BY <1>1 DEF Home
  <2> QED BY <1>1, <2>1, <2>2, <2>3 DEF TabsPlaced, Numbered
<1> QED BY <1>2, <1>3, <1>4

-----------------------------------------------------------------------------
(* The tabs.                                                               *)

\* Taking a tab out of every workspace keeps the others where they are.
LEMMA WithoutTab ==
    ASSUME Numbered, NEW tab
    PROVE  /\ Without(tab) \in [1 .. MaxWorkspace -> SUBSET (open \ {tab})]
           /\ \A w \in 1 .. MaxWorkspace : Without(tab)[w] = tabsOf[w] \ {tab}
BY DEF Without, Numbered

\* A tab that is listed nowhere may be listed in one workspace.
LEMMA AddedOnce ==
    ASSUME NEW opened, NEW tabs \in [1 .. MaxWorkspace -> SUBSET opened], ids \subseteq 1 .. MaxWorkspace,
           NEW id \in 1 .. MaxWorkspace, NEW tab \in opened,
           \A w \in 1 .. MaxWorkspace : tab \notin tabs[w],
           \A v, w \in ids : v # w => tabs[v] \cap tabs[w] = {}
    PROVE  /\ AddTab(tabs, id, tab) \in [1 .. MaxWorkspace -> SUBSET opened]
           /\ \A v, w \in ids : v # w => AddTab(tabs, id, tab)[v] \cap AddTab(tabs, id, tab)[w] = {}
           /\ \A w \in 1 .. MaxWorkspace : tabs[w] \subseteq AddTab(tabs, id, tab)[w]
           /\ \A w \in 1 .. MaxWorkspace : AddTab(tabs, id, tab)[w] \subseteq tabs[w] \union {tab}
           /\ \A w \in (1 .. MaxWorkspace) \ ids : AddTab(tabs, id, tab)[w] = tabs[w]
           /\ id \in ids => tab \in AddTab(tabs, id, tab)[id]
<1>1. CASE id \in ids
  <2>1. /\ AddTab(tabs, id, tab) = [tabs EXCEPT ![id] = @ \union {tab}]
        /\ AddTab(tabs, id, tab)[id] = tabs[id] \union {tab}
        /\ \A w \in (1 .. MaxWorkspace) \ {id} : AddTab(tabs, id, tab)[w] = tabs[w]
    BY <1>1 DEF AddTab
  <2> QED BY <1>1, <2>1
<1>2. CASE id \notin ids
  BY <1>2 DEF AddTab
<1> QED BY <1>1, <1>2

\* A new tab has a number of its own, and is listed in the active workspace or in none.
LEMMA OpenInv == WorkspacesInv /\ (OpenNewTab \/ NewTabRequested) => WorkspacesInv'
<1> SUFFICES ASSUME WorkspacesInv, OpenNewTab \/ NewTabRequested PROVE WorkspacesInv'
  OBVIOUS
<1> USE DEF WorkspacesInv
<1> DEFINE new == lastTab + 1
<1>1. /\ lastTab' = new /\ open' = open \union {new} /\ new \notin open
      /\ ids' = ids /\ lastId' = lastId /\ active' = active
      /\ containers' = containers /\ retired' = retired
      /\ active \in 1 .. MaxWorkspace /\ ids \subseteq 1 .. MaxWorkspace /\ active \in 0 .. lastId
      /\ moved' = moved /\ new \in 1 .. MaxTab
  BY DEF OpenNewTab, NewTabRequested, histories, containerVars, Numbered, TabsPlaced
<1>2. /\ tabsOf \in [1 .. MaxWorkspace -> SUBSET open']
      /\ \A w \in 1 .. MaxWorkspace : new \notin tabsOf[w]
      /\ \A v, w \in ids : v # w => tabsOf[v] \cap tabsOf[w] = {}
  BY <1>1 DEF Numbered, TabsPlaced
<1>3. CASE OpenNewTab
  <2>1. /\ tabsOf' = AddTab(tabsOf, active, new) /\ adrift' = adrift
        /\ workspaceId' = [workspaceId EXCEPT ![new] = active]
    BY <1>3 DEF OpenNewTab, histories
  <2>2. /\ tabsOf' \in [1 .. MaxWorkspace -> SUBSET open']
        /\ \A v, w \in ids : v # w => tabsOf'[v] \cap tabsOf'[w] = {}
        /\ \A w \in 1 .. MaxWorkspace : tabsOf[w] \subseteq tabsOf'[w]
        /\ \A w \in (1 .. MaxWorkspace) \ ids : tabsOf'[w] = tabsOf[w]
        /\ new \in tabsOf'[active]
        /\ \A w \in 1 .. MaxWorkspace : tabsOf'[w] \subseteq tabsOf[w] \union {new}
    <3>1. new \in open' /\ active \in ids
      BY <1>1 DEF TabsPlaced
    <3> DEFINE opened == open'
    <3>2. /\ tabsOf \in [1 .. MaxWorkspace -> SUBSET opened] /\ new \in opened
          /\ active \in 1 .. MaxWorkspace /\ ids \subseteq 1 .. MaxWorkspace
      BY <1>1, <1>2, <3>1
    <3> HIDE DEF new, opened
    <3>3. /\ AddTab(tabsOf, active, new) \in [1 .. MaxWorkspace -> SUBSET opened]
          /\ \A v, w \in ids : v # w =>
                AddTab(tabsOf, active, new)[v] \cap AddTab(tabsOf, active, new)[w] = {}
          /\ \A w \in 1 .. MaxWorkspace : tabsOf[w] \subseteq AddTab(tabsOf, active, new)[w]
          /\ \A w \in 1 .. MaxWorkspace : AddTab(tabsOf, active, new)[w] \subseteq tabsOf[w] \union {new}
          /\ \A w \in (1 .. MaxWorkspace) \ ids : AddTab(tabsOf, active, new)[w] = tabsOf[w]
          /\ active \in ids => new \in AddTab(tabsOf, active, new)[active]
      BY <1>2, <3>2, AddedOnce, ZenonT(60)
    <3> QED BY <2>1, <3>1, <3>3 DEF opened
  <2>3. Numbered'
    BY <1>1, <2>1, <2>2 DEF Numbered
  <2>4. Partitions'
    BY <1>1 DEF Partitions
  <2>5. TabsPlaced'
    <3>1. \A w \in ids : tabsOf'[w] \subseteq open' \ adrift'
      BY <1>1, <2>1, <2>2 DEF TabsPlaced, Numbered
    <3>2. \A t \in open' \ adrift' : \E w \in ids : t \in tabsOf'[w]
      <4>1. \A t \in open \ adrift : \E w \in ids : t \in tabsOf[w]
        BY DEF TabsPlaced
      <4>2. \A w \in ids : tabsOf[w] \subseteq tabsOf'[w]
        BY <1>1, <2>2
      <4>3. active \in ids
        BY DEF TabsPlaced
      <4> QED BY <1>1, <2>1, <2>2, <4>1, <4>2, <4>3
    <3>3. \A t \in open' \ (adrift' \union moved') : t \in tabsOf'[Home(workspaceId[t])']
      <4> SUFFICES ASSUME NEW t \in (open \union {new}) \ (adrift \union moved)
                   PROVE  t \in tabsOf'[Home(workspaceId[t])']
        BY <1>1, <2>1
      <4>1. CASE t = new
        BY <1>1, <2>1, <2>2, <4>1 DEF Home, TabsPlaced, Numbered
      <4>2. CASE t # new
        <5>1. workspaceId'[t] = workspaceId[t] /\ t \in open
          BY <1>1, <2>1, <4>2 DEF Numbered
        <5>2. t \in tabsOf[Home(workspaceId[t])] /\ Home(workspaceId[t]) \in 1 .. MaxWorkspace
          BY <1>1, <5>1 DEF TabsPlaced, Home, Numbered
        <5> QED BY <1>1, <2>2, <5>1, <5>2 DEF Home
      <4> QED BY <4>1, <4>2
    <3> QED BY <1>1, <2>2, <3>1, <3>2, <3>3 DEF TabsPlaced
  <2> QED BY <2>3, <2>4, <2>5
<1>4. CASE NewTabRequested
  <2>1. tabsOf' = tabsOf /\ adrift' = adrift \union {new} /\ workspaceId' = workspaceId
    BY <1>4 DEF NewTabRequested
  <2>2. Numbered' /\ Partitions'
    BY <1>1, <1>2, <2>1 DEF Numbered, Partitions
  <2>3. open' \ adrift' = open \ adrift
    BY <1>1, <2>1 DEF Numbered
  <2> QED BY <1>1, <1>2, <2>1, <2>2, <2>3 DEF TabsPlaced, Home
<1> QED BY <1>3, <1>4

\* A tab that closes leaves its workspace; the last one is followed by a new tab.
LEMMA CloseInv ==
    ASSUME WorkspacesInv, NEW tab \in 1 .. MaxTab, CloseTab(tab)
    PROVE  WorkspacesInv'
<1> USE DEF WorkspacesInv
<1>1. /\ tab \in open
      /\ ids' = ids /\ lastId' = lastId /\ active' = active
      /\ containers' = containers /\ retired' = retired
      /\ active \in 1 .. MaxWorkspace /\ ids \subseteq 1 .. MaxWorkspace /\ active \in 0 .. lastId
      /\ moved' = moved \ {tab} /\ adrift' = adrift \ {tab}
  BY DEF CloseTab, containerVars, Numbered, TabsPlaced
<1>2. /\ Without(tab) \in [1 .. MaxWorkspace -> SUBSET (open \ {tab})]
      /\ \A w \in 1 .. MaxWorkspace : Without(tab)[w] = tabsOf[w] \ {tab}
  BY WithoutTab
<1>3. \A v, w \in ids : v # w => Without(tab)[v] \cap Without(tab)[w] = {}
  BY <1>1, <1>2 DEF TabsPlaced
<1>4. \A t \in open \ (adrift \union {tab}) : \E w \in ids : t \in Without(tab)[w]
  BY <1>1, <1>2 DEF TabsPlaced
<1>5. CASE open # {tab}
  <2>1. /\ open' = open \ {tab} /\ tabsOf' = Without(tab) /\ lastTab' = lastTab
        /\ workspaceId' = [workspaceId EXCEPT ![tab] = NoWorkspace]
    BY <1>5 DEF CloseTab
  <2>2. Numbered' /\ Partitions'
    BY <1>1, <1>2, <2>1 DEF Numbered, Partitions, NoWorkspace
  <2>3. \A t \in open' : /\ workspaceId'[t] = workspaceId[t] /\ Home(workspaceId[t])' = Home(workspaceId[t])
                        /\ Home(workspaceId[t]) \in 1 .. MaxWorkspace
    BY <1>1, <2>1, <2>2 DEF Numbered, Home
  <2>4. \A t \in open' \ (adrift' \union moved') : t \in tabsOf'[Home(workspaceId[t])']
    BY <1>1, <1>2, <2>1, <2>3 DEF TabsPlaced
  <2>5. \A w \in ids : tabsOf'[w] \subseteq open' \ adrift'
    BY <1>1, <1>2, <2>1 DEF TabsPlaced
  <2> QED BY <1>1, <1>3, <1>4, <2>1, <2>2, <2>4, <2>5 DEF TabsPlaced
<1>6. CASE open = {tab}
  <2> DEFINE new == lastTab + 1
  <2>1. /\ lastTab' = new /\ open' = {new}
        /\ tabsOf' = AddTab(Without(tab), active, new)
        /\ workspaceId' = [workspaceId EXCEPT ![tab] = NoWorkspace, ![new] = active]
        /\ moved' = {} /\ adrift' = {} /\ new \in 1 .. MaxTab
    BY <1>1, <1>6 DEF CloseTab, Numbered
  <2>2. /\ Without(tab) \in [1 .. MaxWorkspace -> SUBSET {new}]
        /\ \A w \in 1 .. MaxWorkspace : Without(tab)[w] = {}
    BY <1>2, <1>6
  <2>3. /\ tabsOf' \in [1 .. MaxWorkspace -> SUBSET {new}]
        /\ \A v, w \in ids : v # w => tabsOf'[v] \cap tabsOf'[w] = {}
        /\ \A w \in 1 .. MaxWorkspace : Without(tab)[w] \subseteq tabsOf'[w]
        /\ \A w \in (1 .. MaxWorkspace) \ ids : tabsOf'[w] = Without(tab)[w]
        /\ new \in tabsOf'[active]
    <3>1. new \in open' /\ active \in ids
      BY <2>1 DEF TabsPlaced
    <3>2. /\ \A w \in 1 .. MaxWorkspace : new \notin Without(tab)[w]
          /\ Without(tab) \in [1 .. MaxWorkspace -> SUBSET open']
      BY <2>1, <2>2
    <3>3. tabsOf' \in [1 .. MaxWorkspace -> SUBSET open']
      <4> HIDE DEF new
      <4> QED BY <1>1, <1>3, <2>1, <3>1, <3>2, AddedOnce
    <3>4. open' = {new}
      BY <2>1
    <3> DEFINE tabs == Without(tab)  opened == open'
    <3>5. /\ tabs \in [1 .. MaxWorkspace -> SUBSET opened] /\ new \in opened
          /\ \A w \in 1 .. MaxWorkspace : new \notin tabs[w]
          /\ \A v, w \in ids : v # w => tabs[v] \cap tabs[w] = {}
          /\ active \in 1 .. MaxWorkspace /\ ids \subseteq 1 .. MaxWorkspace
      BY <1>1, <1>3, <3>1, <3>2
    <3>6. tabsOf' = AddTab(tabs, active, new)
      BY <2>1
    <3> HIDE DEF new, tabs, opened
    <3>7. /\ AddTab(tabs, active, new) \in [1 .. MaxWorkspace -> SUBSET opened]
          /\ \A v, w \in ids : v # w => AddTab(tabs, active, new)[v] \cap AddTab(tabs, active, new)[w] = {}
          /\ \A w \in 1 .. MaxWorkspace : tabs[w] \subseteq AddTab(tabs, active, new)[w]
          /\ \A w \in 1 .. MaxWorkspace : AddTab(tabs, active, new)[w] \subseteq tabs[w] \union {new}
          /\ \A w \in (1 .. MaxWorkspace) \ ids : AddTab(tabs, active, new)[w] = tabs[w]
          /\ active \in ids => new \in AddTab(tabs, active, new)[active]
      BY <3>5, AddedOnce, ZenonT(60)
    <3> QED BY <3>1, <3>3, <3>4, <3>6, <3>7 DEF tabs
  <2>4. lastTab \in Nat /\ new \in 1 .. MaxTab /\ tab \in 1 .. MaxTab
    BY <2>1 DEF Numbered
  <2>5. Numbered'
    <3>1. workspaceId' \in [1 .. MaxTab -> 0 .. lastId]
      BY <1>1, <2>1, <2>4 DEF Numbered, NoWorkspace
    <3>2. lastTab' \in 1 .. MaxTab /\ open' \subseteq 1 .. lastTab'
      BY <2>1, <2>4
    <3>3. \A w \in (1 .. MaxWorkspace) \ ids : tabsOf'[w] = {}
      BY <2>2, <2>3
    <3>4. tabsOf' \in [1 .. MaxWorkspace -> SUBSET open']
      BY <2>1, <2>3
    <3>5. moved' \subseteq open' /\ adrift' \subseteq open'
      BY <2>1
    <3> HIDE DEF new
    <3> QED BY <1>1, <3>1, <3>2, <3>3, <3>4, <3>5 DEF Numbered
  <2>6. Partitions'
    BY <1>1 DEF Partitions
  <2>7. TabsPlaced'
    <3>1. \A w \in ids : tabsOf'[w] \subseteq open' \ adrift'
      BY <1>1, <2>1, <2>3
    <3>2. active \in ids /\ workspaceId'[new] = active
      BY <1>1, <2>1 DEF TabsPlaced, Numbered
    <3>3. \A t \in open' : t \in tabsOf'[active] /\ Home(workspaceId[t])' = active
      BY <1>1, <2>1, <2>3, <3>2 DEF Home
    <3> QED BY <1>1, <2>3, <3>1, <3>2, <3>3 DEF TabsPlaced
  <2> QED BY <2>5, <2>6, <2>7
<1> QED BY <1>5, <1>6

\* A tab that is moved is in the target alone, and in none if there is no target.
LEMMA MoveInv ==
    ASSUME WorkspacesInv, NEW tab \in 1 .. MaxTab, NEW id \in 1 .. MaxWorkspace, MoveTab(tab, id)
    PROVE  WorkspacesInv'
<1> USE DEF WorkspacesInv
<1>1. /\ tab \in open /\ open' = open /\ lastTab' = lastTab
      /\ tabsOf' = AddTab(Without(tab), id, tab)
      /\ moved' = moved \union {tab} /\ workspaceId' = workspaceId
      /\ adrift' = IF id \in ids THEN adrift \ {tab} ELSE adrift \union {tab}
      /\ ids' = ids /\ lastId' = lastId /\ active' = active
      /\ containers' = containers /\ retired' = retired
      /\ ids \subseteq 1 .. MaxWorkspace
  BY DEF MoveTab, containerVars, Numbered
<1>2. /\ Without(tab) \in [1 .. MaxWorkspace -> SUBSET open]
      /\ \A w \in 1 .. MaxWorkspace : Without(tab)[w] = tabsOf[w] \ {tab} /\ tab \notin Without(tab)[w]
      /\ \A v, w \in ids : v # w => Without(tab)[v] \cap Without(tab)[w] = {}
  BY <1>1, WithoutTab DEF TabsPlaced
<1>3. /\ tabsOf' \in [1 .. MaxWorkspace -> SUBSET open]
      /\ \A v, w \in ids : v # w => tabsOf'[v] \cap tabsOf'[w] = {}
      /\ \A w \in 1 .. MaxWorkspace : Without(tab)[w] \subseteq tabsOf'[w]
      /\ \A w \in (1 .. MaxWorkspace) \ ids : tabsOf'[w] = Without(tab)[w]
      /\ id \in ids => tab \in tabsOf'[id]
  <2> DEFINE tabs == Without(tab)
  <2>1. /\ tabs \in [1 .. MaxWorkspace -> SUBSET open] /\ ids \subseteq 1 .. MaxWorkspace
        /\ tab \in open /\ \A w \in 1 .. MaxWorkspace : tab \notin tabs[w]
        /\ \A v, w \in ids : v # w => tabs[v] \cap tabs[w] = {}
        /\ tabsOf' = AddTab(tabs, id, tab)
    BY <1>1, <1>2
  <2> HIDE DEF tabs
  <2>2. /\ tabsOf' \in [1 .. MaxWorkspace -> SUBSET open]
        /\ \A v, w \in ids : v # w => tabsOf'[v] \cap tabsOf'[w] = {}
        /\ \A w \in 1 .. MaxWorkspace : tabs[w] \subseteq tabsOf'[w]
        /\ \A w \in (1 .. MaxWorkspace) \ ids : tabsOf'[w] = tabs[w]
        /\ id \in ids => tab \in tabsOf'[id]
    <3>1. /\ AddTab(tabs, id, tab) \in [1 .. MaxWorkspace -> SUBSET open]
          /\ \A v, w \in ids : v # w => AddTab(tabs, id, tab)[v] \cap AddTab(tabs, id, tab)[w] = {}
          /\ \A w \in 1 .. MaxWorkspace : tabs[w] \subseteq AddTab(tabs, id, tab)[w]
          /\ \A w \in 1 .. MaxWorkspace : AddTab(tabs, id, tab)[w] \subseteq tabs[w] \union {tab}
          /\ \A w \in (1 .. MaxWorkspace) \ ids : AddTab(tabs, id, tab)[w] = tabs[w]
          /\ id \in ids => tab \in AddTab(tabs, id, tab)[id]
      BY <2>1, AddedOnce, ZenonT(60)
    <3> QED BY <2>1, <3>1
  <2> QED BY <2>2 DEF tabs
<1>4. \A t \in open \ (adrift \union {tab}) : \E w \in ids : t \in tabsOf'[w]
  BY <1>1, <1>2, <1>3 DEF TabsPlaced
<1>5. Numbered'
  BY <1>1, <1>2, <1>3 DEF Numbered
<1>6. Partitions'
  BY <1>1 DEF Partitions
<1>7. TabsPlaced'
  <2>1. \A w \in ids : tabsOf'[w] \subseteq open' \ adrift'
    <3>1. CASE id \in ids
      <4>1. \A w \in 1 .. MaxWorkspace : tabsOf'[w] \subseteq Without(tab)[w] \union {tab}
        BY <1>1, <1>2, <3>1 DEF AddTab
      <4> QED BY <1>1, <1>2, <3>1, <4>1 DEF TabsPlaced
    <3>2. CASE id \notin ids
      <4>1. tabsOf' = Without(tab)
        BY <1>1, <3>2 DEF AddTab
      <4> QED BY <1>1, <1>2, <3>2, <4>1 DEF TabsPlaced
    <3> QED BY <3>1, <3>2
  <2>2. \A t \in open' \ adrift' : \E w \in ids : t \in tabsOf'[w]
    BY <1>1, <1>3, <1>4
  <2>3. \A t \in open' \ (adrift' \union moved') : t \in tabsOf'[Home(workspaceId[t])']
    <3> SUFFICES ASSUME NEW t \in open \ (adrift \union moved \union {tab})
                 PROVE  t \in tabsOf'[Home(workspaceId[t])']
      BY <1>1
    <3>1. t \in tabsOf[Home(workspaceId[t])] /\ Home(workspaceId[t]) \in 1 .. MaxWorkspace
      BY <1>1 DEF TabsPlaced, Home, Numbered
    <3>2. Home(workspaceId[t])' = Home(workspaceId[t])
      BY <1>1 DEF Home
    <3> QED BY <1>2, <1>3, <3>1, <3>2
  <2> QED BY <1>1, <1>3, <2>1, <2>2, <2>3 DEF TabsPlaced
<1> QED BY <1>5, <1>6, <1>7

LEMMA NextInv == WorkspacesInv /\ [WorkspacesNext]_workspaceVars => WorkspacesInv'
<1> SUFFICES ASSUME WorkspacesInv, [WorkspacesNext]_workspaceVars PROVE WorkspacesInv'
  OBVIOUS
<1>1. CASE Create \/ CreateContainer
  BY <1>1, CreateInv
<1>2. ASSUME NEW id \in 1 .. MaxWorkspace, Activate(id) \/ Delete(id) PROVE WorkspacesInv'
  BY <1>2, ActivateInv, DeleteInv
<1>3. CASE RemoveWorkspaces
  BY <1>3, RemoveInv
<1>4. CASE OpenNewTab \/ NewTabRequested
  BY <1>4, OpenInv
<1>5. ASSUME NEW tab \in 1 .. MaxTab, CloseTab(tab) PROVE WorkspacesInv'
  BY <1>5, CloseInv
<1>6. ASSUME NEW tab \in 1 .. MaxTab, NEW id \in 1 .. MaxWorkspace, MoveTab(tab, id)
      PROVE  WorkspacesInv'
  BY <1>6, MoveInv
<1>7. CASE UNCHANGED workspaceVars
  BY <1>7 DEF workspaceVars, tabVars, histories, containerVars, WorkspacesInv, Numbered, Partitions, TabsPlaced, Home
<1> QED BY <1>1, <1>2, <1>3, <1>4, <1>5, <1>6, <1>7 DEF WorkspacesNext

\* The workspaces partition the tabs, whatever is created, moved and deleted, and no
\* container gets the storage of one that was deleted.
THEOREM TabsStayPlaced == WorkspacesSpec => []TabsPlaced
<1>1. WorkspacesInv => TabsPlaced
  BY DEF WorkspacesInv
<1> QED BY InitInv, NextInv, <1>1, PTL DEF WorkspacesSpec

-----------------------------------------------------------------------------
(* The database and its caches (Storage).                                  *)

\* A bookmark is cached under its url, and nothing else is: what is deleted from
\* the cache for an id is deleted from the table for the url.
CachedUnderUrl == \A id \in DOMAIN bookmarkCache : bookmarkCache[id] = id

StorageInv == CachedUnderUrl /\ CacheOnDisk

\* What the cache shows, once each bookmark is under its url, is its keys.
LEMMA CachedUrls ==
    CachedUnderUrl => {bookmarkCache[id] : id \in DOMAIN bookmarkCache} = DOMAIN bookmarkCache
BY DEF CachedUnderUrl

LEMMA CachedUrlsNext ==
    CachedUnderUrl' =>
        {bookmarkCache'[id] : id \in DOMAIN bookmarkCache'} = DOMAIN bookmarkCache'
BY DEF CachedUnderUrl

LEMMA StoreInitInv == StoreInit => StorageInv
BY DEF StoreInit, StorageInv, CachedUnderUrl, CacheOnDisk, None

\* A start reads the caches from the tables.
LEMMA OpenInvStore == StorageInv /\ Open => StorageInv'
<1> SUFFICES ASSUME StorageInv, Open PROVE StorageInv'
  OBVIOUS
<1>1. /\ bookmarkCache' = [u \in bookmarks |-> u] /\ bookmarks' = bookmarks
      /\ settingsCache' = settings /\ settings' = settings
  BY DEF Open
<1>2. CachedUnderUrl'
  BY <1>1 DEF CachedUnderUrl
<1>3. CacheOnDisk'
  BY <1>1 DEF CacheOnDisk
<1> QED BY <1>2, <1>3 DEF StorageInv

\* A failed start and the end of the browser leave no database open.
LEMMA ClosedInvStore == StorageInv /\ (OpenFails \/ Exit) => StorageInv'
<1> SUFFICES ASSUME StorageInv, OpenFails \/ Exit PROVE StorageInv'
  OBVIOUS
<1>1. database' # "open"
  BY DEF OpenFails, Exit
<1>2. CachedUnderUrl'
  BY DEF OpenFails, Exit, cacheVars, None, StorageInv, CachedUnderUrl
<1> QED BY <1>1, <1>2 DEF StorageInv, CacheOnDisk

\* A setting changes in both, or in the cache alone, and then the write is lost.
LEMMA SettingInvStore ==
    ASSUME StorageInv, NEW key, NEW choice, Choose(key, choice) \/ DeleteSetting(key)
    PROVE  StorageInv'
<1> DEFINE value == Typed("text", choice)
<1>1. bookmarkCache' = bookmarkCache /\ database' = database
  BY DEF Choose, DeleteSetting
<1>2. CachedUnderUrl'
  BY <1>1 DEF StorageInv, CachedUnderUrl
<1>3. CASE NotWritten
  <2>1. database' = "open" => lost'
    BY <1>1, <1>3 DEF NotWritten
  <2> QED BY <1>2, <2>1 DEF StorageInv, CacheOnDisk
<1>4. CASE ~ NotWritten
  <2>1. /\ database = "open" /\ bookmarks' = bookmarks /\ lost' = lost
        /\ \/ /\ settingsCache' = Insert(settingsCache, key, value)
              /\ settings' = Insert(settings, key, value)
           \/ /\ settingsCache' = Restrict(settingsCache, DOMAIN settingsCache \ {key})
              /\ settings' = Restrict(settings, DOMAIN settings \ {key})
    BY <1>4 DEF Choose, DeleteSetting, StoreSetting, Commits
  <2>2. ~ lost => settingsCache' = settings'
    BY <2>1 DEF StorageInv, CacheOnDisk
  <2> QED BY <1>1, <1>2, <2>1, <2>2 DEF StorageInv, CacheOnDisk
<1> QED BY <1>3, <1>4

\* A bookmark is made or deleted in both, or in the cache alone.
LEMMA BookmarkInvStore ==
    ASSUME StorageInv, NEW url, ToggleBookmark(url)
    PROVE  StorageInv'
<1>1. settingsCache' = settingsCache /\ database' = database
  BY DEF ToggleBookmark
<1>2. \/ Bookmark(url) /\ bookmarkCache' = Insert(bookmarkCache, url, url)
      \/ /\ Unbookmark(url)
         /\ bookmarkCache' =
              Restrict(bookmarkCache, {id \in DOMAIN bookmarkCache : bookmarkCache[id] # url})
  BY DEF ToggleBookmark, Bookmark, Unbookmark
<1>3. CachedUnderUrl'
  <2>1. CASE bookmarkCache' = Insert(bookmarkCache, url, url)
    <3>1. /\ DOMAIN bookmarkCache' = DOMAIN bookmarkCache \union {url}
          /\ bookmarkCache'[url] = url
          /\ \A z \in DOMAIN bookmarkCache : z # url => bookmarkCache'[z] = bookmarkCache[z]
      BY <2>1 DEF Insert
    <3> QED BY <3>1 DEF StorageInv, CachedUnderUrl
  <2>2. CASE bookmarkCache' =
              Restrict(bookmarkCache, {id \in DOMAIN bookmarkCache : bookmarkCache[id] # url})
    BY <2>2 DEF StorageInv, CachedUnderUrl, Restrict
  <2> QED BY <1>2, <2>1, <2>2
<1>4. CASE NotWritten
  <2>1. database' = "open" => lost'
    BY <1>1, <1>4 DEF NotWritten
  <2> QED BY <1>3, <2>1 DEF StorageInv, CacheOnDisk
<1>5. CASE ~ NotWritten
  <2>1. database = "open" /\ settings' = settings /\ lost' = lost
    BY <1>2, <1>5 DEF Bookmark, Unbookmark, Commits
  <2>2. ~ lost => DOMAIN bookmarkCache = bookmarks
    BY <2>1, CachedUrls DEF StorageInv, CacheOnDisk
  <2>3. ~ lost => DOMAIN bookmarkCache' = bookmarks'
    <3>1. CASE Bookmark(url) /\ bookmarkCache' = Insert(bookmarkCache, url, url)
      <4>1. bookmarks' = bookmarks \union {url}
        BY <1>5, <3>1 DEF Bookmark, Commits
      <4>2. DOMAIN bookmarkCache' = DOMAIN bookmarkCache \union {url}
        BY <3>1 DEF Insert
      <4> QED BY <2>2, <4>1, <4>2
    <3>2. CASE /\ Unbookmark(url)
               /\ bookmarkCache' =
                    Restrict(bookmarkCache, {id \in DOMAIN bookmarkCache : bookmarkCache[id] # url})
      <4>1. bookmarks' = bookmarks \ {url}
        BY <1>5, <3>2 DEF Unbookmark, Commits
      <4>2. DOMAIN bookmarkCache' = DOMAIN bookmarkCache \ {url}
        BY <3>2 DEF Restrict, StorageInv, CachedUnderUrl
      <4> QED BY <2>2, <4>1, <4>2
    <3> QED BY <1>2, <3>1, <3>2
  <2>4. CacheOnDisk'
    BY <1>1, <1>3, <2>1, <2>3, CachedUrlsNext DEF StorageInv, CacheOnDisk
  <2> QED BY <1>3, <2>4 DEF StorageInv
<1> QED BY <1>4, <1>5

\* The history has no cache.
LEMMA HistoryInvStore ==
    ASSUME StorageInv, NEW url, StoreVisit(url) \/ DeleteVisit(url) \/ ClearHistory \/ SecondPasses
    PROVE  StorageInv'
<1>1. /\ database' = database /\ settings' = settings /\ bookmarks' = bookmarks
      /\ settingsCache' = settingsCache /\ bookmarkCache' = bookmarkCache /\ lost' = lost
  BY DEF StoreVisit, DeleteVisit, ClearHistory, SecondPasses, diskVars, cacheVars
<1> QED BY <1>1 DEF StorageInv, CachedUnderUrl, CacheOnDisk

LEMMA StoreNextInv == StorageInv /\ [StoreNext]_storeVars => StorageInv'
<1> SUFFICES ASSUME StorageInv, [StoreNext]_storeVars PROVE StorageInv'
  OBVIOUS
<1>1. CASE Open \/ OpenFails \/ Exit
  BY <1>1, OpenInvStore, ClosedInvStore
<1>2. ASSUME NEW key \in Keys, NEW choice \in Values, Choose(key, choice) PROVE StorageInv'
  BY <1>2, SettingInvStore
<1>3. ASSUME NEW key \in Keys, DeleteSetting(key) PROVE StorageInv'
  BY <1>3, SettingInvStore
<1>4. ASSUME NEW url \in Pages, ToggleBookmark(url) PROVE StorageInv'
  BY <1>4, BookmarkInvStore
<1>5. ASSUME NEW url \in Pages, StoreVisit(url) \/ DeleteVisit(url) PROVE StorageInv'
  BY <1>5, HistoryInvStore
<1>6. CASE ClearHistory \/ SecondPasses
  BY <1>6, HistoryInvStore
<1>7. CASE UNCHANGED storeVars
  BY <1>7 DEF storeVars, diskVars, cacheVars, StorageInv, CachedUnderUrl, CacheOnDisk
<1> QED BY <1>1, <1>2, <1>3, <1>4, <1>5, <1>6, <1>7 DEF StoreNext

\* Whatever is chosen, bookmarked and deleted, through any number of ends and starts of
\* the browser, the caches the window reads hold what the tables on the disk hold, until
\* a write fails after its cache was changed.
THEOREM CachesAreOnDisk == StoreSpec => []CacheOnDisk
<1>1. StorageInv => CacheOnDisk
  BY DEF StorageInv
<1> QED BY StoreInitInv, StoreNextInv, <1>1, PTL DEF StoreSpec

-----------------------------------------------------------------------------
(* The cookie jar (Cookies).                                               *)

\* The scope of a key is the site the cookie was set under if it was set with
\* isolation on and is not of one host, and none otherwise: whatever was switched since.
JarScoped ==
    \A k \in DOMAIN jar :
        k.scope = IF jar[k].isolated /\ ~ jar[k].hostOnly THEN jar[k].under ELSE NoHost

LEMMA CookiesInitInv == CookiesInit => JarScoped
BY DEF CookiesInit, JarScoped

\* What the jar keeps of a cookie beside its value is how it was set.
LEMMA KeptFields ==
    ASSUME NEW value
    PROVE  /\ Kept(value).hostOnly = value.hostOnly
           /\ Kept(value).under = top /\ Kept(value).isolated = isolate
BY DEF Kept

\* A new cookie is scoped as it is kept; the others stay.
LEMMA SetCookieInv ==
    ASSUME JarScoped, NEW domain, NEW name, NEW path, NEW value \in CookieValues, NEW host,
           SetCookie(domain, name, path, value, host)
    PROVE  JarScoped'
<1> DEFINE key == Key(Scope(value.hostOnly), domain, name, path)
           kept == Kept(value)
<1>1. jar' = [k \in DOMAIN jar \union {key} |-> IF k = key THEN kept ELSE jar[k]]
  BY DEF SetCookie
<1>2. kept.hostOnly = value.hostOnly /\ kept.under = top /\ kept.isolated = isolate
  BY KeptFields
<1>3. key.scope = IF kept.isolated /\ ~ kept.hostOnly THEN kept.under ELSE NoHost
  BY <1>2 DEF Key, Scope
<1> HIDE DEF key, kept
<1>4. /\ DOMAIN jar' = DOMAIN jar \union {key} /\ jar'[key] = kept
      /\ \A k \in DOMAIN jar : k # key => jar'[k] = jar[k]
  BY <1>1
<1> QED BY <1>3, <1>4 DEF JarScoped, NoHost

LEMMA ForgetInv == ASSUME JarScoped, NEW keys, Forget(keys) PROVE JarScoped'
BY DEF Forget, Restrict, JarScoped, NoHost

LEMMA CookiesNextInv == JarScoped /\ [CookiesNext]_cookieVars => JarScoped'
<1> SUFFICES ASSUME JarScoped, [CookiesNext]_cookieVars PROVE JarScoped'
  OBVIOUS
<1>1. ASSUME NEW domain \in Hosts, NEW name \in Names, NEW path \in Paths,
             NEW value \in CookieValues, NEW host \in Hosts,
             SetCookie(domain, name, path, value, host)
      PROVE  JarScoped'
  BY <1>1, SetCookieInv
<1>2. ASSUME NEW keys, Forget(keys) PROVE JarScoped'
  BY <1>2, ForgetInv
<1>3. CASE jar' = jar
  BY <1>3 DEF JarScoped, NoHost
<1> QED BY <1>1, <1>2, <1>3
    DEF CookiesNext, RemoveCookie, RemoveForDomain, RemoveForTopLevel, ClearCookies,
        SetTopLevelDomain, SetPolicy, SetIsolate, Ticks, cookieVars

\* For all hosts, sites and sequences of settings: while isolation is on, a request made
\* under a site reads, besides cookies of one host, those set under that site and no
\* other, and it reads all of those that match, whatever was switched in between.
THEOREM CookiesAreIsolated == CookiesSpec => []CookiesIsolated
<1>1. JarScoped => CookiesIsolated
  <2> SUFFICES ASSUME JarScoped, isolate, top # NoHost,
                      NEW host \in Hosts, NEW path \in Paths
               PROVE  /\ \A k \in GetForUrl(TRUE, host, path) : jar[k].hostOnly \/ jar[k].under = top
                      /\ \A k \in DOMAIN jar :
                            (/\ jar[k].under = top /\ jar[k].isolated /\ ~ Expired(jar[k])
                             /\ DomainMatches(k.domain, host) /\ PathMatches(k.path, path))
                                => k \in GetForUrl(TRUE, host, path)
    BY DEF CookiesIsolated
  <2>1. ASSUME NEW k \in GetForUrl(TRUE, host, path)
        PROVE  jar[k].hostOnly \/ jar[k].under = top
    <3>1. k \in DOMAIN jar /\ ~ ForeignScope(k, jar[k])
      BY <2>1 DEF GetForUrl
    <3> QED BY <3>1 DEF ForeignScope, JarScoped
  <2>2. ASSUME NEW k \in DOMAIN jar,
               jar[k].under = top, jar[k].isolated, ~ Expired(jar[k]),
               DomainMatches(k.domain, host), PathMatches(k.path, path)
        PROVE  k \in GetForUrl(TRUE, host, path)
    <3>1. ~ ForeignScope(k, jar[k])
      BY <2>2 DEF ForeignScope, JarScoped
    <3> QED BY <2>2, <3>1 DEF GetForUrl
  <2> QED BY <2>1, <2>2
<1> QED BY CookiesInitInv, CookiesNextInv, <1>1, PTL DEF CookiesSpec

-----------------------------------------------------------------------------
(* What pages keep.                                                        *)

\* What is stored is numbers, and finitely many of them.
ItemsCounted ==
    /\ DOMAIN items \subseteq Nat /\ IsFiniteSet(DOMAIN items)
    /\ \A k \in DOMAIN items : items[k] \in Nat
    /\ IsFiniteSet(Bytes(items, DOMAIN items))

QuotaKept == DOMAIN items # {} => TotalBytes <= Quota + Max(DOMAIN items)

\* A key of the table is made of the names of its record.
RecordsNamed ==
    \A key \in DOMAIN records :
        \E db \in DbNames, store \in StoreNames, name \in RecordNames :
            records[key] = <<db, store, name>> /\ key = RecordKey(db, store, name)

RecordsListed == \A key \in DOMAIN records : records[key][1] \in DOMAIN meta \/ key \in stale

WebInv == ItemsCounted /\ QuotaKept /\ RecordsNamed /\ RecordsListed

\* A finite set of numbers has a greatest one: the one that the fewest are not
\* below.
LEMMA MaxOfSet ==
    ASSUME NEW S, S \subseteq Nat, S # {}, IsFiniteSet(S)
    PROVE  Max(S) \in S /\ \A y \in S : y <= Max(S)
<1> DEFINE Above(x) == {y \in S : y >= x}
           T == {Cardinality(Above(x)) : x \in S}
<1>1. \A x \in S : IsFiniteSet(Above(x)) /\ Cardinality(Above(x)) \in Nat
  <2> TAKE x \in S
  <2>1. Above(x) \in SUBSET S
    OBVIOUS
  <2> HIDE DEF Above
  <2>2. IsFiniteSet(Above(x))
    BY <2>1, FS_Subset
  <2> QED BY <2>2, FS_CardinalityType
<1>2. PICK c \in T : \A d \in T : c <= d
  <2>1. T \subseteq Nat /\ T # {}
    BY <1>1
  <2> HIDE DEF T
  <2> QED BY <2>1, LeastNumber
<1>3. PICK x \in S : c = Cardinality(Above(x))
  BY <1>2
<1>4. ASSUME NEW y \in S PROVE y <= x
  <2> SUFFICES ASSUME y > x PROVE FALSE
    OBVIOUS
  <2>1. x \in Nat /\ y \in Nat
    OBVIOUS
  <2>2. Above(y) \subseteq Above(x) /\ x \in Above(x) /\ x \notin Above(y)
    <3>1. \A z \in S : z \in Nat /\ (z >= y => z >= x)
      BY <2>1
    <3>2. x >= x /\ ~ (x >= y)
      BY <2>1
    <3> QED BY <3>1, <3>2
  <2>3. Cardinality(Above(x)) <= Cardinality(Above(y))
    BY <1>2, <1>3
  <2> HIDE DEF Above
  <2>4. Above(y) \in SUBSET Above(x)
    BY <2>2
  <2>5. Cardinality(Above(y)) <= Cardinality(Above(x))
    BY <1>1, <2>4, FS_Subset
  <2>6. Cardinality(Above(x)) = Cardinality(Above(y))
    <3> DEFINE a == Cardinality(Above(x))
               b == Cardinality(Above(y))
    <3>1. a \in Nat /\ b \in Nat /\ a <= b /\ b <= a
      BY <1>1, <2>3, <2>5
    <3> HIDE DEF a, b
    <3>2. a = b
      BY ONLY <3>1
    <3> QED BY <3>2 DEF a, b
  <2>7. Above(x) = Above(y)
    BY <1>1, <2>4, <2>6, FS_Subset
  <2> QED BY <2>2, <2>7
<1>5. \E z \in S : \A y \in S : z >= y
  <2>1. \A y \in S : x >= y
    BY <1>4
  <2> QED BY <2>1
<1>6. Max(S) \in S /\ \A y \in S : Max(S) >= y
  BY <1>5 DEF Max
<1> QED BY <1>6

\* One more key.
LEMMA BytesAdded ==
    ASSUME NEW f, NEW S, NEW k \in Nat, k \notin S, f[k] \in Nat, IsFiniteSet(Bytes(f, S))
    PROVE  /\ IsFiniteSet(Bytes(f, S \cup {k}))
           /\ Cardinality(Bytes(f, S)) \in Nat
           /\ Cardinality(Bytes(f, S \cup {k})) = Cardinality(Bytes(f, S)) + k + f[k]
<1> DEFINE P == {k} \X (1 .. k + f[k])
           B == Bytes(f, S)
<1>1. IsFiniteSet(P) /\ Cardinality(P) = k + f[k]
  <2>1. IsFiniteSet({k}) /\ Cardinality({k}) = 1
    BY FS_Singleton
  <2> DEFINE n == k + f[k]
  <2>2. n \in Nat
    OBVIOUS
  <2> HIDE DEF n
  <2>3. IsFiniteSet(1 .. n) /\ Cardinality(1 .. n) = n
    <3>1. 1 \in Int /\ n \in Int
      BY <2>2
    <3>2. IsFiniteSet(1 .. n) /\ Cardinality(1 .. n) = IF 1 > n THEN 0 ELSE n - 1 + 1
      BY <3>1, FS_Interval
    <3> QED BY <2>2, <3>2
  <2>4. IsFiniteSet({k} \X (1 .. n)) /\ Cardinality({k} \X (1 .. n)) = 1 * n
    <3> DEFINE C == {k}
               D == 1 .. n
    <3>1. IsFiniteSet(C) /\ Cardinality(C) = 1 /\ IsFiniteSet(D) /\ Cardinality(D) = n
      BY <2>1, <2>3
    <3> HIDE DEF C, D
    <3>2. IsFiniteSet(C \X D) /\ Cardinality(C \X D) = Cardinality(C) * Cardinality(D)
      BY <3>1, FS_Product
    <3> QED BY <3>1, <3>2 DEF C, D
  <2> QED BY <2>2, <2>4 DEF n
<1>2. Bytes(f, S \cup {k}) = B \cup P
  BY DEF Bytes
<1>3. B \cap P = {}
  BY DEF Bytes
<1> HIDE DEF P, B
<1>4. IsFiniteSet(B)
  BY DEF B
<1>5. IsFiniteSet(B \cup P) /\ Cardinality(B \cup P) = Cardinality(B) + Cardinality(P) - Cardinality(B \cap P)
  BY <1>1, <1>4, FS_Union
<1>6. Cardinality(B \cap P) = 0
  BY <1>3, FS_EmptySet
<1>7. Cardinality(B) \in Nat
  BY <1>4, FS_CardinalityType
<1>8. Cardinality(B \cup P) = Cardinality(B) + k + f[k]
  <2>1. f[k] \in Nat /\ k \in Nat
    OBVIOUS
  <2> QED BY <1>1, <1>5, <1>6, <1>7, <2>1
<1> QED BY <1>2, <1>5, <1>7, <1>8 DEF B

\* One key less.
LEMMA BytesRemoved ==
    ASSUME NEW f, NEW S, NEW k \in S, k \in Nat, f[k] \in Nat, IsFiniteSet(Bytes(f, S))
    PROVE  /\ IsFiniteSet(Bytes(f, S \ {k}))
           /\ Cardinality(Bytes(f, S \ {k})) \in Nat
           /\ Cardinality(Bytes(f, S)) = Cardinality(Bytes(f, S \ {k})) + k + f[k]
<1> DEFINE R == S \ {k}
<1>1. Bytes(f, R) \in SUBSET Bytes(f, S)
  BY DEF Bytes
<1>2. S = R \cup {k} /\ k \notin R
  OBVIOUS
<1>3. IsFiniteSet(Bytes(f, R))
  BY <1>1, FS_Subset
<1> HIDE DEF R
<1>4. /\ Cardinality(Bytes(f, R)) \in Nat
      /\ Cardinality(Bytes(f, R \cup {k})) = Cardinality(Bytes(f, R)) + k + f[k]
  BY <1>2, <1>3, BytesAdded
<1> QED BY <1>2, <1>3, <1>4 DEF R

-----------------------------------------------------------------------------
(* The steps.                                                              *)

\* A write is refused above the quota, in which the length of a key that is new is
\* left out; the key is at most the longest one.
LEMMA SetItemInv ==
    ASSUME ItemsCounted, QuotaKept, NEW key \in ItemKeys, NEW length \in Lengths,
           SetItem(key, length)
    PROVE  ItemsCounted' /\ QuotaKept'
<1> DEFINE D == DOMAIN items
           R == D \ {key}
           g == Inserted(items, key, length)
<1>1. key \in Nat /\ length \in Nat /\ Quota \in Nat
  BY WebAssumption
<1>2. items' = g /\ TotalAfter(key, length) <= Quota
  BY DEF SetItem
<1>3. DOMAIN g = R \cup {key} /\ g[key] = length /\ key \notin R /\ \A k \in R : g[k] = items[k]
  BY DEF Inserted
<1>4. /\ D \subseteq Nat /\ IsFiniteSet(D) /\ IsFiniteSet(Bytes(items, D))
      /\ \A k \in D : items[k] \in Nat
  BY DEF ItemsCounted
<1> HIDE DEF g
<1>5. Bytes(g, R) = Bytes(items, R)
  BY <1>3 DEF Bytes
<1>6. IsFiniteSet(Bytes(items, R))
  <2>1. Bytes(items, R) \in SUBSET Bytes(items, D)
    BY DEF Bytes
  <2> HIDE DEF D, R
  <2> QED BY <1>4, <2>1, FS_Subset
<1>7. IsFiniteSet(D \cup {key})
  <2> HIDE DEF D
  <2> QED BY <1>4, FS_AddElement
<1>8. R \cup {key} = D \cup {key}
  OBVIOUS
<1> DEFINE before == Cardinality(Bytes(items, D))
           rest == Cardinality(Bytes(items, R))
           after == Cardinality(Bytes(g, R \cup {key}))
<1>9. IsFiniteSet(Bytes(g, R \cup {key})) /\ rest \in Nat /\ after = rest + key + length
  <2> HIDE DEF R
  <2> QED BY <1>1, <1>3, <1>5, <1>6, BytesAdded
<1>10. key \in D => before = rest + key + items[key]
  BY <1>1, <1>4, BytesRemoved
<1>11. key \notin D => before = rest
  <2>1. key \notin D => R = D
    OBVIOUS
  <2> QED BY <2>1
<1>12. after <= Quota + key
  <2>1. before + (key + length) - (key + OldLength(key)) <= Quota
    BY <1>2 DEF TotalAfter, TotalBytes
  <2>2. CASE key \in D
    <3>1. OldLength(key) = items[key] /\ items[key] \in Nat /\ before = rest + key + items[key]
      BY <1>4, <1>10, <2>2 DEF OldLength
    <3> HIDE DEF before, after, rest
    <3> DEFINE old == items[key]
    <3>2. old \in Nat /\ before = rest + key + old /\ before + (key + length) - (key + old) <= Quota
      BY <2>1, <3>1
    <3> HIDE DEF old
    <3> QED BY <1>1, <1>9, <3>2
  <2>3. CASE key \notin D
    <3>1. OldLength(key) = 0 /\ before = rest
      BY <1>11, <2>3 DEF OldLength
    <3> HIDE DEF before, after, rest
    <3> QED BY <1>1, <1>9, <2>1, <3>1
  <2> QED BY <2>2, <2>3
<1>13. DOMAIN items' = D \cup {key} /\ Bytes(items', DOMAIN items') = Bytes(g, R \cup {key})
  BY <1>2, <1>3, <1>8
<1>14. ItemsCounted'
  <2>1. \A k \in R \cup {key} : g[k] \in Nat
    BY <1>1, <1>3, <1>4
  <2>2. D \cup {key} \subseteq Nat
    BY <1>1, <1>4
  <2> HIDE DEF D, R
  <2> QED BY <1>2, <1>7, <1>8, <1>9, <1>13, <2>1, <2>2 DEF ItemsCounted
<1>15. QuotaKept'
  <2> DEFINE S == D \cup {key}
  <2>1. S \subseteq Nat /\ S # {} /\ key \in S
    BY <1>1, <1>4
  <2> HIDE DEF S
  <2>2. IsFiniteSet(S)
    BY <1>7 DEF S
  <2>3. Max(S) \in S /\ \A y \in S : y <= Max(S)
    BY <2>1, <2>2, MaxOfSet
  <2>4. Max(S) \in Nat /\ key <= Max(S)
    BY <2>1, <2>3
  <2> HIDE DEF after
  <2>5. after <= Quota + Max(S)
    BY <1>1, <1>9, <1>12, <2>4
  <2>6. DOMAIN items' = S /\ TotalBytes' = after
    BY <1>13 DEF S, TotalBytes, after
  <2> QED BY <2>5, <2>6 DEF QuotaKept
<1> QED BY <1>14, <1>15

\* With the longest key its own length goes, and with another one that one's.
LEMMA RemoveItemInv ==
    ASSUME ItemsCounted, QuotaKept, NEW key \in ItemKeys, RemoveItem(key)
    PROVE  ItemsCounted' /\ QuotaKept'
<1> DEFINE D == DOMAIN items
           R == D \ {key}
           g == [k \in R |-> items[k]]
<1>1. key \in Nat /\ Quota \in Nat
  BY WebAssumption
<1>2. items' = g
  BY DEF RemoveItem, Restrict
<1>3. DOMAIN g = R /\ \A k \in R : g[k] = items[k]
  OBVIOUS
<1>4. /\ D \subseteq Nat /\ IsFiniteSet(D) /\ IsFiniteSet(Bytes(items, D))
      /\ \A k \in D : items[k] \in Nat
  BY DEF ItemsCounted
<1> HIDE DEF g
<1>5. Bytes(g, R) = Bytes(items, R)
  BY <1>3 DEF Bytes
<1>6. IsFiniteSet(Bytes(items, R))
  <2>1. Bytes(items, R) \in SUBSET Bytes(items, D)
    BY DEF Bytes
  <2> HIDE DEF D, R
  <2> QED BY <1>4, <2>1, FS_Subset
<1>7. IsFiniteSet(R)
  <2>1. R \in SUBSET D
    OBVIOUS
  <2> HIDE DEF D, R
  <2> QED BY <1>4, <2>1, FS_Subset
<1>8. ItemsCounted'
  <2>1. R \subseteq Nat /\ \A k \in R : g[k] \in Nat
    BY <1>3, <1>4
  <2> HIDE DEF R
  <2> QED BY <1>2, <1>3, <1>5, <1>6, <1>7, <2>1 DEF ItemsCounted
<1>9. QuotaKept'
  <2> SUFFICES ASSUME R # {} PROVE Cardinality(Bytes(items, R)) <= Quota + Max(R)
    BY <1>2, <1>3, <1>5 DEF QuotaKept, TotalBytes
  <2> DEFINE before == Cardinality(Bytes(items, D))
             after == Cardinality(Bytes(items, R))
  <2>1. Max(D) \in D /\ \A y \in D : y <= Max(D)
    <3>1. D # {} /\ D \subseteq Nat /\ IsFiniteSet(D)
      BY <1>4
    <3> HIDE DEF D
    <3> QED BY <3>1, MaxOfSet
  <2>2. Max(R) \in R /\ \A y \in R : y <= Max(R)
    <3>1. R # {} /\ R \subseteq Nat /\ IsFiniteSet(R)
      BY <1>4, <1>7
    <3> HIDE DEF R
    <3> QED BY <3>1, MaxOfSet
  <2>3. before <= Quota + Max(D)
    BY DEF QuotaKept, TotalBytes
  <2>4. CASE key \notin D
    <3>1. R = D
      BY <2>4
    <3> QED BY <2>3, <3>1
  <2>5. CASE key \in D
    <3>1. after \in Nat /\ before = after + key + items[key] /\ items[key] \in Nat
      BY <1>1, <1>4, <2>5, BytesRemoved
    <3>2. Max(R) \in Nat /\ Max(D) \in Nat
      BY <1>4, <2>1, <2>2
    <3>3. Max(D) <= key \/ Max(D) <= Max(R)
      BY <2>1, <2>2
    <3> DEFINE m == Max(D)
               n == Max(R)
               old == items[key]
    <3>4. m \in Nat /\ n \in Nat /\ old \in Nat /\ (m <= key \/ m <= n)
          /\ before = after + key + old /\ before <= Quota + m /\ after \in Nat
      BY <2>3, <3>1, <3>2, <3>3
    <3> HIDE DEF m, n, old, before, after
    <3>5. after <= Quota + n
      BY <1>1, <3>4
    <3> QED BY <3>5 DEF after, n
  <2> QED BY <2>4, <2>5
<1> QED BY <1>8, <1>9

LEMMA ClearItemsInv ==
    ASSUME items' = <<>>
    PROVE  ItemsCounted' /\ QuotaKept'
<1>1. DOMAIN <<>> = {}
  OBVIOUS
<1>2. Bytes(<<>>, {}) = {}
  BY DEF Bytes
<1> QED BY <1>1, <1>2, FS_EmptySet DEF ItemsCounted, QuotaKept

\* Taking keys out of the table.
LEMMA DropInv ==
    ASSUME RecordsNamed, NEW keys, Drop(keys),
           \A key \in DOMAIN records \ keys : records[key][1] \in DOMAIN meta' \/ key \in stale
    PROVE  RecordsNamed' /\ RecordsListed'
<1>1. DOMAIN records' = DOMAIN records \ keys /\ stale' = stale \ keys
      /\ \A key \in DOMAIN records \ keys : records'[key] = records[key]
  BY DEF Drop, Restrict
<1> QED BY <1>1 DEF RecordsNamed, RecordsListed

LEMMA PutInv ==
    ASSUME RecordsNamed, RecordsListed, NEW db \in DbNames, NEW store \in StoreNames,
           NEW name \in RecordNames, Put(db, store, name)
    PROVE  RecordsNamed' /\ RecordsListed'
<1> DEFINE key == RecordKey(db, store, name)
           r == <<db, store, name>>
<1>1. /\ DOMAIN records' = DOMAIN records \cup {key} /\ records'[key] = r
      /\ \A k \in DOMAIN records \ {key} : records'[k] = records[k]
      /\ meta' = meta
      /\ stale' = IF db \in DOMAIN meta THEN stale \ {key} ELSE stale \cup {key}
  BY DEF Put, Inserted
<1>2. r[1] = db
  OBVIOUS
<1>3. RecordsNamed'
  BY <1>1 DEF RecordsNamed
<1> HIDE DEF key, r
<1>4. RecordsListed'
  BY <1>1, <1>2 DEF RecordsListed
<1> QED BY <1>3, <1>4

\* Every record of the database has a key that begins with its name.
LEMMA DeleteDatabaseInv ==
    ASSUME RecordsNamed, RecordsListed, NEW db \in DbNames, DeleteDatabase(db)
    PROVE  RecordsNamed' /\ RecordsListed'
<1>1. DOMAIN meta' = DOMAIN meta \ {db} /\ Drop(Below(db))
  BY DEF DeleteDatabase, Restrict
<1>2. ASSUME NEW key \in DOMAIN records, records[key][1] = db PROVE key \in Below(db)
  <2>1. PICK d \in DbNames, store \in StoreNames, name \in RecordNames :
              records[key] = <<d, store, name>> /\ key = d \o store \o name
    BY DEF RecordsNamed, RecordKey
  <2>2. d = db
    BY <1>2, <2>1
  <2> DEFINE A == Range(db) \cup Range(store) \cup Range(name)
             tail == store \o name
  <2>3. /\ db \in Seq(A) /\ store \in Seq(A) /\ name \in Seq(A)
        /\ store # <<>>
    <3>1. db \in Seq(Range(db)) /\ store \in Seq(Range(store)) /\ name \in Seq(Range(name))
          /\ store # <<>>
      BY WebAssumption
    <3>2. Range(db) \subseteq A /\ Range(store) \subseteq A /\ Range(name) \subseteq A
      OBVIOUS
    <3> HIDE DEF A
    <3>3. Seq(Range(db)) \subseteq Seq(A) /\ Seq(Range(store)) \subseteq Seq(A)
          /\ Seq(Range(name)) \subseteq Seq(A)
      BY <3>2
    <3> QED BY <3>1, <3>3
  <2> HIDE DEF A
  <2>4. /\ db \o store \in Seq(A) /\ Len(db \o store) = Len(db) + Len(store)
        /\ \A i \in 1 .. Len(db) : (db \o store)[i] = db[i]
    BY <2>3, ConcatAt
  <2>5. /\ key \in Seq(A) /\ Len(key) = Len(db) + Len(store) + Len(name)
        /\ \A i \in 1 .. Len(db) + Len(store) : key[i] = (db \o store)[i]
    BY <2>1, <2>2, <2>3, <2>4, ConcatAt
  <2>6. Len(db) \in Nat /\ Len(store) \in Nat \ {0} /\ Len(name) \in Nat
    BY <2>3
  <2>7. Len(key) > Len(db) /\ \A i \in 1 .. Len(db) : key[i] = db[i]
    BY <2>4, <2>5, <2>6
  <2>8. SubSeq(db, 1, Len(db)) = SubSeq(key, 1, Len(db))
    <3> DEFINE n == Len(db)
    <3>1. n \in Nat /\ Len(key) \in Nat /\ n <= Len(key)
      BY <2>5, <2>6, <2>7
    <3>2. SubSeq(db, 1, n) = [i \in 1 .. n |-> db[i]] /\ SubSeq(key, 1, n) = [i \in 1 .. n |-> key[i]]
      BY <2>3, <2>5, <3>1
    <3> QED BY <2>7, <3>2
  <2> QED BY <2>5, <2>6, <2>7, <2>8 DEF Below, IsPrefix
<1>3. \A key \in DOMAIN records \ Below(db) : records[key][1] \in DOMAIN meta' \/ key \in stale
  BY <1>1, <1>2 DEF RecordsListed
<1> QED BY <1>1, <1>3, DropInv

LEMMA WebNextInv == WebInv /\ [ItemsNext \/ DatabasesNext]_webVars => WebInv'
<1> SUFFICES ASSUME WebInv, [ItemsNext \/ DatabasesNext]_webVars PROVE WebInv'
  OBVIOUS
<1>0. ItemsCounted /\ QuotaKept /\ RecordsNamed /\ RecordsListed
  BY DEF WebInv
<1>1. ASSUME items' = items PROVE ItemsCounted' /\ QuotaKept'
  BY <1>0, <1>1 DEF ItemsCounted, QuotaKept, TotalBytes
<1>2. ASSUME records' = records, stale' = stale, DOMAIN meta \subseteq DOMAIN meta'
      PROVE  RecordsNamed' /\ RecordsListed'
  BY <1>0, <1>2 DEF RecordsNamed, RecordsListed
<1>3. CASE UNCHANGED webVars
  BY <1>1, <1>2, <1>3 DEF webVars, WebInv
<1>4. CASE \E key \in ItemKeys, length \in Lengths : SetItem(key, length)
  <2>1. ItemsCounted' /\ QuotaKept'
    BY <1>0, <1>4, SetItemInv
  <2> QED BY <1>2, <1>4, <2>1 DEF SetItem, WebInv
<1>5. CASE \E key \in ItemKeys : RemoveItem(key)
  <2>1. ItemsCounted' /\ QuotaKept'
    BY <1>0, <1>5, RemoveItemInv
  <2> QED BY <1>2, <1>5, <2>1 DEF RemoveItem, WebInv
<1>6. CASE ClearItems
  BY <1>2, <1>6, ClearItemsInv DEF ClearItems, WebInv
<1>7. CASE PageEnds \/ \E key \in ItemKeys : SetSessionItem(key)
  BY <1>1, <1>2, <1>7 DEF PageEnds, SetSessionItem, SetSession, WebInv
<1>8. CASE \E db \in DbNames, version \in Versions : OpenDatabase(db, version)
  <2>1. DOMAIN meta \subseteq DOMAIN meta' /\ records' = records /\ stale' = stale /\ items' = items
    BY <1>8 DEF OpenDatabase, Inserted
  <2> QED BY <1>1, <1>2, <2>1 DEF WebInv
<1>9. CASE \E db \in DbNames, store \in StoreNames : CreateObjectStore(db, store)
  <2>1. DOMAIN meta \subseteq DOMAIN meta' /\ records' = records /\ stale' = stale /\ items' = items
    BY <1>9 DEF CreateObjectStore
  <2> QED BY <1>1, <1>2, <2>1 DEF WebInv
<1>10. CASE \E db \in DbNames, store \in StoreNames : ClearStore(db, store)
  <2>1. \E keys : Drop(keys) /\ meta' = meta /\ items' = items
    BY <1>10 DEF ClearStore
  <2> QED BY <1>0, <1>1, <2>1, DropInv DEF WebInv, RecordsListed
<1>11. CASE \E db \in DbNames, store \in StoreNames, name \in RecordNames : DeleteRecord(db, store, name)
  <2>1. \E keys : Drop(keys) /\ meta' = meta /\ items' = items
    BY <1>11 DEF DeleteRecord
  <2> QED BY <1>0, <1>1, <2>1, DropInv DEF WebInv, RecordsListed
<1>12. CASE \E db \in DbNames, store \in StoreNames, name \in RecordNames : Put(db, store, name)
  <2>1. RecordsNamed' /\ RecordsListed'
    BY <1>0, <1>12, PutInv
  <2> QED BY <1>1, <1>12, <2>1 DEF Put, WebInv
<1>13. CASE \E db \in DbNames : DeleteDatabase(db)
  <2>1. RecordsNamed' /\ RecordsListed'
    BY <1>0, <1>13, DeleteDatabaseInv
  <2> QED BY <1>1, <1>13, <2>1 DEF DeleteDatabase, WebInv
<1> QED
  BY <1>3, <1>4, <1>5, <1>6, <1>7, <1>8, <1>9, <1>10, <1>11, <1>12, <1>13 DEF ItemsNext, DatabasesNext

\* Whatever is written and removed, an origin exceeds its quota by less than its
\* longest key (LocalStorageStore::set); and a record of a deleted database was
\* written after the deletion, however the names begin (delete_database).
THEOREM StoresStayBounded == WebSpec => []StoresBounded
<1>1. WebInit => WebInv
  <2>1. ASSUME WebInit PROVE items = <<>> /\ DOMAIN records = {}
    BY <2>1 DEF WebInit
  <2>2. DOMAIN <<>> = {} /\ Bytes(<<>>, {}) = {}
    BY DEF Bytes
  <2> QED
    BY <2>1, <2>2, FS_EmptySet DEF WebInv, ItemsCounted, QuotaKept, RecordsNamed, RecordsListed
<1>2. WebInv => StoresBounded
  BY DEF WebInv, QuotaKept, RecordsListed, StoresBounded
<1> QED BY <1>1, <1>2, WebNextInv, PTL DEF WebSpec

-----------------------------------------------------------------------------
(* The address bar.                                                        *)

BarSpec == BarInit /\ [][BarNext]_barVars

BarTexts == TypedTexts \cup LocalQueries \cup {NoText, Address}

Requests == [kind : {"suggest", "local"}, id : Nat, query : BarTexts]

RequestAnswers ==
    [kind : {"suggest", "local"}, id : Nat, query : BarTexts, phrases : Seq(BarTexts)]

\* Only the text of a bar has a type, whatever is offered.
Bars(O, R, N) == [text : BarTexts, focused : BOOLEAN, offers : O, selected : N, show : BOOLEAN,
                  remote : R]

IsBar(b) == \E O, R, N : b \in Bars(O, R, N)

AskFields == [last : BarTexts, timer : {"on", "off"}, pending : Nat]

LocalFields == [query : BarTexts, results : BarTexts, pending : Nat]

IsWindow(w) ==
    /\ \E B : w \in [bar : B, ask : AskFields, local : LocalFields]
    /\ IsBar(w.bar)

\* What the window goes by when it handles an answer: its suggestions and its
\* local results are of the texts they were asked for.
BarGood(w, next) ==
    /\ IsWindow(w)
    /\ w.ask.pending \in 0 .. next - 1
    /\ \A i \in DOMAIN w.bar.remote : w.bar.remote[i] = w.ask.last
    /\ w.local.pending = NoRequest /\ w.local.query # NoText => w.local.results = w.local.query

BarWindow == [bar |-> bar, ask |-> ask, local |-> local]

IsDue(r, a, next) ==
    /\ r.id \in 1 .. next - 1
    /\ r.kind = "suggest" /\ r.id = a.pending => r.query = a.last

OfItsQuery(e) == \A i \in DOMAIN e.phrases : e.phrases[i] = e.query

\* A number is that of one request: the one that is pending is for the text taken
\* last, and so is its answer.
BarQueues ==
    /\ commands \in Seq(Requests) /\ events \in Seq(RequestAnswers)
    /\ \A r \in ToSet(commands) \cup ToSet(events) : IsDue(r, ask, nextRequest)
    /\ \A e \in ToSet(events) : OfItsQuery(e)

BarInv == nextRequest \in Nat \ {0} /\ BarGood(BarWindow, nextRequest) /\ BarQueues

-----------------------------------------------------------------------------
(* Handling the answers.                                                   *)

LEMMA UpdatedBar ==
    ASSUME NEW b, IsBar(b)
    PROVE  /\ IsBar(Updated(b)) /\ IsBar(Cleared(b))
           /\ Updated(b).text = b.text /\ Cleared(b).text = b.text
           /\ Updated(b).remote \in {b.remote, <<>>} /\ Cleared(b).remote = <<>>
<1>0. PICK O, R, N : b \in Bars(O, R, N)
  BY DEF IsBar
<1>1. ASSUME NEW o
      PROVE  LET c == [b EXCEPT !.offers = o, !.show = TRUE, !.selected = 1]
             IN  IsBar(c) /\ c.text = b.text /\ c.remote = b.remote
  <2> DEFINE c == [b EXCEPT !.offers = o, !.show = TRUE, !.selected = 1]
  <2>1. c \in Bars(O \cup {o}, R, N \cup {1}) /\ c.text = b.text /\ c.remote = b.remote
    BY <1>0 DEF Bars
  <2> HIDE DEF c
  <2>2. IsBar(c)
    BY <2>1 DEF IsBar
  <2> QED BY <2>1, <2>2 DEF c
<1>2. /\ IsBar(Cleared(b)) /\ Cleared(b).text = b.text /\ Cleared(b).remote = <<>>
  <2> DEFINE c == Cleared(b)
  <2>1. c \in Bars(O \cup {<<>>}, R \cup {<<>>}, N \cup {0}) /\ c.text = b.text /\ c.remote = <<>>
    BY <1>0 DEF Bars, Cleared
  <2> HIDE DEF c
  <2>2. IsBar(c)
    BY <2>1 DEF IsBar
  <2> QED BY <2>1, <2>2 DEF c
<1>3. CASE b.text = NoText \/ ~ b.focused
  BY <1>2, <1>3 DEF Updated
<1>4. CASE ~ (b.text = NoText \/ ~ b.focused)
  <2> DEFINE o == <<Offer("search", b.text)>>
                   \o [i \in DOMAIN b.remote |-> Offer("remote", b.remote[i])]
                   \o [i \in DOMAIN HistoryOf[b.text] |-> Offer("history", HistoryOf[b.text][i])]
                   \o IF b.text = Address THEN <<Offer("url", b.text)>> ELSE <<>>
  <2>1. Updated(b) = [b EXCEPT !.offers = o, !.show = TRUE, !.selected = 1]
    BY <1>4 DEF Updated
  <2> HIDE DEF o
  <2> QED BY <1>1, <1>2, <2>1
<1> QED BY <1>3, <1>4

\* One answer.
LEMMA TookGood ==
    ASSUME NEW w, NEW next \in Nat, BarGood(w, next),
           NEW e \in RequestAnswers, IsDue(e, w.ask, next), OfItsQuery(e)
    PROVE  /\ BarGood(Took(w, e), next)
           /\ Took(w, e).ask.last = w.ask.last
           /\ Took(w, e).ask.pending \in {w.ask.pending, NoRequest}
<1> DEFINE v == TakeSuggestions(w, e)
<1>0. /\ e.kind \in {"suggest", "local"} /\ e.id \in Nat \ {0} /\ e.query \in BarTexts
      /\ \A i \in DOMAIN e.phrases : e.phrases[i] = e.query
  BY DEF RequestAnswers, IsDue, OfItsQuery
<1>1. PICK B : w \in [bar : B, ask : AskFields, local : LocalFields]
  BY DEF BarGood, IsWindow
<1>2. IsBar(w.bar) /\ w.ask \in AskFields /\ w.local \in LocalFields
  BY <1>1 DEF BarGood, IsWindow
<1>3. /\ BarGood(v, next) /\ v.ask.last = w.ask.last
      /\ v.ask.pending \in {w.ask.pending, NoRequest}
  <2>1. CASE e.kind = "suggest" /\ w.ask.pending = e.id
    <3> DEFINE b == [w.bar EXCEPT !.remote = e.phrases]
               c == Updated(b)
    <3>1. IsBar(b) /\ b.remote = e.phrases
      <4>1. PICK O, R, N : w.bar \in Bars(O, R, N)
        BY <1>2 DEF IsBar
      <4>2. b \in Bars(O, R \cup {e.phrases}, N) /\ b.remote = e.phrases
        BY <4>1 DEF Bars
      <4> HIDE DEF b
      <4> QED BY <4>2 DEF IsBar
    <3> HIDE DEF b
    <3>2. IsBar(c) /\ c.remote \in {e.phrases, <<>>}
      BY <3>1, UpdatedBar
    <3>3. v = [w EXCEPT !.ask.pending = NoRequest, !.ask.timer = "off", !.bar = c]
      BY <2>1, <1>1 DEF TakeSuggestions, IsPending, b
    <3> HIDE DEF c, v
    <3>4. /\ v \in [bar : B \cup {c}, ask : AskFields, local : LocalFields]
          /\ v.ask.pending = 0 /\ v.ask.last = w.ask.last /\ v.bar = c /\ v.local = w.local
      BY <3>3, <1>1, <1>2 DEF AskFields, NoRequest
    <3>5. IsWindow(v)
      BY <3>2, <3>4 DEF IsWindow
    <3>6. e.query = w.ask.last
      BY <2>1 DEF IsDue
    <3>7. \A i \in DOMAIN c.remote : c.remote[i] = w.ask.last
      BY <1>0, <3>2, <3>6
    <3>8. v.ask.pending \in 0 .. next - 1
      BY <3>4, <1>0 DEF IsDue
    <3> QED BY <3>4, <3>5, <3>7, <3>8 DEF BarGood, NoRequest
  <2>2. CASE ~ (e.kind = "suggest" /\ w.ask.pending = e.id)
    BY <2>2 DEF TakeSuggestions, IsPending
  <2> QED BY <2>1, <2>2
<1> HIDE DEF v
<1>4. CASE ~ (e.kind = "local" /\ v.local.pending = e.id)
  BY <1>3, <1>4 DEF Took, TakeLocal, v
<1>5. CASE e.kind = "local" /\ v.local.pending = e.id
  <2> DEFINE u == [v EXCEPT !.local = Answered(v.local, e.query)]
  <2>1. Took(w, e) = u
    BY <1>5 DEF Took, TakeLocal, v
  <2>2. PICK C : v \in [bar : C, ask : AskFields, local : LocalFields]
    BY <1>3 DEF BarGood, IsWindow
  <2>3. /\ u \in [bar : C, ask : AskFields, local : LocalFields]
        /\ u.bar = v.bar /\ u.ask = v.ask
        /\ u.local.query = e.query /\ u.local.results = e.query
    BY <2>2, <1>0 DEF Answered, LocalFields, NoRequest
  <2> HIDE DEF u
  <2>4. BarGood(u, next)
    BY <1>3, <2>3 DEF BarGood, IsWindow
  <2> QED BY <1>3, <2>1, <2>3, <2>4
<1> QED BY <1>4, <1>5

\* f holds what is handled after each answer.
Takes(f, w, es) ==
    /\ f = [i \in 0 .. Len(es) |-> f[i]] /\ f[0] = w
    /\ \A i \in 1 .. Len(es) : f[i] = Took(f[i - 1], es[i])

LEMMA TookAllSteps ==
    ASSUME NEW w, NEW es \in Seq(RequestAnswers)
    PROVE  \E f : Takes(f, w, es) /\ TookAll(w, es) = f[Len(es)]
<1> DEFINE Good(i, f) == /\ f = [j \in 0 .. i |-> f[j]] /\ f[0] = w
                         /\ \A j \in 1 .. i : f[j] = Took(f[j - 1], es[j])
           T == {i \in 0 .. Len(es) : \E f : Good(i, f)}
           Is(f) == f = [i \in 0 .. Len(es) |->
                            IF i = 0 THEN w ELSE Took(f[i - 1], es[i])]
<1>0. Len(es) \in Nat
  OBVIOUS
<1>1. 0 \in T
  <2> DEFINE g == [i \in 0 .. 0 |-> w]
  <2>1. g[0] = w /\ (\A j \in 1 .. 0 : FALSE) /\ g = [j \in 0 .. 0 |-> g[j]]
    OBVIOUS
  <2> HIDE DEF g
  <2>2. Good(0, g)
    BY <2>1
  <2>3. 0 \in 0 .. Len(es)
    BY <1>0
  <2> QED BY <2>2, <2>3
<1>2. ASSUME NEW i \in 1 .. Len(es), i - 1 \in T PROVE i \in T
  <2>1. PICK f : Good(i - 1, f)
    BY <1>2
  <2> DEFINE b == Took(f[i - 1], es[i])
             g == [j \in 0 .. i |-> IF j = i THEN b ELSE f[j]]
  <2>2. i \in Nat /\ i \in 0 .. Len(es) /\ i # 0 /\ 0 \in 0 .. i /\ i \in 0 .. i
    BY <1>0
  <2>3. \A j \in 0 .. i - 1 : j \in 0 .. i /\ j # i
    BY <2>2
  <2>4. (\A j \in 0 .. i - 1 : g[j] = f[j]) /\ g[i] = b /\ g = [j \in 0 .. i |-> g[j]]
    BY <2>2, <2>3
  <2> HIDE DEF g
  <2>5. g[0] = w
    <3>1. 0 \in 0 .. i - 1
      BY <2>2
    <3> QED BY <2>1, <2>4, <3>1
  <2>6. ASSUME NEW j \in 1 .. i PROVE g[j] = Took(g[j - 1], es[j])
    <3>1. j - 1 \in 0 .. i - 1
      BY <2>2
    <3>2. g[j - 1] = f[j - 1]
      BY <2>4, <3>1
    <3>3. CASE j = i
      BY <2>4, <3>2, <3>3
    <3>4. CASE j # i
      <4>1. j \in 1 .. i - 1 /\ j \in 0 .. i - 1
        BY <2>2, <3>4
      <4> QED BY <2>1, <2>4, <3>2, <4>1
    <3> QED BY <3>3, <3>4
  <2>7. Good(i, g)
    BY <2>4, <2>5, <2>6
  <2> QED BY <2>2, <2>7
<1>3. Len(es) \in T
  <2> HIDE DEF T
  <2>1. \A i \in 0 .. Len(es) : i \in T
    BY <1>0, <1>1, <1>2, NumberInduction
  <2>2. Len(es) \in 0 .. Len(es)
    BY <1>0
  <2> QED BY <2>1, <2>2
<1>4. PICK f : Good(Len(es), f)
  BY <1>3
<1>5. Is(f)
  <2>1. \A i \in 0 .. Len(es) : f[i] = IF i = 0 THEN w ELSE Took(f[i - 1], es[i])
    <3> SUFFICES ASSUME NEW i \in 0 .. Len(es)
                 PROVE  f[i] = IF i = 0 THEN w ELSE Took(f[i - 1], es[i])
      OBVIOUS
    <3>1. i = 0 \/ i \in 1 .. Len(es)
      BY <1>0
    <3>2. CASE i = 0
      BY <1>4, <3>2
    <3>3. CASE i \in 1 .. Len(es)
      <4>1. i # 0
        BY <3>3
      <4> QED BY <1>4, <3>3, <4>1
    <3> QED BY <3>1, <3>2, <3>3
  <2>2. f = [i \in 0 .. Len(es) |-> f[i]]
    BY <1>4
  <2> DEFINE G(i) == IF i = 0 THEN w ELSE Took(f[i - 1], es[i])
  <2>3. \A i \in 0 .. Len(es) : f[i] = G(i)
    BY <2>1
  <2> HIDE DEF G
  <2>4. f = [i \in 0 .. Len(es) |-> G(i)]
    BY <2>2, <2>3
  <2> QED BY <2>4 DEF G
<1> DEFINE g == CHOOSE h : Is(h)
<1>6. Is(g)
  BY <1>5
<1>7. TookAll(w, es) = g[Len(es)]
  BY DEF TookAll
<1> HIDE DEF g
<1>8. Takes(g, w, es)
  <2> DEFINE G(i) == IF i = 0 THEN w ELSE Took(g[i - 1], es[i])
  <2>1. g = [i \in 0 .. Len(es) |-> G(i)]
    BY <1>6
  <2>2. \A i \in 0 .. Len(es) : g[i] = G(i)
    <3> HIDE DEF G
    <3> QED BY <2>1
  <2>3. g = [i \in 0 .. Len(es) |-> g[i]]
    <3> HIDE DEF G
    <3> QED BY <2>1, <2>2
  <2>4. 0 \in 0 .. Len(es) /\ \A i \in 1 .. Len(es) : i \in 0 .. Len(es) /\ i # 0
    BY <1>0
  <2> QED BY <2>2, <2>3, <2>4 DEF Takes
<1> QED BY <1>7, <1>8

\* All of them.
LEMMA TookAllGood ==
    ASSUME NEW w, NEW next \in Nat, BarGood(w, next), NEW es \in Seq(RequestAnswers),
           \A i \in 1 .. Len(es) : IsDue(es[i], w.ask, next) /\ OfItsQuery(es[i])
    PROVE  LET v == TookAll(w, es)
           IN  /\ BarGood(v, next)
               /\ v.ask.last = w.ask.last
               /\ v.ask.pending \in {w.ask.pending, NoRequest}
<1>1. PICK f : Takes(f, w, es) /\ TookAll(w, es) = f[Len(es)]
  BY TookAllSteps
<1> DEFINE Right(v) == /\ BarGood(v, next)
                       /\ v.ask.last = w.ask.last
                       /\ v.ask.pending \in {w.ask.pending, NoRequest}
           T == {i \in 0 .. Len(es) : Right(f[i])}
<1>0. Len(es) \in Nat
  OBVIOUS
<1>2. 0 \in T
  <2>1. 0 \in 0 .. Len(es) /\ f[0] = w
    BY <1>0, <1>1 DEF Takes
  <2> QED BY <2>1
<1>3. ASSUME NEW i \in 1 .. Len(es), i - 1 \in T PROVE i \in T
  <2>1. Right(f[i - 1]) /\ f[i] = Took(f[i - 1], es[i]) /\ i \in 0 .. Len(es)
    <3>1. Right(f[i - 1])
      BY <1>3
    <3>2. f[i] = Took(f[i - 1], es[i])
      BY <1>1 DEF Takes
    <3>3. i \in 0 .. Len(es)
      BY <1>0
    <3> QED BY <3>1, <3>2, <3>3
  <2> DEFINE v == f[i - 1]
             e == es[i]
  <2>2. e \in RequestAnswers /\ IsDue(e, w.ask, next) /\ OfItsQuery(e)
    BY <1>0
  <2> HIDE DEF v, e
  <2>3. BarGood(v, next) /\ v.ask.last = w.ask.last /\ v.ask.pending \in {w.ask.pending, NoRequest}
    BY <2>1 DEF v
  <2>4. IsDue(e, v.ask, next)
    BY <2>2, <2>3 DEF IsDue, NoRequest
  <2>5. Right(Took(v, e))
    BY <2>2, <2>3, <2>4, TookGood
  <2> QED BY <2>1, <2>5 DEF v, e
<1>4. Len(es) \in T
  <2> HIDE DEF T
  <2>1. \A i \in 0 .. Len(es) : i \in T
    BY <1>0, <1>2, <1>3, NumberInduction
  <2>2. Len(es) \in 0 .. Len(es)
    BY <1>0
  <2> QED BY <2>1, <2>2
<1> QED BY <1>1, <1>4

\* The text that is taken for a request, and the request for it.
LEMMA DebouncedGood ==
    ASSUME NEW w, nextRequest \in Nat \ {0}, BarGood(w, nextRequest), NEW over \in BOOLEAN
    PROVE  LET v    == Debounced(w, over)
               sent == v.ask.pending = nextRequest
           IN  /\ BarGood(v, IF sent THEN nextRequest + 1 ELSE nextRequest)
               /\ sent => v.ask.last = v.bar.text /\ v.bar.text \in BarTexts
               /\ v.ask.pending \in {w.ask.pending, NoRequest, nextRequest}
               /\ v.ask.pending \notin {NoRequest, nextRequest} => v.ask.last = w.ask.last
<1> DEFINE v == Debounced(w, over)
           fresh == w.bar.text # w.ask.last
           timed == [w EXCEPT !.ask.last = w.bar.text,
                              !.ask.timer = IF fresh THEN "on" ELSE @,
                              !.bar.remote = IF fresh THEN <<>> ELSE @]
<1>1. PICK B : w \in [bar : B, ask : AskFields, local : LocalFields]
  BY DEF BarGood, IsWindow
<1>2. IsBar(w.bar) /\ w.ask \in AskFields /\ w.local \in LocalFields /\ w.bar.text \in BarTexts
      /\ w.bar.focused \in BOOLEAN
  BY <1>1 DEF BarGood, IsWindow, IsBar, Bars
<1>3. CASE ~ w.bar.focused
  <2> DEFINE u == [w EXCEPT !.ask.timer = "off", !.ask.pending = NoRequest]
  <2>1. v = u
    BY <1>3 DEF Debounced
  <2>2. /\ u \in [bar : B, ask : AskFields, local : LocalFields]
        /\ u.ask.pending = 0 /\ u.ask.last = w.ask.last /\ u.bar = w.bar /\ u.local = w.local
    BY <1>1, <1>2 DEF AskFields, NoRequest
  <2> HIDE DEF u
  <2>3. BarGood(u, nextRequest)
    BY <2>2, <1>2 DEF BarGood, IsWindow, NoRequest
  <2> HIDE DEF v
  <2>4. 0 # nextRequest
    OBVIOUS
  <2> QED BY <2>1, <2>2, <2>3, <2>4 DEF v, NoRequest
<1>4. CASE w.bar.focused /\ w.ask.pending # NoRequest
  <2>1. v = w
    BY <1>4 DEF Debounced
  <2>2. w.ask.pending # nextRequest
    BY DEF BarGood
  <2> HIDE DEF v
  <2> QED BY <2>1, <2>2 DEF v
<1>5. CASE w.bar.focused /\ w.ask.pending = NoRequest
  <2> DEFINE now == timed.ask.timer = "on" /\ ~ fresh /\ over /\ w.bar.text \notin TooShort
             u == [timed EXCEPT !.ask.pending = nextRequest, !.ask.timer = "off"]
             b == [w.bar EXCEPT !.remote = IF fresh THEN <<>> ELSE @]
  <2>1. v = IF now THEN u ELSE timed
    BY <1>5 DEF Debounced
  <2>2. IsBar(b) /\ b.text = w.bar.text /\ b.remote = IF fresh THEN <<>> ELSE w.bar.remote
    <3>1. PICK O, R, N : w.bar \in Bars(O, R, N)
      BY <1>2 DEF IsBar
    <3>2. /\ b \in Bars(O, R \cup {<<>>}, N)
          /\ b.text = w.bar.text /\ b.remote = IF fresh THEN <<>> ELSE w.bar.remote
      BY <3>1 DEF Bars
    <3> HIDE DEF b
    <3> QED BY <3>2 DEF IsBar
  <2>3. timed.bar = b /\ timed.local = w.local
    BY <1>1
  <2>4. timed.ask = [w.ask EXCEPT !.last = w.bar.text, !.timer = IF fresh THEN "on" ELSE @]
    BY <1>1
  <2>5. timed \in [bar : {b}, ask : AskFields, local : LocalFields]
    <3> HIDE DEF b
    <3>1. [w.ask EXCEPT !.last = w.bar.text, !.timer = IF fresh THEN "on" ELSE @] \in AskFields
      BY <1>2 DEF AskFields
    <3>2. timed = [w EXCEPT !.ask = timed.ask, !.bar = timed.bar]
      BY <1>1
    <3> HIDE DEF timed
    <3> QED BY <1>1, <1>2, <2>3, <2>4, <3>1, <3>2
  <2>6. timed.ask.last = w.bar.text /\ timed.ask.pending = 0
    BY <1>2, <1>5, <2>4 DEF AskFields, NoRequest
  <2> HIDE DEF b, timed
  <2>7. /\ u \in [bar : {b}, ask : AskFields, local : LocalFields]
        /\ u.bar = b /\ u.local = w.local /\ u.ask.last = w.bar.text
        /\ u.ask.pending = nextRequest
    BY <2>3, <2>5, <2>6 DEF AskFields
  <2>8. \A i \in DOMAIN b.remote : b.remote[i] = w.bar.text
    BY <2>2 DEF BarGood
  <2> HIDE DEF u, fresh
  <2>9. w.local.pending = NoRequest /\ w.local.query # NoText => w.local.results = w.local.query
    BY DEF BarGood
  <2>10. BarGood(u, nextRequest + 1)
    <3>1. IsWindow(u)
      BY <2>2, <2>7 DEF IsWindow
    <3>2. nextRequest \in 0 .. nextRequest + 1 - 1
      OBVIOUS
    <3> QED BY <2>7, <2>8, <2>9, <3>1, <3>2 DEF BarGood
  <2>11. BarGood(timed, nextRequest)
    <3>1. IsWindow(timed)
      BY <2>2, <2>3, <2>5 DEF IsWindow
    <3>2. 0 \in 0 .. nextRequest - 1
      OBVIOUS
    <3> QED BY <2>3, <2>6, <2>8, <2>9, <3>1, <3>2 DEF BarGood
  <2> HIDE DEF v, now
  <2>12. CASE now
    <3>1. v = u
      BY <2>1, <2>12
    <3> QED BY <1>2, <2>2, <2>7, <2>10, <3>1 DEF v
  <2>13. CASE ~ now
    <3>1. v = timed /\ nextRequest # 0
      BY <2>1, <2>13
    <3> QED BY <2>6, <2>11, <3>1 DEF v, NoRequest
  <2> QED BY <2>12, <2>13
<1> QED BY <1>2, <1>3, <1>4, <1>5

-----------------------------------------------------------------------------
(* The steps.                                                              *)

LEMMA BarInitInv == BarInit => BarInv
<1> SUFFICES ASSUME BarInit PROVE BarInv
  OBVIOUS
<1>1. bar \in Bars({<<>>}, {<<>>}, Nat) /\ bar.remote = <<>>
  BY DEF BarInit, Bars, BarTexts
<1>2. IsBar(bar)
  BY <1>1 DEF IsBar
<1> DEFINE w == BarWindow
<1>3. /\ w \in [bar : {bar}, ask : AskFields, local : LocalFields]
      /\ w.bar = bar /\ w.ask.pending = 0 /\ w.local.query = NoText
  BY DEF BarInit, BarWindow, AskFields, LocalFields, BarTexts, NoRequest
<1> HIDE DEF w
<1>4. BarGood(w, 1)
  BY <1>1, <1>2, <1>3 DEF BarGood, IsWindow
<1>5. BarQueues
  BY DEF BarInit, BarQueues, ToSet
<1> QED BY <1>4, <1>5 DEF BarInit, BarInv, w

\* The worker takes the number and the text of a request into its answer.
LEMMA WorkInv == BarInv /\ Work => BarInv'
<1> SUFFICES ASSUME BarInv, Work PROVE BarInv'
  OBVIOUS
<1> DEFINE c == Head(commands)
<1>1. /\ commands \in Seq(Requests) /\ events \in Seq(RequestAnswers) /\ commands # <<>>
      /\ c \in ToSet(commands) /\ c \in Requests /\ ToSet(Tail(commands)) \subseteq ToSet(commands)
      /\ Tail(commands) \in Seq(Requests)
  <2>1. commands \in Seq(Requests) /\ events \in Seq(RequestAnswers) /\ commands # <<>>
    BY DEF BarInv, BarQueues, Work
  <2>2. c = commands[1] /\ 1 \in DOMAIN commands
    BY <2>1
  <2>3. \A i \in DOMAIN Tail(commands) : i + 1 \in DOMAIN commands /\ Tail(commands)[i] = commands[i + 1]
    BY <2>1
  <2>4. c \in Requests /\ Tail(commands) \in Seq(Requests)
    BY <2>1
  <2> HIDE DEF c
  <2> QED BY <2>1, <2>2, <2>3, <2>4 DEF ToSet
<1> HIDE DEF c
<1>2. PICK e \in RequestAnswers :
          /\ events' = Append(events, e)
          /\ e.kind = c.kind /\ e.id = c.id /\ e.query = c.query
          /\ OfItsQuery(e)
  <2>1. CASE c.kind = "suggest"
    <3>1. PICK phrases \in Suggested(c.query) :
            events' = Append(events, [kind |-> "suggest", id |-> c.id, query |-> c.query,
                                      phrases |-> phrases])
      BY <2>1 DEF Work, c
    <3> DEFINE e == [kind |-> "suggest", id |-> c.id, query |-> c.query, phrases |-> phrases]
    <3>2. c.id \in Nat /\ c.query \in BarTexts
      BY <1>1 DEF Requests
    <3>3. phrases \in Seq(BarTexts) /\ \A i \in DOMAIN phrases : phrases[i] = c.query
      <4>1. CASE phrases = <<>>
        BY <4>1
      <4>2. CASE phrases = <<c.query>>
        <5>1. phrases \in Seq(BarTexts) /\ DOMAIN phrases = {1} /\ phrases[1] = c.query
          BY <3>2, <4>2
        <5> QED BY <5>1
      <4> QED BY <4>1, <4>2 DEF Suggested
    <3>4. e \in RequestAnswers /\ e.kind = c.kind /\ e.id = c.id /\ e.query = c.query
          /\ e.phrases = phrases
      BY <2>1, <3>2, <3>3 DEF RequestAnswers
    <3>5. OfItsQuery(e)
      BY <3>3, <3>4 DEF OfItsQuery
    <3> QED BY <3>1, <3>4, <3>5
  <2>2. CASE c.kind = "local"
    <3> DEFINE e == [kind |-> "local", id |-> c.id, query |-> c.query, phrases |-> <<>>]
    <3>1. events' = Append(events, e)
      BY <2>2 DEF Work, c
    <3>2. c.id \in Nat /\ c.query \in BarTexts
      BY <1>1 DEF Requests
    <3>3. e \in RequestAnswers /\ e.kind = c.kind /\ e.id = c.id /\ e.query = c.query
          /\ e.phrases = <<>>
      BY <2>2, <3>2 DEF RequestAnswers
    <3>4. OfItsQuery(e)
      BY <3>3 DEF OfItsQuery
    <3> QED BY <3>1, <3>3, <3>4
  <2> QED BY <1>1, <2>1, <2>2 DEF Requests
<1>3. /\ commands' = Tail(commands)
      /\ bar' = bar /\ ask' = ask /\ local' = local /\ nextRequest' = nextRequest
  BY DEF Work
<1>4. events' \in Seq(RequestAnswers) /\ ToSet(events') = ToSet(events) \cup {e}
  <2>1. /\ events' \in Seq(RequestAnswers) /\ DOMAIN events' = DOMAIN events \cup {Len(events) + 1}
        /\ \A i \in DOMAIN events : events'[i] = events[i]
        /\ events'[Len(events) + 1] = e
    BY <1>1, <1>2
  <2> QED BY <2>1 DEF ToSet
<1>5. IsDue(e, ask, nextRequest)
  <2>1. IsDue(c, ask, nextRequest)
    BY <1>1 DEF BarInv, BarQueues
  <2> QED BY <1>2, <2>1 DEF IsDue
<1>6. BarQueues'
  BY <1>1, <1>2, <1>3, <1>4, <1>5 DEF BarInv, BarQueues
<1> QED BY <1>3, <1>6 DEF BarInv, BarWindow

LEMMA PollInv == BarInv /\ Poll => BarInv'
<1> SUFFICES ASSUME BarInv, Poll PROVE BarInv'
  OBVIOUS
<1> DEFINE w == BarWindow
           t == TookAll(w, events)
<1>0. /\ nextRequest \in Nat \ {0} /\ BarGood(w, nextRequest)
      /\ commands \in Seq(Requests) /\ events \in Seq(RequestAnswers) /\ w.ask = ask
      /\ \A r \in ToSet(commands) : IsDue(r, ask, nextRequest)
      /\ \A i \in 1 .. Len(events) : IsDue(events[i], ask, nextRequest) /\ OfItsQuery(events[i])
  BY DEF BarInv, BarQueues, BarWindow, ToSet
<1>1. PICK over \in BOOLEAN :
        LET v == Debounced(t, over)
            sent == v.ask.pending = nextRequest
        IN  /\ bar' = v.bar /\ ask' = v.ask /\ local' = v.local
            /\ commands' = IF sent
                           THEN Append(commands, [kind |-> "suggest", id |-> nextRequest,
                                                  query |-> v.bar.text])
                           ELSE commands
            /\ nextRequest' = IF sent THEN nextRequest + 1 ELSE nextRequest
            /\ events' = <<>>
  BY DEF Poll, BarWindow
<1> DEFINE v == Debounced(t, over)
           sent == v.ask.pending = nextRequest
           q == [kind |-> "suggest", id |-> nextRequest, query |-> v.bar.text]
<1>2. /\ BarGood(t, nextRequest) /\ t.ask.last = ask.last
      /\ t.ask.pending \in {ask.pending, NoRequest}
  <2> HIDE DEF w
  <2> QED BY <1>0, TookAllGood
<1> HIDE DEF w, t
<1>3. /\ BarGood(v, IF sent THEN nextRequest + 1 ELSE nextRequest)
      /\ sent => v.ask.last = v.bar.text /\ v.bar.text \in BarTexts
      /\ v.ask.pending \in {t.ask.pending, NoRequest, nextRequest}
      /\ v.ask.pending \notin {NoRequest, nextRequest} => v.ask.last = t.ask.last
  BY <1>0, <1>2, DebouncedGood
<1> HIDE DEF v
<1>4. /\ bar' = v.bar /\ ask' = v.ask /\ local' = v.local /\ events' = <<>>
      /\ commands' = IF sent THEN Append(commands, q) ELSE commands
      /\ nextRequest' = IF sent THEN nextRequest + 1 ELSE nextRequest
  BY <1>1 DEF v
<1>5. BarWindow' = v
  <2>1. BarWindow' = [bar |-> v.bar, ask |-> v.ask, local |-> v.local]
    BY <1>4 DEF BarWindow
  <2>2. PICK B : v \in [bar : B, ask : AskFields, local : LocalFields]
    BY <1>3 DEF BarGood, IsWindow
  <2> QED BY <2>1, <2>2
<1>6. ASSUME NEW r, IsDue(r, ask, nextRequest) PROVE IsDue(r, v.ask, nextRequest')
  <2>1. r.id \in 1 .. nextRequest - 1 /\ r.id \in 1 .. nextRequest' - 1
    BY <1>0, <1>4, <1>6 DEF IsDue
  <2>2. ASSUME r.kind = "suggest", r.id = v.ask.pending PROVE r.query = v.ask.last
    <3>1. v.ask.pending \notin {NoRequest, nextRequest}
      BY <1>0, <2>1, <2>2 DEF NoRequest
    <3>2. v.ask.last = ask.last /\ v.ask.pending = ask.pending
      BY <1>2, <1>3, <3>1
    <3> QED BY <1>6, <2>2, <3>2 DEF IsDue
  <2> QED BY <2>1, <2>2 DEF IsDue
<1>7. BarQueues'
  <2>1. CASE ~ sent
    BY <1>0, <1>4, <1>6, <2>1 DEF BarQueues, ToSet
  <2>2. CASE sent
    <3>1. q \in Requests /\ q.id = nextRequest /\ q.kind = "suggest" /\ q.query = v.ask.last
      BY <1>0, <1>3, <2>2 DEF Requests
    <3>2. IsDue(q, v.ask, nextRequest')
      BY <1>0, <1>4, <2>2, <3>1 DEF IsDue
    <3> HIDE DEF q
    <3>3. commands' \in Seq(Requests) /\ ToSet(commands') = ToSet(commands) \cup {q}
      <4>1. /\ commands' \in Seq(Requests)
            /\ DOMAIN commands' = DOMAIN commands \cup {Len(commands) + 1}
            /\ \A i \in DOMAIN commands : commands'[i] = commands[i]
            /\ commands'[Len(commands) + 1] = q
        BY <1>0, <1>4, <2>2, <3>1
      <4> QED BY <4>1 DEF ToSet
    <3>4. ToSet(events') = {} /\ events' \in Seq(RequestAnswers)
      BY <1>4 DEF ToSet
    <3> QED BY <1>0, <1>4, <1>6, <3>2, <3>3, <3>4 DEF BarQueues
  <2> QED BY <2>1, <2>2
<1>8. nextRequest' \in Nat \ {0} /\ BarGood(v, nextRequest')
  BY <1>0, <1>3, <1>4
<1> QED BY <1>5, <1>7, <1>8 DEF BarInv

\* What is drawn keeps the suggestions there are, or has none.
LEMMA DrawsInv ==
    ASSUME BarInv, NEW b, Draws(b), IsBar(b), b.remote \in {bar.remote, <<>>}
    PROVE  BarInv'
<1> DEFINE w == BarWindow
           v == [bar |-> b, ask |-> ask, local |-> local]
<1>1. /\ bar' = b /\ ask' = ask /\ local' = local /\ nextRequest' = nextRequest
      /\ commands' = commands /\ events' = events
  BY DEF Draws
<1>2. BarGood(w, nextRequest) /\ w.bar = bar /\ w.ask = ask /\ w.local = local
  BY DEF BarInv, BarWindow
<1>3. PICK B : w \in [bar : B, ask : AskFields, local : LocalFields]
  BY <1>2 DEF BarGood, IsWindow
<1>4. /\ v \in [bar : {b}, ask : AskFields, local : LocalFields]
      /\ v.bar = b /\ v.ask = ask /\ v.local = local
  BY <1>2, <1>3
<1> HIDE DEF v, w
<1>5. BarGood(v, nextRequest)
  <2>1. IsWindow(v)
    BY <1>4 DEF IsWindow
  <2>2. \A i \in DOMAIN b.remote : b.remote[i] = ask.last
    <3>1. b.remote = <<>> \/ b.remote = bar.remote
      OBVIOUS
    <3>2. DOMAIN <<>> = {}
      OBVIOUS
    <3> QED BY <1>2, <3>1, <3>2 DEF BarGood
  <2> QED BY <1>2, <1>4, <2>1, <2>2 DEF BarGood
<1>6. BarWindow' = v
  BY <1>1 DEF BarWindow, v
<1> QED BY <1>1, <1>5, <1>6 DEF BarInv, BarQueues

LEMMA UserInv ==
    BarInv /\ (\/ Focus \/ \E hovered \in BOOLEAN : Blur(hovered)
               \/ \E text \in TypedTexts : Type(text)
               \/ ShowUrl \/ FocusEmpty
               \/ ArrowDown \/ ArrowUp \/ Escape \/ Enter
               \/ \E i \in 1 .. 6 : Click(i)) => BarInv'
<1> SUFFICES ASSUME BarInv,
                    \/ Focus \/ \E hovered \in BOOLEAN : Blur(hovered)
                    \/ \E text \in TypedTexts : Type(text)
                    \/ ShowUrl \/ FocusEmpty
                    \/ ArrowDown \/ ArrowUp \/ Escape \/ Enter
                    \/ \E i \in 1 .. 6 : Click(i)
             PROVE  BarInv'
  OBVIOUS
<1>1. PICK O, R, N : bar \in Bars(O, R, N)
  <2>1. IsBar(BarWindow.bar) /\ BarWindow.bar = bar
    BY DEF BarInv, BarGood, IsWindow, BarWindow
  <2> QED BY <2>1 DEF IsBar
<1>2. NoText \in BarTexts /\ Address \in BarTexts /\ TypedTexts \subseteq BarTexts
  BY DEF BarTexts
<1>3. ASSUME NEW f \in BOOLEAN, NEW t \in BarTexts
      PROVE  LET b == [bar EXCEPT !.focused = f, !.text = t]
             IN  IsBar(b) /\ b.remote = bar.remote
  <2> DEFINE b == [bar EXCEPT !.focused = f, !.text = t]
  <2>1. b \in Bars(O, R, N) /\ b.remote = bar.remote
    BY <1>1 DEF Bars
  <2> HIDE DEF b
  <2>2. IsBar(b)
    BY <2>1 DEF IsBar
  <2> QED BY <2>1, <2>2 DEF b
<1>4. ASSUME NEW n
      PROVE  LET b == [bar EXCEPT !.selected = n]
             IN  IsBar(b) /\ b.remote = bar.remote
  <2> DEFINE b == [bar EXCEPT !.selected = n]
  <2>1. b \in Bars(O, R, N \cup {n}) /\ b.remote = bar.remote
    BY <1>1 DEF Bars
  <2> HIDE DEF b
  <2>2. IsBar(b)
    BY <2>1 DEF IsBar
  <2> QED BY <2>1, <2>2 DEF b
<1>5. bar.focused \in BOOLEAN /\ bar.text \in BarTexts
  BY <1>1 DEF Bars
<1>6. \A f \in BOOLEAN : [bar EXCEPT !.focused = f] = [bar EXCEPT !.focused = f, !.text = bar.text]
  BY <1>1 DEF Bars
<1>7. \A t \in BarTexts : [bar EXCEPT !.text = t] = [bar EXCEPT !.focused = bar.focused, !.text = t]
  BY <1>1 DEF Bars
<1>8. ASSUME NEW b, IsBar(b), b.remote = bar.remote, Draws(b) \/ Draws(Cleared(b)) \/ Draws(Updated(b))
      PROVE  BarInv'
  BY <1>8, DrawsInv, UpdatedBar
<1>9. CASE Focus \/ ShowUrl \/ FocusEmpty
  BY <1>2, <1>3, <1>5, <1>6, <1>7, <1>8, <1>9 DEF Focus, ShowUrl, FocusEmpty
<1>10. CASE \E hovered \in BOOLEAN : Blur(hovered)
  BY <1>2, <1>3, <1>5, <1>6, <1>8, <1>10 DEF Blur
<1>11. CASE \E text \in TypedTexts : Type(text)
  BY <1>2, <1>3, <1>5, <1>7, <1>8, <1>11 DEF Type
<1>12. CASE ArrowDown \/ ArrowUp
  BY <1>4, <1>8, <1>12 DEF ArrowDown, ArrowUp
<1>13. CASE Escape
  BY <1>3, <1>5, <1>6, <1>8, <1>13 DEF Escape
<1>14. CASE Enter
  <2> DEFINE t == IF bar.show \/ bar.text # NoText THEN Address ELSE bar.text
  <2>1. t \in BarTexts
    BY <1>2, <1>5
  <2>2. Draws(Cleared([bar EXCEPT !.focused = FALSE, !.text = t]))
    BY <1>14 DEF Enter
  <2> HIDE DEF t
  <2> QED BY <1>3, <1>8, <2>1, <2>2
<1>15. CASE \E i \in 1 .. 6 : Click(i)
  BY <1>2, <1>3, <1>5, <1>7, <1>8, <1>15 DEF Click
<1> QED BY <1>9, <1>10, <1>11, <1>12, <1>13, <1>14, <1>15

LEMMA TypeLocalInv == ASSUME NEW query \in LocalQueries PROVE BarInv /\ TypeLocal(query) => BarInv'
<1> SUFFICES ASSUME BarInv, TypeLocal(query) PROVE BarInv'
  OBVIOUS
<1> DEFINE w == BarWindow
<1>1. BarGood(w, nextRequest) /\ w.bar = bar /\ w.ask = ask /\ w.local = local
  BY DEF BarInv, BarWindow
<1>2. PICK B : w \in [bar : B, ask : AskFields, local : LocalFields]
  BY <1>1 DEF BarGood, IsWindow
<1>3. /\ nextRequest \in Nat \ {0} /\ commands \in Seq(Requests) /\ query \in BarTexts
      /\ bar' = bar /\ ask' = ask /\ events' = events
  BY DEF BarInv, BarQueues, TypeLocal, BarTexts
<1>4. local \in LocalFields
  BY <1>1, <1>2
<1>5. ASSUME NEW l \in LocalFields, local' = l,
             l.pending = NoRequest /\ l.query # NoText => l.results = l.query,
             nextRequest' \in {nextRequest, nextRequest + 1}
      PROVE  BarGood(BarWindow', nextRequest')
  <2> DEFINE v == [bar |-> bar, ask |-> ask, local |-> l]
  <2>1. /\ v \in [bar : B, ask : AskFields, local : LocalFields]
        /\ v.bar = bar /\ v.ask = ask /\ v.local = l
    BY <1>1, <1>2
  <2>2. BarWindow' = v
    BY <1>3, <1>5 DEF BarWindow
  <2> HIDE DEF v, w
  <2>3. ask.pending \in 0 .. nextRequest' - 1
    BY <1>1, <1>3, <1>5 DEF BarGood
  <2> QED BY <1>1, <1>5, <2>1, <2>2, <2>3 DEF BarGood, IsWindow
<1> HIDE DEF w
<1>6. CASE query # NoText /\ local.pending = NoRequest
  <2> DEFINE l == [local EXCEPT !.query = query, !.pending = nextRequest]
             q == [kind |-> "local", id |-> nextRequest, query |-> query]
  <2>1. local' = l /\ commands' = Append(commands, q) /\ nextRequest' = nextRequest + 1
    BY <1>6 DEF TypeLocal
  <2>2. l \in LocalFields /\ l.pending # NoRequest
    BY <1>3, <1>4 DEF LocalFields, NoRequest
  <2> HIDE DEF l
  <2>3. BarGood(BarWindow', nextRequest')
    BY <1>5, <2>1, <2>2
  <2>4. q \in Requests /\ q.kind # "suggest" /\ q.id = nextRequest
    BY <1>3 DEF Requests
  <2> HIDE DEF q
  <2>5. commands' \in Seq(Requests) /\ ToSet(commands') = ToSet(commands) \cup {q}
    <3>1. /\ commands' \in Seq(Requests)
          /\ DOMAIN commands' = DOMAIN commands \cup {Len(commands) + 1}
          /\ \A i \in DOMAIN commands : commands'[i] = commands[i]
          /\ commands'[Len(commands) + 1] = q
      BY <1>3, <2>1, <2>4
    <3> QED BY <3>1 DEF ToSet
  <2>6. \A r : IsDue(r, ask, nextRequest) => IsDue(r, ask, nextRequest')
    BY <1>3, <2>1 DEF IsDue
  <2>7. IsDue(q, ask, nextRequest')
    BY <1>3, <2>1, <2>4 DEF IsDue
  <2>8. BarQueues'
    BY <1>3, <2>5, <2>6, <2>7 DEF BarInv, BarQueues
  <2> QED BY <1>3, <2>1, <2>3, <2>8 DEF BarInv
<1>7. CASE ~ (query # NoText /\ local.pending = NoRequest)
  <2> DEFINE l == [local EXCEPT !.query = query]
  <2>1. local' = l /\ commands' = commands /\ nextRequest' = nextRequest
    BY <1>7 DEF TypeLocal
  <2>2. l \in LocalFields /\ l.pending = local.pending /\ l.query = query
    BY <1>3, <1>4 DEF LocalFields
  <2> HIDE DEF l
  <2>3. BarGood(BarWindow', nextRequest')
    BY <1>5, <1>7, <2>1, <2>2
  <2> QED BY <1>3, <2>1, <2>3 DEF BarInv, BarQueues
<1> QED BY <1>6, <1>7

LEMMA BarNextInv == BarInv /\ [BarNext]_barVars => BarInv'
<1> SUFFICES ASSUME BarInv, [BarNext]_barVars PROVE BarInv'
  OBVIOUS
<1>1. CASE UNCHANGED barVars
  BY <1>1 DEF barVars, BarInv, BarQueues, BarWindow
<1>2. CASE Work \/ Poll
  BY <1>2, WorkInv, PollInv
<1>3. CASE \E query \in LocalQueries : TypeLocal(query)
  BY <1>3, TypeLocalInv
<1> QED BY <1>1, <1>2, <1>3, UserInv DEF BarNext

\* Whatever answers come late, are lost or are of a text that was typed over: the
\* suggestions are those of the text last taken for a request, and the results of
\* the sidebar are those of the query it shows (poll_loading).
THEOREM OffersStayInSync == BarSpec => []OffersInSync
<1>1. BarInv => OffersInSync
  BY DEF BarInv, BarGood, BarWindow, OffersInSync
<1> QED BY <1>1, BarInitInv, BarNextInv, PTL DEF BarSpec

-----------------------------------------------------------------------------
(* What a search answers.                                                  *)

\* What the settings leave of the results.
Allowed(r) ==
    /\ SearchConfig.strict /\ SearchConfig.blockLocal => ~ r.local
    /\ SearchConfig.strict /\ SearchConfig.blockIp => ~ r.ip

\* Results that were cleaned; their scores may have been raised.
CleanResults ==
    {r \in [title : SUBSET STRING, scheme : STRING, host : STRING \cup {"wikipedia"},
            path : STRING, asks : BOOLEAN, tracking : SUBSET STRING,
            ip : BOOLEAN, local : BOOLEAN,
            odd : BOOLEAN, ad : BOOLEAN, complete : BOOLEAN, aged : BOOLEAN, score : Int,
            privacy : {PrivacyScore(f) : f \in SearchResults},
            safety : {"Trusted", "Neutral", "Warning", "Blocked"}] :
        Allowed(r)}

\* The best first.
Sorted(s) == \A j \in DOMAIN s, i \in DOMAIN s : i < j => s[i].score >= s[j].score

Distinct(s) ==
    \A j \in DOMAIN s, i \in DOMAIN s :
        i < j => Normalized(s[i]) # Normalized(s[j]) /\ ~ Similar(s[i], s[j])

GoodAnswer(s) ==
    /\ s \in Seq(CleanResults) /\ Len(s) <= MaxResults
    /\ Sorted(s) /\ (SearchConfig.dedup => Distinct(s))

LEMMA MinOfTwo ==
    ASSUME NEW a \in Int, NEW b \in Int
    PROVE  Min({a, b}) = IF a <= b THEN a ELSE b
<1> DEFINE m == IF a <= b THEN a ELSE b
<1>1. m \in {a, b} /\ \A y \in {a, b} : m <= y
  OBVIOUS
<1>2. \A x \in {a, b} : (\A y \in {a, b} : x <= y) => x = m
  OBVIOUS
<1> HIDE DEF m
<1>3. Min({a, b}) = m
  BY <1>1, <1>2 DEF Min
<1> QED BY <1>3 DEF m

-----------------------------------------------------------------------------
(* What the backends send.                                                 *)

LEMMA TruncatedPrefix ==
    ASSUME NEW A, NEW s \in Seq(A)
    PROVE  LET t == Truncated(s)
           IN  /\ t \in Seq(A) /\ Len(t) <= MaxResults /\ Len(t) <= Len(s)
               /\ \A i \in 1 .. Len(t) : t[i] = s[i]
<1>1. MaxResults \in Nat /\ Len(s) \in Nat
  BY SearchAssumption
<1> DEFINE n == Min({MaxResults, Len(s)})
<1>2. n = IF MaxResults <= Len(s) THEN MaxResults ELSE Len(s)
  <2>1. MaxResults \in Int /\ Len(s) \in Int
    BY <1>1
  <2> QED BY <2>1, MinOfTwo
<1>3. n \in Nat /\ n <= Len(s) /\ n <= MaxResults
  BY <1>1, <1>2
<1> HIDE DEF n
<1>4. /\ SubSeq(s, 1, n) \in Seq(A) /\ Len(SubSeq(s, 1, n)) = n
      /\ \A i \in 1 .. n : SubSeq(s, 1, n)[i] = s[i]
  BY <1>1, <1>3
<1> QED BY <1>3, <1>4 DEF Truncated, n

LEMMA FetchTypes ==
    ASSUME NEW backend \in BackendNames, NEW sent \in Seq(SearchResults)
    PROVE  Fetch(backend, sent) \in Seq(SearchResults)
<1>1. ASSUME NEW s \in Seq(SearchResults) PROVE Complete(s) \in Seq(SearchResults)
  BY RetainedMembers DEF Complete
<1>2. ASSUME NEW s \in Seq(SearchResults) PROVE Truncated(s) \in Seq(SearchResults)
  BY TruncatedPrefix
<1>3. ASSUME NEW s \in Seq(SearchResults), NEW score \in Nat
      PROVE  Rated(s, score) \in Seq(SearchResults)
  <2>1. \A i \in DOMAIN s : [s[i] EXCEPT !.score = score] \in SearchResults
    <3> TAKE i \in DOMAIN s
    <3>1. s[i] \in SearchResults
      OBVIOUS
    <3> QED BY <3>1 DEF SearchResults
  <2>2. DOMAIN s = 1 .. Len(s) /\ Len(s) \in Nat
    OBVIOUS
  <2> QED BY <2>1, <2>2 DEF Rated
<1> DEFINE kept == Complete(Truncated(sent))
           named == [i \in DOMAIN sent |->
                        [sent[i] EXCEPT !.host = "wikipedia", !.asks = FALSE, !.tracking = {}]]
<1>4. kept \in Seq(SearchResults)
  BY <1>1, <1>2
<1>5. named \in Seq(SearchResults)
  <2>1. \A i \in DOMAIN sent :
            [sent[i] EXCEPT !.host = "wikipedia", !.asks = FALSE, !.tracking = {}] \in SearchResults
    <3> TAKE i \in DOMAIN sent
    <3>1. sent[i] \in SearchResults
      OBVIOUS
    <3> DEFINE r == sent[i]
    <3>3. r \in SearchResults
      BY <3>1
    <3> HIDE DEF r
    <3>4. [r EXCEPT !.host = "wikipedia", !.asks = FALSE, !.tracking = {}] \in SearchResults
      BY <3>3 DEF SearchResults
    <3> QED BY <3>4 DEF r
  <2>2. DOMAIN sent = 1 .. Len(sent) /\ Len(sent) \in Nat
    OBVIOUS
  <2> DEFINE One(i) == [sent[i] EXCEPT !.host = "wikipedia", !.asks = FALSE, !.tracking = {}]
  <2>3. named = [i \in DOMAIN sent |-> One(i)] /\ \A i \in DOMAIN sent : One(i) \in SearchResults
    BY <2>1
  <2> HIDE DEF One, named
  <2> QED BY <2>2, <2>3
<1>6. [i \in DOMAIN kept |-> [kept[i] EXCEPT !.score = IF kept[i].aged THEN 80 ELSE 60]]
          \in Seq(SearchResults)
  <2> HIDE DEF kept
  <2>1. \A i \in DOMAIN kept :
            [kept[i] EXCEPT !.score = IF kept[i].aged THEN 80 ELSE 60] \in SearchResults
    <3> TAKE i \in DOMAIN kept
    <3>1. kept[i] \in SearchResults
      BY <1>4
    <3> QED BY <3>1 DEF SearchResults
  <2>2. DOMAIN kept = 1 .. Len(kept) /\ Len(kept) \in Nat
    BY <1>4
  <2> QED BY <2>1, <2>2
<1>7. CASE backend = "ddg"
  BY <1>1, <1>2, <1>3, <1>7 DEF Fetch, FetchDdg
<1>8. CASE backend = "stract" \/ backend = "mojeek" \/ backend = "searxng"
  <2> HIDE DEF kept
  <2>1. Rated(kept, 75) \in Seq(SearchResults) /\ Rated(kept, 70) \in Seq(SearchResults)
    BY <1>3, <1>4
  <2> QED BY <1>4, <1>8, <2>1 DEF Fetch, FetchStract, FetchMojeek, FetchSearXNG, kept
<1>9. CASE backend = "wikipedia"
  <2>1. Rated(Complete(named), 50) \in Seq(SearchResults)
    <3> HIDE DEF named
    <3> QED BY <1>1, <1>3, <1>5
  <2> QED BY <1>9, <2>1 DEF Fetch, FetchWikipedia
<1>10. CASE backend = "brave"
  BY <1>6, <1>10 DEF Fetch, FetchBrave
<1> QED BY <1>7, <1>8, <1>9, <1>10 DEF BackendNames

-----------------------------------------------------------------------------
(* Cleaning, ranking and sifting.                                          *)

LEMMA SanitizedIsClean ==
    ASSUME NEW r \in SearchResults, ~ Dropped(r)
    PROVE  Sanitized(r) \in CleanResults
<1> DEFINE c == Sanitized(r)
<1>1. PrivacyScore(r) \in {PrivacyScore(f) : f \in SearchResults}
  OBVIOUS
<1>2. ResultSafety(r) \in {"Trusted", "Neutral", "Warning", "Blocked"}
  <2>1. r.ip \in BOOLEAN /\ r.local \in BOOLEAN /\ r.odd \in BOOLEAN /\ r.ad \in BOOLEAN
    BY DEF SearchResults
  <2>2. CASE r.ip \/ r.local
    BY <2>2 DEF ResultSafety
  <2>3. CASE ~ (r.ip \/ r.local)
    BY <2>3 DEF ResultSafety
  <2> QED BY <2>2, <2>3
<1>3. c.ip = r.ip /\ c.local = r.local
  BY DEF Sanitized, SearchResults
<1>4. Allowed(c)
  BY <1>3 DEF Allowed, Dropped
<1> DEFINE t == IF SearchConfig.strip THEN {} ELSE r.tracking
           p == PrivacyScore(r)
           v == ResultSafety(r)
<1>5. t \in SUBSET STRING
  BY DEF SearchResults
<1>6. c = [r EXCEPT !.tracking = t, !.privacy = p, !.safety = v]
  BY DEF Sanitized, SearchResults
<1> HIDE DEF c, t, p, v
<1>7. [r EXCEPT !.tracking = t, !.privacy = p, !.safety = v] \in
         [title : SUBSET STRING, scheme : STRING, host : STRING \cup {"wikipedia"},
            path : STRING, asks : BOOLEAN, tracking : SUBSET STRING,
            ip : BOOLEAN, local : BOOLEAN,
            odd : BOOLEAN, ad : BOOLEAN, complete : BOOLEAN, aged : BOOLEAN, score : Int,
            privacy : {p}, safety : {v}]
  <2> DEFINE A == [r EXCEPT !.tracking = t]
             B == [A EXCEPT !.privacy = p]
  <2>1. A \in SearchResults
    BY <1>5 DEF SearchResults
  <2>2. [r EXCEPT !.tracking = t, !.privacy = p, !.safety = v] = [B EXCEPT !.safety = v]
    BY DEF SearchResults
  <2> HIDE DEF A
  <2> DEFINE H == STRING \cup {"wikipedia"}
             V == {"Trusted", "Neutral", "Warning", "Blocked"}
  <2>3. B \in [title : SUBSET STRING, scheme : STRING, host : H,
            path : STRING, asks : BOOLEAN, tracking : SUBSET STRING,
            ip : BOOLEAN, local : BOOLEAN,
            odd : BOOLEAN, ad : BOOLEAN, complete : BOOLEAN, aged : BOOLEAN, score : Nat,
            privacy : {p}, safety : V]
    BY <2>1 DEF SearchResults
  <2> HIDE DEF B
  <2>4. [B EXCEPT !.safety = v] \in [title : SUBSET STRING, scheme : STRING, host : H,
            path : STRING, asks : BOOLEAN, tracking : SUBSET STRING,
            ip : BOOLEAN, local : BOOLEAN,
            odd : BOOLEAN, ad : BOOLEAN, complete : BOOLEAN, aged : BOOLEAN, score : Int,
            privacy : {p}, safety : {v}]
    <3> HIDE DEF H, V
    <3> QED BY <2>3
  <2> QED BY <2>2, <2>4
<1>8. p \in {PrivacyScore(f) : f \in SearchResults}
      /\ v \in {"Trusted", "Neutral", "Warning", "Blocked"}
  BY <1>1, <1>2 DEF p, v
<1> DEFINE P == {PrivacyScore(f) : f \in SearchResults}
<1>9. p \in P
  BY <1>8
<1> HIDE DEF P
<1>10. c \in [title : SUBSET STRING, scheme : STRING, host : STRING \cup {"wikipedia"},
            path : STRING, asks : BOOLEAN, tracking : SUBSET STRING,
            ip : BOOLEAN, local : BOOLEAN,
            odd : BOOLEAN, ad : BOOLEAN, complete : BOOLEAN, aged : BOOLEAN, score : Int,
            privacy : P, safety : {"Trusted", "Neutral", "Warning", "Blocked"}]
  BY <1>6, <1>7, <1>8, <1>9
<1> QED BY <1>4, <1>10 DEF CleanResults, P, c

LEMMA ScoredTypes ==
    ASSUME NEW s \in Seq(CleanResults)
    PROVE  Scored(s) \in Seq(CleanResults) /\ Len(Scored(s)) = Len(s)
<1>1. Len(s) \in Nat /\ DOMAIN s = 1 .. Len(s)
  OBVIOUS
<1>2. ASSUME NEW r \in CleanResults, NEW n \in Int PROVE [r EXCEPT !.score = n] \in CleanResults
  BY DEF CleanResults, Allowed
<1>3. ASSUME NEW i \in DOMAIN s
      PROVE  LET found == Cardinality({j \in DOMAIN s : Normalized(s[j]) = Normalized(s[i])})
             IN  Min({100, s[i].score + 15 * (found - 1)}) \in Int
  <2> DEFINE C == {j \in DOMAIN s : Normalized(s[j]) = Normalized(s[i])}
             n == Cardinality(C)
  <2>1. C \in SUBSET (1 .. Len(s)) /\ IsFiniteSet(1 .. Len(s))
    <3>1. 1 \in Int /\ Len(s) \in Int
      BY <1>1
    <3> QED BY <1>1, <3>1, FS_Interval
  <2> HIDE DEF C
  <2>2. n \in Nat
    BY <2>1, FS_Subset, FS_CardinalityType
  <2>3. s[i].score \in Int
    <3>1. s[i] \in CleanResults
      OBVIOUS
    <3> QED BY <3>1 DEF CleanResults
  <2> HIDE DEF n
  <2> DEFINE m == s[i].score + 15 * (n - 1)
  <2>4. m \in Int /\ 100 \in Int
    BY <2>2, <2>3
  <2> HIDE DEF m
  <2>5. Min({100, m}) \in Int
    BY <2>4, MinOfTwo
  <2> QED BY <2>5 DEF m, n, C
<1> DEFINE Raised(i) == LET found == Cardinality({j \in DOMAIN s : Normalized(s[j]) = Normalized(s[i])})
                        IN  [s[i] EXCEPT !.score = Min({100, s[i].score + 15 * (found - 1)})]
<1>4. \A i \in DOMAIN s : Raised(i) \in CleanResults
  <2> TAKE i \in DOMAIN s
  <2>1. s[i] \in CleanResults
    OBVIOUS
  <2> QED BY <1>2, <1>3, <2>1
<1>5. Scored(s) = [i \in DOMAIN s |-> Raised(i)]
  <2>1. \A i \in DOMAIN s : "score" \in DOMAIN s[i]
    <3> TAKE i \in DOMAIN s
    <3>1. s[i] \in CleanResults
      OBVIOUS
    <3> QED BY <3>1 DEF CleanResults
  <2> QED BY <2>1 DEF Scored
<1> HIDE DEF Raised
<1> QED BY <1>1, <1>4, <1>5

\* The place of each result is one of 1 .. n, and each of these is the place of
\* one: fewer results precede the one that precedes.
LEMMA Places1ToN ==
    ASSUME NEW n \in Nat, NEW s, DOMAIN s = 1 .. n, \A i \in 1 .. n : s[i].score \in Int
    PROVE  /\ \A k \in 1 .. n : \E i \in 1 .. n : Place(s, i) = k
           /\ \A i, j \in 1 .. n : Place(s, i) < Place(s, j) => s[i].score >= s[j].score
<1> DEFINE R == {p \in (1 .. n) \X (1 .. n) : Precedes(s, p[1], p[2])}
<1>1. \A i, j \in 1 .. n : <<i, j>> \in R <=> Precedes(s, i, j)
  OBVIOUS
<1> HIDE DEF R
<1>2. OrdersUpTo(R, n)
  <2>1. \A i \in 1 .. n : ~ Precedes(s, i, i)
    BY DEF Precedes
  <2>2. \A i, j \in 1 .. n : i # j => Precedes(s, i, j) \/ Precedes(s, j, i)
    BY DEF Precedes
  <2>3. \A i, j, k \in 1 .. n : Precedes(s, i, j) /\ Precedes(s, j, k) => Precedes(s, i, k)
    BY DEF Precedes
  <2> QED BY <1>1, <2>1, <2>2, <2>3 DEF OrdersUpTo
<1>3. \A i \in 1 .. n : Place(s, i) = 1 + RankBefore(R, n, i) /\ RankBefore(R, n, i) \in Nat
  <2> TAKE i \in 1 .. n
  <2>1. {j \in DOMAIN s : Precedes(s, j, i)} = {j \in 1 .. n : <<j, i>> \in R}
    BY <1>1
  <2>2. IsFiniteSet(1 .. n)
    BY FS_Interval
  <2>3. IsFiniteSet({j \in 1 .. n : <<j, i>> \in R})
    BY <2>2, FS_Subset
  <2> QED BY <2>1, <2>3, FS_CardinalityType DEF Place, RankBefore
<1>4. \A k \in 1 .. n : \E i \in 1 .. n : Place(s, i) = k
  <2> TAKE k \in 1 .. n
  <2>1. PICK i \in 1 .. n : RankBefore(R, n, i) = k - 1
    BY <1>2, CountingSorts
  <2> QED BY <1>3, <2>1
<1>5. ASSUME NEW i \in 1 .. n, NEW j \in 1 .. n, Place(s, i) < Place(s, j) PROVE s[i].score >= s[j].score
  <2>1. RankBefore(R, n, i) < RankBefore(R, n, j)
    BY <1>3, <1>5
  <2>2. <<i, j>> \in R
    BY <1>2, <2>1, CountingSorts
  <2>3. Precedes(s, i, j) /\ s[i].score \in Int /\ s[j].score \in Int
    BY <1>1, <2>2
  <2> QED BY <2>3 DEF Precedes
<1> QED BY <1>4, <1>5

LEMMA RankedFacts ==
    ASSUME NEW s \in Seq(CleanResults)
    PROVE  Ranked(s) \in Seq(CleanResults) /\ Sorted(Ranked(s))
<1> DEFINE n == Len(s)
           u == Scored(s)
           d == u \o <<>>
           r == [k \in DOMAIN d |-> d[CHOOSE i \in DOMAIN d : Place(d, i) = k]]
<1>1. n \in Nat /\ u \in Seq(CleanResults) /\ Len(u) = n
  BY ScoredTypes
<1> HIDE DEF u, n
<1>2. d \in Seq(CleanResults) /\ DOMAIN d = 1 .. n /\ Len(d) = n
  BY <1>1
<1>3. Ranked(s) = r \o <<>>
  BY DEF Ranked, u
<1> HIDE DEF d
<1>4. \A i \in 1 .. n : d[i] \in CleanResults /\ d[i].score \in Int
  <2>1. \A r2 \in CleanResults : r2.score \in Int
    BY DEF CleanResults
  <2>2. \A i \in 1 .. n : d[i] \in CleanResults
    BY <1>1, <1>2
  <2> QED BY <2>1, <2>2
<1>5. /\ \A k \in 1 .. n : \E i \in 1 .. n : Place(d, i) = k
      /\ \A i, j \in 1 .. n : Place(d, i) < Place(d, j) => d[i].score >= d[j].score
  <2>1. \A i \in 1 .. n : d[i].score \in Int
    BY <1>4
  <2> QED BY <1>1, <1>2, <2>1, Places1ToN
<1> DEFINE at(k) == CHOOSE i \in DOMAIN d : Place(d, i) = k
<1>6. \A k \in 1 .. n : at(k) \in 1 .. n /\ Place(d, at(k)) = k
  BY <1>2, <1>5
<1>7. DOMAIN r = 1 .. n /\ \A k \in 1 .. n : r[k] = d[at(k)]
  BY <1>2
<1> HIDE DEF at, r
<1>8. r \in Seq(CleanResults) /\ Len(r) = n
  <2>1. \A k \in 1 .. n : r[k] \in CleanResults
    BY <1>4, <1>6, <1>7
  <2>2. r = [k \in 1 .. n |-> r[k]]
    BY <1>2 DEF r
  <2>3. n \in Nat
    BY <1>1
  <2> QED BY ONLY <2>1, <2>2, <2>3
<1>9. Sorted(r)
  <2> SUFFICES ASSUME NEW j \in 1 .. n, NEW i \in 1 .. n, i < j PROVE r[i].score >= r[j].score
    BY <1>7 DEF Sorted
  <2> QED BY <1>5, <1>6, <1>7
<1>10. r \o <<>> \in Seq(CleanResults) /\ r \o <<>> = r
  BY <1>8
<1> QED BY <1>3, <1>9, <1>10

\* One more result, which is not better than those before it.
LEMMA AppendSorted ==
    ASSUME NEW s \in Seq(CleanResults), NEW r \in CleanResults,
           Sorted(s), \A i \in DOMAIN s : s[i].score >= r.score
    PROVE  Sorted(Append(s, r))
<1>1. /\ DOMAIN Append(s, r) = 1 .. Len(s) + 1 /\ Len(s) \in Nat /\ DOMAIN s = 1 .. Len(s)
      /\ \A i \in 1 .. Len(s) : Append(s, r)[i] = s[i]
      /\ Append(s, r)[Len(s) + 1] = r
  OBVIOUS
<1> DEFINE t == Append(s, r)
<1> HIDE DEF t
<1> SUFFICES ASSUME NEW j \in 1 .. Len(s) + 1, NEW i \in 1 .. Len(s) + 1, i < j
             PROVE  t[i].score >= t[j].score
  BY <1>1 DEF Sorted, t
<1>2. i \in 1 .. Len(s)
  BY <1>1
<1>3. CASE j = Len(s) + 1
  BY <1>1, <1>2, <1>3 DEF t
<1>4. CASE j # Len(s) + 1
  <2>1. j \in 1 .. Len(s)
    BY <1>1, <1>4
  <2> QED BY <1>1, <1>2, <2>1 DEF t, Sorted
<1> QED BY <1>3, <1>4

LEMMA AppendDistinct ==
    ASSUME NEW s \in Seq(CleanResults), NEW r \in CleanResults,
           Distinct(s), \A i \in DOMAIN s : Normalized(s[i]) # Normalized(r) /\ ~ Similar(r, s[i])
    PROVE  Distinct(Append(s, r))
<1>1. /\ DOMAIN Append(s, r) = 1 .. Len(s) + 1 /\ Len(s) \in Nat /\ DOMAIN s = 1 .. Len(s)
      /\ \A i \in 1 .. Len(s) : Append(s, r)[i] = s[i]
      /\ Append(s, r)[Len(s) + 1] = r
  OBVIOUS
<1> DEFINE t == Append(s, r)
<1> HIDE DEF t
<1> SUFFICES ASSUME NEW j \in 1 .. Len(s) + 1, NEW i \in 1 .. Len(s) + 1, i < j
             PROVE  Normalized(t[i]) # Normalized(t[j]) /\ ~ Similar(t[i], t[j])
  BY <1>1 DEF Distinct, t
<1>2. i \in 1 .. Len(s)
  BY <1>1
<1>3. \A a, b : Similar(a, b) <=> Similar(b, a)
  <2> SUFFICES ASSUME NEW a, NEW b PROVE Similar(a, b) <=> Similar(b, a)
    OBVIOUS
  <2>1. a.title \cap b.title = b.title \cap a.title /\ a.title \cup b.title = b.title \cup a.title
    OBVIOUS
  <2> QED BY <2>1 DEF Similar
<1>4. CASE j = Len(s) + 1
  BY <1>1, <1>2, <1>3, <1>4 DEF t
<1>5. CASE j # Len(s) + 1
  <2>1. j \in 1 .. Len(s)
    BY <1>1, <1>5
  <2> QED BY <1>1, <1>2, <2>1 DEF t, Distinct
<1> QED BY <1>4, <1>5

\* What is known of the first i results when they were sifted.
SiftedWell(acc, s, i) ==
    /\ acc \in [seen : SUBSET {Normalized(r) : r \in CleanResults}, kept : Seq(CleanResults)]
    /\ Sorted(acc.kept) /\ Distinct(acc.kept)
    /\ \A a \in DOMAIN acc.kept :
          Normalized(acc.kept[a]) \in acc.seen /\ \E h \in 1 .. i : acc.kept[a] = s[h]

LEMMA SiftedStep ==
    ASSUME NEW s \in Seq(CleanResults), Sorted(s), NEW i \in 1 .. Len(s), NEW acc,
           SiftedWell(acc, s, i - 1)
    PROVE  SiftedWell(Sifted(acc, s[i]), s, i)
<1> DEFINE X == {Normalized(f) : f \in CleanResults}
           r == s[i]
           kept == acc.kept
           t == Append(kept, r)
<1>1. Len(s) \in Nat /\ DOMAIN s = 1 .. Len(s) /\ r \in CleanResults /\ i \in Nat
  OBVIOUS
<1>2. Normalized(r) \in X
  BY <1>1
<1> HIDE DEF X, r
<1>3. acc \in [seen : SUBSET X, kept : Seq(CleanResults)] /\ kept \in Seq(CleanResults)
      /\ Sorted(kept) /\ Distinct(kept)
      /\ \A a \in DOMAIN kept : Normalized(kept[a]) \in acc.seen
                                 /\ \E h \in 1 .. i - 1 : kept[a] = s[h]
  BY DEF SiftedWell, X
<1>4. \A a \in DOMAIN kept : \E h \in 1 .. i : kept[a] = s[h]
  <2>1. \A h \in 1 .. i - 1 : h \in 1 .. i
    BY <1>1
  <2> QED BY <1>3, <2>1
<1>5. CASE Normalized(r) \in acc.seen
  <2>1. Sifted(acc, r) = acc
    BY <1>5 DEF Sifted
  <2> QED BY <1>3, <1>4, <2>1 DEF SiftedWell, r, X
<1>6. CASE Normalized(r) \notin acc.seen
  <2> DEFINE like == \E a \in DOMAIN kept : Similar(r, kept[a])
             seen == acc.seen \cup {Normalized(r)}
             new == [seen |-> seen, kept |-> IF like THEN kept ELSE t]
  <2>1. Sifted(acc, r) = new
    BY <1>6 DEF Sifted
  <2>2. seen \in SUBSET X /\ \A a \in DOMAIN kept : Normalized(kept[a]) \in seen
    BY <1>2, <1>3
  <2>3. CASE like
    <3>1. new.seen = seen /\ new.kept = kept
          /\ new \in [seen : SUBSET X, kept : Seq(CleanResults)]
      BY <1>3, <2>2, <2>3
    <3> HIDE DEF new, seen
    <3>2. SiftedWell(new, s, i)
      BY <1>3, <1>4, <2>2, <3>1 DEF SiftedWell, X
    <3> QED BY <2>1, <3>2 DEF r
  <2>4. CASE ~ like
    <3>1. /\ t \in Seq(CleanResults) /\ DOMAIN t = DOMAIN kept \cup {Len(kept) + 1}
          /\ \A a \in DOMAIN kept : t[a] = kept[a]
          /\ t[Len(kept) + 1] = r
      BY <1>1, <1>3
    <3>2. new.seen = seen /\ new.kept = t
          /\ new \in [seen : SUBSET X, kept : Seq(CleanResults)]
      BY <2>2, <2>4, <3>1
    <3>3. Sorted(t)
      <4>1. \A a \in DOMAIN kept : kept[a].score >= r.score
        <5> TAKE a \in DOMAIN kept
        <5>1. PICK h \in 1 .. i - 1 : kept[a] = s[h]
          BY <1>3
        <5>2. h \in DOMAIN s /\ i \in DOMAIN s /\ h < i
          BY <1>1
        <5> QED BY <5>1, <5>2 DEF Sorted, r
      <4> HIDE DEF t
      <4> QED BY <1>1, <1>3, <4>1, AppendSorted DEF t
    <3>4. Distinct(t)
      <4>1. \A a \in DOMAIN kept : Normalized(kept[a]) # Normalized(r) /\ ~ Similar(r, kept[a])
        BY <1>3, <1>6, <2>4
      <4> HIDE DEF t
      <4> QED BY <1>1, <1>3, <4>1, AppendDistinct DEF t
    <3>5. \A a \in DOMAIN t : Normalized(t[a]) \in seen /\ \E h \in 1 .. i : t[a] = s[h]
      <4>1. i \in 1 .. i
        BY <1>1
      <4> HIDE DEF t
      <4> QED BY <1>4, <2>2, <3>1, <4>1 DEF r
    <3> HIDE DEF new, seen, t
    <3>6. SiftedWell(new, s, i)
      BY <3>2, <3>3, <3>4, <3>5 DEF SiftedWell, X
    <3> QED BY <2>1, <3>6 DEF r
  <2> QED BY <2>3, <2>4
<1> QED BY <1>5, <1>6

\* Where duplicates are looked for, there are none.
LEMMA DeduplicatedFacts ==
    ASSUME NEW s \in Seq(CleanResults), Sorted(s)
    PROVE  /\ Deduplicated(s) \in Seq(CleanResults)
           /\ Sorted(Deduplicated(s)) /\ Distinct(Deduplicated(s))
<1> DEFINE S == [seen : SUBSET {Normalized(r) : r \in CleanResults}, kept : Seq(CleanResults)]
           first == [seen |-> {}, kept |-> <<>>]
           F == [i \in 1 .. Len(s) |-> [acc \in S |-> Sifted(acc, s[i])]]
           Is(f) == f = [i \in 0 .. Len(s) |-> IF i = 0 THEN first ELSE Sifted(f[i - 1], s[i])]
<1>1. Len(s) \in Nat /\ \A i \in 1 .. Len(s) : s[i] \in CleanResults
  OBVIOUS
<1>2. first \in S
  <2>1. <<>> \in Seq(CleanResults)
    OBVIOUS
  <2> QED BY <2>1
<1>3. ASSUME NEW acc \in S, NEW r \in CleanResults PROVE Sifted(acc, r) \in S
  <2>1. Append(acc.kept, r) \in Seq(CleanResults) /\ acc.kept \in Seq(CleanResults)
    OBVIOUS
  <2>2. acc.seen \cup {Normalized(r)} \in SUBSET {Normalized(f) : f \in CleanResults}
    OBVIOUS
  <2> QED BY <2>1, <2>2 DEF Sifted
<1> HIDE DEF S, first
<1>4. PICK f : IsRun(f, F, S, first, Len(s))
  <2>1. StepsWithin(F, S, Len(s))
    BY <1>1, <1>3 DEF StepsWithin
  <2> HIDE DEF F
  <2> QED BY <1>1, <1>2, <2>1, RunExists
<1>5. Is(f)
  <2>1. f \in [0 .. Len(s) -> S] /\ f[0] = first /\ \A i \in 1 .. Len(s) : f[i] = F[i][f[i - 1]]
    <3> HIDE DEF F
    <3> QED BY <1>4 DEF IsRun
  <2>2. \A i \in 1 .. Len(s) : i - 1 \in 0 .. Len(s) /\ i # 0
    BY <1>1
  <2>3. \A i \in 1 .. Len(s) : f[i] = Sifted(f[i - 1], s[i])
    BY <2>1, <2>2
  <2> DEFINE G(i) == IF i = 0 THEN first ELSE Sifted(f[i - 1], s[i])
  <2>4. \A i \in 0 .. Len(s) : f[i] = G(i)
    <3> TAKE i \in 0 .. Len(s)
    <3>1. i = 0 \/ i \in 1 .. Len(s)
      BY <1>1
    <3> QED BY <2>1, <2>2, <2>3, <3>1
  <2> HIDE DEF G
  <2>5. f = [i \in 0 .. Len(s) |-> G(i)]
    BY <2>1, <2>4
  <2> QED BY <2>5 DEF G
<1> DEFINE g == CHOOSE h : Is(h)
<1>6. Is(g)
  BY <1>5
<1>7. Deduplicated(s) = g[Len(s)].kept
  BY DEF Deduplicated, first
<1> HIDE DEF g, F
<1>8. g[0] = first /\ \A i \in 1 .. Len(s) : g[i] = Sifted(g[i - 1], s[i])
  <2> DEFINE G(i) == IF i = 0 THEN first ELSE Sifted(g[i - 1], s[i])
  <2>1. g = [i \in 0 .. Len(s) |-> G(i)]
    BY <1>6
  <2>2. \A i \in 0 .. Len(s) : g[i] = G(i)
    <3> HIDE DEF G
    <3> QED BY <2>1
  <2>3. 0 \in 0 .. Len(s) /\ \A i \in 1 .. Len(s) : i \in 0 .. Len(s) /\ i # 0
    BY <1>1
  <2> QED BY <2>2, <2>3
<1> DEFINE T == {i \in 0 .. Len(s) : SiftedWell(g[i], s, i)}
<1>9. 0 \in T
  <2>1. first.kept = <<>> /\ DOMAIN <<>> = {}
    BY DEF first
  <2>2. first \in [seen : SUBSET {Normalized(r) : r \in CleanResults}, kept : Seq(CleanResults)]
    BY <1>2 DEF S
  <2>3. SiftedWell(first, s, 0)
    BY <2>1, <2>2 DEF SiftedWell, Sorted, Distinct
  <2> QED BY <1>1, <1>8, <2>3
<1>10. ASSUME NEW i \in 1 .. Len(s), i - 1 \in T PROVE i \in T
  <2>1. SiftedWell(g[i - 1], s, i - 1) /\ i \in 0 .. Len(s)
    BY <1>1, <1>10
  <2>2. SiftedWell(Sifted(g[i - 1], s[i]), s, i)
    BY <2>1, SiftedStep
  <2> QED BY <1>8, <2>1, <2>2
<1>11. Len(s) \in T
  <2> HIDE DEF T
  <2>1. \A i \in 0 .. Len(s) : i \in T
    BY <1>1, <1>9, <1>10, NumberInduction
  <2>2. Len(s) \in 0 .. Len(s)
    BY <1>1
  <2> QED BY <2>1, <2>2
<1>12. SiftedWell(g[Len(s)], s, Len(s))
  BY <1>11
<1> QED BY <1>7, <1>12 DEF SiftedWell

LEMMA PreparedIsGood ==
    ASSUME NEW found \in Seq(SearchResults)
    PROVE  GoodAnswer(Prepared(found))
<1> DEFINE clean == Retained(found, {r \in ToSet(found) : ~ Dropped(r)})
           c == [i \in DOMAIN clean |-> Sanitized(clean[i])]
           ranked == Ranked(c)
           d == IF SearchConfig.dedup THEN Deduplicated(ranked) ELSE ranked
           t == Truncated(d)
<1>1. clean \in Seq(SearchResults) /\ ToSet(clean) = ToSet(found) \cap {r \in ToSet(found) : ~ Dropped(r)}
  BY RetainedMembers
<1>2. Prepared(found) = t
  BY DEF Prepared
<1> HIDE DEF clean
<1>3. c \in Seq(CleanResults)
  <2>1. \A i \in DOMAIN clean : clean[i] \in SearchResults /\ ~ Dropped(clean[i])
    <3> TAKE i \in DOMAIN clean
    <3>1. clean[i] \in ToSet(clean)
      BY DEF ToSet
    <3> QED BY <1>1, <3>1
  <2>2. \A i \in DOMAIN clean : Sanitized(clean[i]) \in CleanResults
    BY <2>1, SanitizedIsClean
  <2>3. DOMAIN clean = 1 .. Len(clean) /\ Len(clean) \in Nat
    BY <1>1
  <2> QED BY <2>2, <2>3
<1> HIDE DEF c
<1>4. ranked \in Seq(CleanResults) /\ Sorted(ranked)
  BY <1>3, RankedFacts
<1> HIDE DEF ranked
<1>5. d \in Seq(CleanResults) /\ Sorted(d) /\ (SearchConfig.dedup => Distinct(d))
  BY <1>4, DeduplicatedFacts
<1> HIDE DEF d
<1>6. /\ t \in Seq(CleanResults) /\ Len(t) <= MaxResults /\ Len(t) <= Len(d)
      /\ \A i \in 1 .. Len(t) : t[i] = d[i]
  BY <1>5, TruncatedPrefix
<1> HIDE DEF t
<1>7. DOMAIN t = 1 .. Len(t) /\ DOMAIN d = 1 .. Len(d) /\ Len(t) \in Nat /\ Len(d) \in Nat
  BY <1>5, <1>6
<1>8. \A i \in DOMAIN t : i \in DOMAIN d /\ t[i] = d[i]
  BY <1>6, <1>7
<1>9. Sorted(t)
  BY <1>5, <1>8 DEF Sorted
<1>10. SearchConfig.dedup => Distinct(t)
  BY <1>5, <1>8 DEF Distinct
<1> QED BY <1>2, <1>6, <1>9, <1>10 DEF GoodAnswer

-----------------------------------------------------------------------------
(* The cache.                                                              *)

CacheKeys == {CacheKey(asked) : asked \in Queries}

\* The n members of o are the last ones of r.
AreLast(o, r, n) ==
    /\ Len(o) = n /\ n <= Len(r)
    /\ \A i \in 1 .. n : o[i] = r[Len(r) - n + i]

\* A key that was there moves to the end, and another one comes behind it.
LEMMA TouchedFacts ==
    ASSUME NEW A, NEW s \in Seq(A), NEW q \in A, IsInjective(s)
    PROVE  LET t == Touched(s, q)
           IN  /\ t \in Seq(A) /\ IsInjective(t) /\ ToSet(t) = ToSet(s) \cup {q}
               /\ q \notin ToSet(s) =>
                    /\ Len(t) = Len(s) + 1 /\ t[Len(s) + 1] = q
                    /\ \A i \in 1 .. Len(s) : t[i] = s[i]
               /\ \A p \in DOMAIN s : s[p] = q =>
                    /\ Len(t) = Len(s) /\ t[Len(s)] = q
                    /\ \A i \in 1 .. Len(s) - 1 : t[i] = IF i < p THEN s[i] ELSE s[i + 1]
<1> DEFINE t == Touched(s, q)
           C == {i \in DOMAIN s : s[i] = q}
<1>0. Len(s) \in Nat /\ DOMAIN s = 1 .. Len(s) /\ \A a, b \in DOMAIN s : s[a] = s[b] => a = b
  BY DEF IsInjective
<1>1. CASE q \notin ToSet(s)
  <2>1. C = {} /\ \A p \in DOMAIN s : s[p] # q
    BY <1>1 DEF ToSet
  <2>2. t = Append(s, q)
    BY <2>1 DEF Touched
  <2>3. t \in Seq(A) /\ ToSet(t) = ToSet(s) \cup {q} /\ \A a, b \in DOMAIN t : t[a] = t[b] => a = b
    BY <1>0, <1>1, <2>2, AppendSet
  <2>4. Len(t) = Len(s) + 1 /\ t[Len(s) + 1] = q /\ \A i \in 1 .. Len(s) : t[i] = s[i]
    BY <1>0, <2>2
  <2>5. IsInjective(t)
    BY <2>3 DEF IsInjective
  <2> HIDE DEF t
  <2> QED BY <2>1, <2>3, <2>4, <2>5 DEF t
<1>2. CASE q \in ToSet(s)
  <2>1. PICK p \in DOMAIN s : s[p] = q
    BY <1>2 DEF ToSet
  <2>2. C = {p}
    BY <1>0, <2>1
  <2>3. Min(C) = p
    <3>1. p \in Nat /\ \A x \in {p} : x = p
      BY <1>0
    <3>2. \E x \in {p} : \A y \in {p} : x <= y
      BY <3>1
    <3>3. Min({p}) \in {p}
      BY <3>2 DEF Min
    <3> QED BY <2>2, <3>3
  <2> DEFINE u == RemoveAt(s, p)
  <2>4. t = Append(u, q)
    BY <2>2, <2>3 DEF Touched
  <2>5. /\ u \in Seq(A) /\ Len(u) = Len(s) - 1
        /\ \A j \in 1 .. Len(s) - 1 : u[j] = IF j < p THEN s[j] ELSE s[j + 1]
    BY RemoveAtProperties
  <2>6. ToSet(u) = ToSet(s) \ {q} /\ \A a, b \in DOMAIN u : u[a] = u[b] => a = b
    BY <1>0, <2>1, RemoveAtSet
  <2> HIDE DEF u
  <2>7. q \notin ToSet(u)
    BY <2>6
  <2>8. t \in Seq(A) /\ ToSet(t) = ToSet(u) \cup {q} /\ \A a, b \in DOMAIN t : t[a] = t[b] => a = b
    BY <2>4, <2>5, <2>6, <2>7, AppendSet
  <2>9. Len(t) = Len(s) /\ t[Len(s)] = q /\ \A i \in 1 .. Len(s) - 1 : t[i] = u[i]
    <3>1. /\ Len(t) = Len(u) + 1 /\ t[Len(u) + 1] = q /\ DOMAIN u = 1 .. Len(u)
          /\ \A i \in 1 .. Len(u) : t[i] = u[i]
      BY <2>4, <2>5
    <3> QED BY <1>0, <2>5, <3>1
  <2>10. IsInjective(t) /\ ToSet(t) = ToSet(s) \cup {q}
    BY <1>2, <2>6, <2>8 DEF IsInjective
  <2>11. \A x \in DOMAIN s : s[x] = q => x = p
    BY <1>0, <2>1
  <2> HIDE DEF t
  <2> QED BY <1>2, <2>5, <2>8, <2>9, <2>10, <2>11 DEF t
<1> QED BY <1>1, <1>2

\* What is asked again moves to the end of both.
LEMMA TouchedAgain ==
    ASSUME NEW A, NEW o \in Seq(A), NEW r \in Seq(A), NEW n \in Nat, NEW q \in A,
           IsInjective(o), IsInjective(r), AreLast(o, r, n), q \in ToSet(o)
    PROVE  /\ AreLast(Touched(o, q), Touched(r, q), n)
           /\ Len(Touched(r, q)) = Len(r)
<1> DEFINE o2 == Touched(o, q)
           r2 == Touched(r, q)
           d == Len(r) - n
<1>1. /\ Len(o) = n /\ Len(r) \in Nat /\ n <= Len(r) /\ DOMAIN o = 1 .. n /\ DOMAIN r = 1 .. Len(r)
      /\ d \in Nat /\ \A i \in 1 .. n : o[i] = r[d + i]
  BY DEF AreLast
<1>2. PICK p \in DOMAIN o : o[p] = q
  BY DEF ToSet
<1>3. d + p \in DOMAIN r /\ r[d + p] = q
  BY <1>1, <1>2
<1>4. /\ Len(o2) = n /\ o2[n] = q
      /\ \A i \in 1 .. n - 1 : o2[i] = IF i < p THEN o[i] ELSE o[i + 1]
  <2>1. /\ Len(o2) = Len(o) /\ o2[Len(o)] = q
        /\ \A i \in 1 .. Len(o) - 1 : o2[i] = IF i < p THEN o[i] ELSE o[i + 1]
    BY <1>2, TouchedFacts
  <2> HIDE DEF o2
  <2> QED BY <1>1, <2>1
<1>5. /\ Len(r2) = Len(r) /\ r2[Len(r)] = q
      /\ \A i \in 1 .. Len(r) - 1 : r2[i] = IF i < d + p THEN r[i] ELSE r[i + 1]
  <2> DEFINE m == d + p
  <2>1. m \in DOMAIN r /\ r[m] = q
    BY <1>3
  <2> HIDE DEF m
  <2>2. /\ Len(r2) = Len(r) /\ r2[Len(r)] = q
        /\ \A i \in 1 .. Len(r) - 1 : r2[i] = IF i < m THEN r[i] ELSE r[i + 1]
    BY <2>1, TouchedFacts
  <2> QED BY <2>2 DEF m
<1> HIDE DEF o2, r2
<1>6. ASSUME NEW i \in 1 .. n PROVE o2[i] = r2[d + i]
  <2>1. CASE i = n
    <3>1. d + i = Len(r)
      BY <1>1, <2>1
    <3> QED BY <1>4, <1>5, <2>1, <3>1
  <2>2. CASE i # n
    <3>1. i \in 1 .. n - 1 /\ d + i \in 1 .. Len(r) - 1 /\ (i < p <=> d + i < d + p)
          /\ i + 1 \in 1 .. n /\ d + (i + 1) = d + i + 1
      BY <1>1, <1>2, <2>2
    <3>2. o[i] = r[d + i] /\ o[i + 1] = r[d + i + 1]
      BY <1>1, <3>1
    <3> QED BY <1>4, <1>5, <3>1, <3>2
  <2> QED BY <2>1, <2>2
<1> QED BY <1>1, <1>4, <1>5, <1>6 DEF AreLast, o2, r2

\* What is asked anew comes behind both; if it was asked before, longer ago than
\* what is kept, there is more to remember than is kept.
LEMMA TouchedAnew ==
    ASSUME NEW A, NEW o \in Seq(A), NEW r \in Seq(A), NEW n \in Nat, NEW q \in A,
           IsInjective(o), IsInjective(r), AreLast(o, r, n), q \notin ToSet(o)
    PROVE  /\ AreLast(Touched(o, q), Touched(r, q), n + 1)
           /\ Len(Touched(r, q)) = Len(r) + 1 \/ (Len(Touched(r, q)) = Len(r) /\ n < Len(r))
<1> DEFINE o2 == Touched(o, q)
           r2 == Touched(r, q)
           d == Len(r) - n
<1>1. /\ Len(o) = n /\ Len(r) \in Nat /\ n <= Len(r) /\ DOMAIN o = 1 .. n /\ DOMAIN r = 1 .. Len(r)
      /\ d \in Nat /\ \A i \in 1 .. n : o[i] = r[d + i]
  BY DEF AreLast
<1>2. Len(o2) = n + 1 /\ o2[n + 1] = q /\ \A i \in 1 .. n : o2[i] = o[i]
  <2>1. Len(o2) = Len(o) + 1 /\ o2[Len(o) + 1] = q /\ \A i \in 1 .. Len(o) : o2[i] = o[i]
    BY TouchedFacts
  <2> HIDE DEF o2
  <2> QED BY <1>1, <2>1
<1>3. CASE q \notin ToSet(r)
  <2>1. Len(r2) = Len(r) + 1 /\ r2[Len(r) + 1] = q /\ \A i \in 1 .. Len(r) : r2[i] = r[i]
    BY <1>3, TouchedFacts
  <2> HIDE DEF o2, r2
  <2>2. ASSUME NEW i \in 1 .. n + 1 PROVE o2[i] = r2[d + i]
    <3>1. CASE i = n + 1
      <4>1. d + i = Len(r) + 1
        BY <1>1, <3>1
      <4> QED BY <1>2, <2>1, <3>1, <4>1
    <3>2. CASE i # n + 1
      <4>1. i \in 1 .. n /\ d + i \in 1 .. Len(r)
        BY <1>1, <3>2
      <4> QED BY <1>1, <1>2, <2>1, <4>1
    <3> QED BY <3>1, <3>2
  <2>3. Len(r2) - (n + 1) = d /\ n + 1 <= Len(r2)
    BY <1>1, <2>1
  <2> QED BY <1>2, <2>1, <2>2, <2>3 DEF AreLast, o2, r2
<1>4. CASE q \in ToSet(r)
  <2>1. PICK p \in DOMAIN r : r[p] = q
    BY <1>4 DEF ToSet
  <2>2. p <= d
    <3> SUFFICES ASSUME p > d PROVE FALSE
      BY <1>1
    <3>1. p - d \in 1 .. n /\ d + (p - d) = p
      BY <1>1
    <3>2. o[p - d] = q /\ p - d \in DOMAIN o
      BY <1>1, <2>1, <3>1
    <3> QED BY <3>2 DEF ToSet
  <2>3. /\ Len(r2) = Len(r) /\ r2[Len(r)] = q
        /\ \A i \in 1 .. Len(r) - 1 : r2[i] = IF i < p THEN r[i] ELSE r[i + 1]
    BY <2>1, TouchedFacts
  <2> HIDE DEF o2, r2
  <2>4. ASSUME NEW i \in 1 .. n + 1 PROVE o2[i] = r2[d - 1 + i]
    <3>1. CASE i = n + 1
      <4>1. d - 1 + i = Len(r)
        BY <1>1, <3>1
      <4> QED BY <1>2, <2>3, <3>1, <4>1
    <3>2. CASE i # n + 1
      <4>1. i \in 1 .. n /\ d - 1 + i \in 1 .. Len(r) - 1 /\ ~ (d - 1 + i < p) /\ d - 1 + i + 1 = d + i
        BY <1>1, <2>1, <2>2, <3>2
      <4>2. r2[d - 1 + i] = r[d + i]
        BY <2>3, <4>1
      <4> QED BY <1>1, <1>2, <4>1, <4>2
    <3> QED BY <3>1, <3>2
  <2>5. Len(r2) - (n + 1) = d - 1 /\ n + 1 <= Len(r2) /\ n < Len(r)
    BY <1>1, <2>1, <2>2, <2>3
  <2> QED BY <1>2, <2>3, <2>4, <2>5 DEF AreLast, o2, r2
<1> QED BY <1>3, <1>4

Firsts(o, k) == {o[i] : i \in 1 .. k}

\* What goes is in front.
LEMMA LastOfLast ==
    ASSUME NEW A, NEW o \in Seq(A), NEW r \in Seq(A), NEW n \in Nat, NEW k \in 0 .. n,
           IsInjective(o), AreLast(o, r, n)
    PROVE  LET t == SubSeq(o, k + 1, Len(o))
           IN  /\ t \in Seq(A) /\ IsInjective(t) /\ AreLast(t, r, n - k)
               /\ ToSet(t) = ToSet(o) \ Firsts(o, k)
<1> DEFINE t == SubSeq(o, k + 1, Len(o))
<1>1. /\ Len(o) = n /\ Len(r) \in Nat /\ n <= Len(r) /\ DOMAIN o = 1 .. n
      /\ \A i \in 1 .. n : o[i] = r[Len(r) - n + i]
      /\ \A a, b \in 1 .. n : o[a] = o[b] => a = b
  <2>1. /\ Len(o) = n /\ Len(r) \in Nat /\ n <= Len(r) /\ DOMAIN o = 1 .. n
        /\ \A i \in 1 .. n : o[i] = r[Len(r) - n + i]
    BY DEF AreLast
  <2>2. \A a, b \in DOMAIN o : o[a] = o[b] => a = b
    BY DEF IsInjective
  <2> QED BY <2>1, <2>2
<1>2. /\ t \in Seq(A) /\ Len(t) = n - k /\ DOMAIN t = 1 .. n - k
      /\ \A i \in 1 .. n - k : t[i] = o[k + i]
  <2>1. k + 1 \in 1 .. n + 1 /\ n - k \in Nat /\ n - (k + 1) + 1 = n - k
    OBVIOUS
  <2>2. \A i \in 1 .. n - k : k + 1 + i - 1 = k + i
    OBVIOUS
  <2>3. t = [i \in 1 .. n - k |-> o[k + i]]
    <3>1. t = [i \in 1 .. n - (k + 1) + 1 |-> o[k + 1 + i - 1]]
      BY <1>1
    <3> QED BY <2>1, <2>2, <3>1
  <2>4. \A i \in 1 .. n - k : o[k + i] \in A
    <3>1. \A i \in 1 .. n - k : k + i \in 1 .. n
      OBVIOUS
    <3> QED BY <1>1, <3>1
  <2> HIDE DEF t
  <2> QED BY <2>1, <2>3, <2>4
<1> HIDE DEF t
<1>3. \A i \in 1 .. n - k : k + i \in 1 .. n /\ Len(r) - (n - k) + i = Len(r) - n + (k + i)
  BY <1>1
<1>4. AreLast(t, r, n - k)
  BY <1>1, <1>2, <1>3 DEF AreLast
<1>5. IsInjective(t)
  <2>1. \A a, b \in 1 .. n - k : k + a = k + b => a = b
    OBVIOUS
  <2> QED BY <1>1, <1>2, <1>3, <2>1 DEF IsInjective
<1>6. ToSet(t) \subseteq ToSet(o) \ Firsts(o, k)
  <2> SUFFICES ASSUME NEW j \in 1 .. n - k PROVE o[k + j] \in ToSet(o) \ Firsts(o, k)
    BY <1>2 DEF ToSet
  <2>1. k + j \in 1 .. n /\ k + j \notin 1 .. k /\ 1 .. k \subseteq 1 .. n
    BY <1>3
  <2> QED BY <1>1, <2>1 DEF ToSet, Firsts
<1>7. ToSet(o) \ Firsts(o, k) \subseteq ToSet(t)
  <2> SUFFICES ASSUME NEW j \in 1 .. n, j \notin 1 .. k PROVE o[j] \in ToSet(t)
    BY <1>1 DEF ToSet, Firsts
  <2>1. j - k \in 1 .. n - k /\ k + (j - k) = j
    OBVIOUS
  <2>2. t[j - k] = o[j] /\ j - k \in DOMAIN t
    BY <1>2, <2>1
  <2> QED BY <2>2 DEF ToSet
<1> QED BY <1>2, <1>4, <1>5, <1>6, <1>7 DEF t

-----------------------------------------------------------------------------
(* The steps of the search.                                                *)

KeptOf(n) == IF MaxEntries <= n THEN MaxEntries ELSE n

\* The queries that were answered, the last of them in the cache, whose answers
\* are as good as the last one.
SearchInv ==
    /\ backends \subseteq BackendNames
    /\ recent \in Seq(CacheKeys) /\ IsInjective(recent)
    /\ order \in Seq(CacheKeys) /\ IsInjective(order)
    /\ AreLast(order, recent, KeptOf(Len(recent)))
    /\ DOMAIN entries = ToSet(order)
    /\ \A q \in DOMAIN entries : GoodAnswer(entries[q].results)
    /\ GoodAnswer(answer)

LEMMA SearchInitInv == SearchInit => SearchInv
<1> SUFFICES ASSUME SearchInit PROVE SearchInv
  OBVIOUS
<1>1. <<>> \in Seq(CacheKeys) /\ <<>> \in Seq(CleanResults) /\ DOMAIN <<>> = {} /\ Len(<<>>) = 0
  OBVIOUS
<1>2. IsInjective(<<>>) /\ ToSet(<<>>) = {}
  BY <1>1 DEF IsInjective, ToSet
<1>3. GoodAnswer(<<>>)
  BY <1>1, SearchAssumption DEF GoodAnswer, Sorted, Distinct
<1>4. AreLast(<<>>, <<>>, KeptOf(0))
  BY <1>1, SearchAssumption DEF AreLast, KeptOf
<1>5. backends \subseteq BackendNames
  BY SearchAssumption DEF SearchInit
<1> QED BY <1>1, <1>2, <1>3, <1>4, <1>5 DEF SearchInit, SearchInv

LEMMA SearchHitInv ==
    ASSUME SearchInv, NEW q \in CacheKeys, SearchHit(q)
    PROVE  SearchInv'
<1>1. /\ q \in DOMAIN entries /\ answer' = entries[q].results
      /\ order' = Touched(order, q) /\ recent' = Touched(recent, q)
      /\ backends' = backends /\ entries' = entries
  BY DEF SearchHit, Live
<1> DEFINE n == KeptOf(Len(recent))
<1>2. /\ recent \in Seq(CacheKeys) /\ IsInjective(recent)
      /\ order \in Seq(CacheKeys) /\ IsInjective(order)
      /\ AreLast(order, recent, n) /\ q \in ToSet(order) /\ ToSet(order) = DOMAIN entries
  BY <1>1 DEF SearchInv
<1>3. n \in Nat
  BY <1>2, SearchAssumption DEF KeptOf
<1>4. AreLast(order', recent', n) /\ Len(recent') = Len(recent)
  <2> HIDE DEF n
  <2> QED BY <1>1, <1>2, <1>3, TouchedAgain
<1>5. order' \in Seq(CacheKeys) /\ IsInjective(order') /\ ToSet(order') = ToSet(order)
  <2>1. LET t == Touched(order, q)
        IN  t \in Seq(CacheKeys) /\ IsInjective(t) /\ ToSet(t) = ToSet(order) \cup {q}
    BY <1>2, TouchedFacts
  <2> QED BY <1>1, <1>2, <2>1
<1>6. recent' \in Seq(CacheKeys) /\ IsInjective(recent')
  <2>1. LET t == Touched(recent, q) IN t \in Seq(CacheKeys) /\ IsInjective(t)
    BY <1>2, TouchedFacts
  <2> QED BY <1>1, <2>1
<1> QED BY <1>1, <1>2, <1>4, <1>5, <1>6 DEF SearchInv

\* The room that is made is for one entry at most.
LEMMA InsertKeepsLast ==
    ASSUME SearchInv, NEW q \in CacheKeys, NEW results, GoodAnswer(results),
           InsertAnswer(q, results), recent' = Touched(recent, q), answer' = results,
           backends' = backends
    PROVE  SearchInv'
<1> DEFINE longer == Touched(order, q)
           over == Len(longer) - Min({MaxEntries, Len(longer)})
           gone == {longer[i] : i \in 1 .. over}
           n == KeptOf(Len(recent))
<1>1. /\ order' = SubSeq(longer, over + 1, Len(longer))
      /\ DOMAIN entries' = (DOMAIN entries \cup {q}) \ gone
      /\ \A p \in DOMAIN entries' :
            entries'[p] = IF p = q THEN [results |-> results, expires |-> instant + Ttl] ELSE entries[p]
  BY DEF InsertAnswer
<1>2. /\ recent \in Seq(CacheKeys) /\ IsInjective(recent)
      /\ order \in Seq(CacheKeys) /\ IsInjective(order)
      /\ AreLast(order, recent, n) /\ ToSet(order) = DOMAIN entries
      /\ \A p \in DOMAIN entries : GoodAnswer(entries[p].results)
      /\ backends \subseteq BackendNames
  BY DEF SearchInv
<1>3. MaxEntries \in Nat /\ Len(recent) \in Nat /\ n \in Nat /\ Len(order) = n /\ n <= Len(recent)
  BY <1>2, SearchAssumption DEF KeptOf, AreLast
<1>4. longer \in Seq(CacheKeys) /\ IsInjective(longer) /\ ToSet(longer) = ToSet(order) \cup {q}
  BY <1>2, TouchedFacts
<1>5. recent' \in Seq(CacheKeys) /\ IsInjective(recent')
  <2>1. LET t == Touched(recent, q) IN t \in Seq(CacheKeys) /\ IsInjective(t)
    BY <1>2, TouchedFacts
  <2> QED BY <2>1
<1> DEFINE m == IF q \in ToSet(order) THEN n ELSE n + 1
<1>6. AreLast(longer, recent', m)
  <2> HIDE DEF n
  <2>1. CASE q \in ToSet(order)
    BY <1>2, <1>3, <2>1, TouchedAgain
  <2>2. CASE q \notin ToSet(order)
    BY <1>2, <1>3, <2>2, TouchedAnew
  <2> QED BY <2>1, <2>2
<1>7. m - over = KeptOf(Len(recent')) /\ over \in 0 .. m /\ m \in Nat
  <2>1. m \in Nat /\ Len(longer) = m
    BY <1>3, <1>6 DEF AreLast
  <2>2. over = m - KeptOf(m)
    <3>1. MaxEntries \in Int /\ m \in Int
      BY <1>3, <2>1
    <3>2. Min({MaxEntries, m}) = IF MaxEntries <= m THEN MaxEntries ELSE m
      BY <3>1, MinOfTwo
    <3> QED BY <2>1, <3>2 DEF KeptOf
  <2>3. KeptOf(m) = KeptOf(Len(recent'))
    <3>1. CASE q \in ToSet(order)
      <4>1. Len(recent') = Len(recent)
        <5> HIDE DEF n
        <5> QED BY <1>2, <1>3, <3>1, TouchedAgain
      <4> QED BY <1>3, <3>1, <4>1 DEF KeptOf
    <3>2. CASE q \notin ToSet(order)
      <4>1. Len(recent') = Len(recent) + 1 \/ (Len(recent') = Len(recent) /\ n < Len(recent))
        <5> HIDE DEF n
        <5> QED BY <1>2, <1>3, <3>2, TouchedAnew
      <4> QED BY <1>3, <3>2, <4>1 DEF KeptOf
    <3> QED BY <3>1, <3>2
  <2>4. KeptOf(m) \in Nat /\ KeptOf(m) <= m
    BY <1>3, <2>1 DEF KeptOf
  <2> HIDE DEF over, m
  <2> QED BY <2>1, <2>2, <2>3, <2>4
<1> HIDE DEF longer, over, gone, m, n
<1>8. /\ order' \in Seq(CacheKeys) /\ IsInjective(order')
      /\ AreLast(order', recent', m - over)
      /\ ToSet(order') = ToSet(longer) \ gone
  <2>1. LET t == SubSeq(longer, over + 1, Len(longer))
        IN  /\ t \in Seq(CacheKeys) /\ IsInjective(t) /\ AreLast(t, recent', m - over)
            /\ ToSet(t) = ToSet(longer) \ Firsts(longer, over)
    <3> DEFINE z == recent'
    <3>1. longer \in Seq(CacheKeys) /\ IsInjective(longer)
      BY <1>4
    <3>2. z \in Seq(CacheKeys) /\ AreLast(longer, z, m) /\ m \in Nat /\ over \in 0 .. m
      BY <1>5, <1>6, <1>7
    <3> HIDE DEF z
    <3>3. LET t == SubSeq(longer, over + 1, Len(longer))
          IN  /\ t \in Seq(CacheKeys) /\ IsInjective(t) /\ AreLast(t, z, m - over)
              /\ ToSet(t) = ToSet(longer) \ Firsts(longer, over)
      BY ONLY <3>1, <3>2, LastOfLast
    <3> QED BY <3>3 DEF z
  <2> QED BY <1>1, <2>1 DEF gone, Firsts
<1>9. DOMAIN entries' = ToSet(order')
  BY <1>1, <1>2, <1>4, <1>8
<1>10. \A p \in DOMAIN entries' : GoodAnswer(entries'[p].results)
  <2> TAKE p \in DOMAIN entries'
  <2>1. CASE p = q
    BY <1>1, <2>1
  <2>2. CASE p # q
    <3>1. p \in DOMAIN entries
      BY <1>1, <2>2
    <3> QED BY <1>1, <1>2, <2>2, <3>1
  <2> QED BY <2>1, <2>2
<1> QED BY <1>2, <1>5, <1>7, <1>8, <1>9, <1>10 DEF SearchInv

LEMMA SearchBackendsInv ==
    ASSUME SearchInv, NEW q \in CacheKeys, SearchBackendsFor(q)
    PROVE  SearchInv'
<1>1. PICK arrival \in SetToSeqs(backends), sent \in [backends -> Sent \cup {<<>>}] :
          answer' = Prepared(FlattenSeq([i \in DOMAIN arrival |-> Fetch(arrival[i], sent[arrival[i]])]))
  BY DEF SearchBackendsFor
<1> DEFINE s == [i \in DOMAIN arrival |-> Fetch(arrival[i], sent[arrival[i]])]
           found == FlattenSeq(s)
<1>2. s \in Seq(Seq(SearchResults))
  <2>1. arrival \in [1 .. Cardinality(backends) -> backends] /\ backends \subseteq BackendNames
    BY DEF SetToSeqs, SearchInv
  <2>2. \A i \in DOMAIN arrival : Fetch(arrival[i], sent[arrival[i]]) \in Seq(SearchResults)
    <3> TAKE i \in DOMAIN arrival
    <3>1. arrival[i] \in backends /\ arrival[i] \in BackendNames
      BY <2>1
    <3>2. sent[arrival[i]] \in Sent \cup {<<>>}
      BY <3>1
    <3>3. <<>> \in Seq(SearchResults)
      OBVIOUS
    <3>4. sent[arrival[i]] \in Seq(SearchResults)
      BY <3>2, <3>3, SearchAssumption
    <3> QED BY <3>1, <3>4, FetchTypes
  <2>3. DOMAIN arrival = 1 .. Cardinality(backends) /\ Cardinality(backends) \in Nat
    <3>1. IsFiniteSet(BackendNames)
      <4> DEFINE E == {"ddg"}
                 G == E \cup {"stract"}
                 H == G \cup {"mojeek"}
                 I == H \cup {"searxng"}
                 J == I \cup {"wikipedia"}
                 K == J \cup {"brave"}
      <4>1. IsFiniteSet(E)
        BY FS_Singleton
      <4>2. BackendNames = K
        BY DEF BackendNames
      <4> HIDE DEF E
      <4>3. IsFiniteSet(G)
        BY <4>1, FS_AddElement
      <4> HIDE DEF G
      <4>4. IsFiniteSet(H)
        BY <4>3, FS_AddElement
      <4> HIDE DEF H
      <4>5. IsFiniteSet(I)
        BY <4>4, FS_AddElement
      <4> HIDE DEF I
      <4>6. IsFiniteSet(J)
        BY <4>5, FS_AddElement
      <4> HIDE DEF J
      <4>7. IsFiniteSet(K)
        BY <4>6, FS_AddElement
      <4> QED BY <4>2, <4>7
    <3>2. IsFiniteSet(backends)
      BY <2>1, <3>1, FS_Subset
    <3> QED BY <2>1, <3>2, FS_CardinalityType
  <2> QED BY <2>2, <2>3
<1> HIDE DEF s
<1>3. found \in Seq(SearchResults)
  BY <1>2, FlattenFacts
<1> HIDE DEF found
<1>4. GoodAnswer(answer')
  <2>1. answer' = Prepared(found)
    BY <1>1 DEF found, s
  <2> QED BY <1>3, <2>1, PreparedIsGood
<1>5. InsertAnswer(q, answer') /\ recent' = Touched(recent, q) /\ backends' = backends
  BY DEF SearchBackendsFor
<1> QED BY <1>4, <1>5, InsertKeepsLast

LEMMA SearchNextInv == SearchInv /\ [SearchNext]_searchVars => SearchInv'
<1> SUFFICES ASSUME SearchInv, [SearchNext]_searchVars PROVE SearchInv'
  OBVIOUS
<1>1. ASSUME UNCHANGED <<backends, entries, order, answer, recent>> PROVE SearchInv'
  BY <1>1 DEF SearchInv
<1>2. CASE UNCHANGED searchVars
  BY <1>1, <1>2 DEF searchVars
<1>3. CASE \E q \in Queries : SearchFor(q)
  <2>1. PICK asked \in Queries : SearchFor(asked)
    BY <1>3
  <2>2. CacheKey(asked) \in CacheKeys
    BY DEF CacheKeys
  <2> QED BY <2>1, <2>2, SearchHitInv, SearchBackendsInv DEF SearchFor
<1>4. CASE ClockTicks \/ IndexNext
  BY <1>1, <1>4 DEF ClockTicks, IndexNext, IndexPage, DeletePage, ClearIndex, Reload
<1> QED BY <1>2, <1>3, <1>4 DEF SearchNext, CacheNext

\* Every answer, from the cache or from the backends, in whatever order they
\* arrived, is clean, ranked and free of duplicates; and the cache holds the
\* answers used last (search_with_report, SearchCache).
THEOREM AnswersStayClean == SearchSpec => []AnswersClean
<1>1. SearchInv => AnswersClean
  <2> SUFFICES ASSUME SearchInv PROVE AnswersClean
    OBVIOUS
  <2> DEFINE n == KeptOf(Len(recent))
  <2>1. /\ recent \in Seq(CacheKeys) /\ order \in Seq(CacheKeys) /\ AreLast(order, recent, n)
        /\ DOMAIN entries = ToSet(order) /\ GoodAnswer(answer)
    BY DEF SearchInv
  <2>2. MaxEntries \in Nat /\ Len(recent) \in Nat /\ n \in Nat /\ n <= Len(recent) /\ Len(order) = n
    BY <2>1, SearchAssumption DEF KeptOf, AreLast
  <2>3. Min({MaxEntries, Len(recent)}) = n
    <3>1. MaxEntries \in Int /\ Len(recent) \in Int
      BY <2>2
    <3> QED BY <3>1, MinOfTwo DEF KeptOf
  <2> HIDE DEF n
  <2>4. order = SubSeq(recent, Len(recent) + 1 - n, Len(recent))
    <3> DEFINE t == SubSeq(recent, Len(recent) + 1 - n, Len(recent))
               d == Len(recent) - n
    <3>1. d \in Nat /\ Len(recent) + 1 - n = d + 1 /\ Len(recent) = d + n
      BY <2>2
    <3> HIDE DEF d
    <3>2. t = [i \in 1 .. n |-> recent[d + i]]
      <4>1. t = SubSeq(recent, d + 1, d + n)
        BY <3>1
      <4>2. SubSeq(recent, d + 1, d + n) = [i \in 1 .. n |-> recent[d + i]]
        <5>1. \A i \in 1 .. n : d + 1 + i - 1 = d + i
          BY <2>2, <3>1
        <5>2. d + n - (d + 1) + 1 = n
          BY <2>2, <3>1
        <5> QED BY <2>1, <2>2, <3>1, <5>1, <5>2
      <4> QED BY <4>1, <4>2
    <3>3. order = [i \in 1 .. n |-> order[i]]
      BY <2>1, <2>2
    <3>4. \A i \in 1 .. n : order[i] = recent[d + i]
      BY <2>1 DEF AreLast, d
    <3> QED BY <3>2, <3>3, <3>4
  <2>5. CacheInOrder
    BY <2>1, <2>3, <2>4 DEF CacheInOrder
  <2>6. answer \in Seq(CleanResults) /\ DOMAIN answer = 1 .. Len(answer) /\ Len(answer) \in Nat
    BY <2>1 DEF GoodAnswer
  <2>7. ASSUME NEW j \in DOMAIN answer
        PROVE  /\ SearchConfig.strict /\ SearchConfig.blockLocal => ~ answer[j].local
               /\ SearchConfig.strict /\ SearchConfig.blockIp => ~ answer[j].ip
    <3>1. answer[j] \in CleanResults
      BY <2>6
    <3>2. Allowed(answer[j])
      BY <3>1 DEF CleanResults
    <3> QED BY <3>2 DEF Allowed
  <2>8. ASSUME NEW j \in DOMAIN answer, NEW i \in 1 .. j - 1
        PROVE  /\ answer[i].score >= answer[j].score
               /\ SearchConfig.dedup => /\ Normalized(answer[i]) # Normalized(answer[j])
                                        /\ ~ Similar(answer[i], answer[j])
    <3>1. i \in DOMAIN answer /\ i < j
      BY <2>6
    <3> QED BY <2>1, <3>1 DEF GoodAnswer, Sorted, Distinct
  <2> QED BY <2>1, <2>5, <2>7, <2>8 DEF AnswersClean, GoodAnswer
<1> QED BY <1>1, SearchInitInv, SearchNextInv, PTL DEF SearchSpec

==============================================================================
