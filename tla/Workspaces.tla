---------------------------- MODULE Workspaces -----------------------------
(***************************************************************************)
(* The workspaces of the window (fortrust-core, workspaces.rs) and what the *)
(* window does with them when tabs open and close (fortrust-chrome, app.rs  *)
(* and sidebar.rs).  The tabs of a workspace are a set: their order is not  *)
(* used.  Names, colors and fingerprints of workspaces are left out.        *)
(***************************************************************************)
EXTENDS Naturals

CONSTANTS
    MaxTab,         \* bound: tabs opened
    MaxWorkspace    \* bound: workspaces created

ASSUME WorkspacesAssumption == MaxTab \in Nat \ {0} /\ MaxWorkspace \in Nat \ {0}

VARIABLES
    open,       \* the tabs of the tab strip
    lastTab,    \* the newest tab
    ids,        \* of the workspaces there are
    lastId,     \* next_id - 1
    tabsOf,     \* tab_ids, of each workspace
    active,     \* the active workspace
    containers, \* those with a storage partition of their own, named after the id
    workspaceId,\* Tab::workspace_id, of each tab
    moved,      \* history: the open tabs that were moved
    adrift,     \* history: those opened without a workspace, or moved to a missing one
    retired     \* history: the partitions of containers that were deleted

histories == <<moved, adrift>>
tabVars == <<open, lastTab, workspaceId, histories>>
containerVars == <<containers, retired>>

workspaceVars == <<tabVars, ids, lastId, tabsOf, active, containerVars>>

DefaultWorkspace == 1
NoWorkspace == 0

\* The window opens its first tab without a workspace.
WorkspacesInit ==
    /\ open = {1} /\ lastTab = 1
    /\ ids = {DefaultWorkspace} /\ lastId = DefaultWorkspace
    /\ tabsOf = [w \in 1 .. MaxWorkspace |-> {}]
    /\ active = DefaultWorkspace
    /\ workspaceId = [tab \in 1 .. MaxTab |-> NoWorkspace]
    /\ moved = {} /\ adrift = {1}
    /\ containers = {} /\ retired = {}

\* create.
Create ==
    /\ lastId < MaxWorkspace
    /\ lastId' = lastId + 1
    /\ ids' = ids \union {lastId + 1}
    /\ UNCHANGED <<tabVars, tabsOf, active, containerVars>>

CreateContainer ==
    /\ lastId < MaxWorkspace
    /\ lastId' = lastId + 1
    /\ ids' = ids \union {lastId + 1}
    /\ containers' = containers \union {lastId + 1}
    /\ UNCHANGED <<tabVars, tabsOf, active, retired>>

Activate(id) ==
    /\ id \in ids
    /\ active' = id
    /\ UNCHANGED <<tabVars, ids, lastId, tabsOf, containerVars>>

\* The partition of a container goes with it.
Retire(gone) ==
    /\ containers' = containers \ gone
    /\ retired' = retired \union (containers \intersect gone)

\* Mutant of Delete: its tabs are not moved to the default workspace.
DeleteWithTabs(id) ==
    /\ id \in ids \ {DefaultWorkspace}
    /\ ids' = ids \ {id}
    /\ tabsOf' = [tabsOf EXCEPT ![id] = {}]
    /\ active' = IF active = id THEN DefaultWorkspace ELSE active
    /\ Retire({id})
    /\ UNCHANGED <<tabVars, lastId>>

Delete(id) ==
    /\ id \in ids \ {DefaultWorkspace}
    /\ ids' = ids \ {id}
    /\ tabsOf' = [tabsOf EXCEPT ![DefaultWorkspace] = @ \union tabsOf[id], ![id] = {}]
    /\ active' = IF active = id THEN DefaultWorkspace ELSE active
    /\ Retire({id})
    /\ UNCHANGED <<tabVars, lastId>>

\* "Remove workspace" of the sidebar deletes every workspace but the default one.
RemoveWorkspaces ==
    /\ ids # {DefaultWorkspace}
    /\ ids' = {DefaultWorkspace}
    /\ tabsOf' = [w \in 1 .. MaxWorkspace |->
                     IF w = DefaultWorkspace THEN UNION {tabsOf[v] : v \in ids} ELSE {}]
    /\ active' = DefaultWorkspace
    /\ Retire(ids \ {DefaultWorkspace})
    /\ UNCHANGED <<tabVars, lastId>>

Without(tab) == [w \in 1 .. MaxWorkspace |-> tabsOf[w] \ {tab}]

\* add_tab, to a workspace that may not exist.
AddTab(tabs, id, tab) == IF id \in ids THEN [tabs EXCEPT ![id] = @ \union {tab}] ELSE tabs

\* open_new_tab: the new tab keeps the workspace it was opened in.
OpenNewTab ==
    /\ lastTab < MaxTab
    /\ lastTab' = lastTab + 1
    /\ open' = open \union {lastTab + 1}
    /\ tabsOf' = AddTab(tabsOf, active, lastTab + 1)
    /\ workspaceId' = [workspaceId EXCEPT ![lastTab + 1] = active]
    /\ UNCHANGED <<ids, lastId, active, histories, containerVars>>

\* A page asks for a tab: it is put in no workspace.
NewTabRequested ==
    /\ lastTab < MaxTab
    /\ lastTab' = lastTab + 1
    /\ open' = open \union {lastTab + 1}
    /\ adrift' = adrift \union {lastTab + 1}
    /\ UNCHANGED <<ids, lastId, tabsOf, active, workspaceId, moved, containerVars>>

\* close_tab, which opens a new tab when none is left.
CloseTab(tab) ==
    /\ tab \in open
    /\ moved' = moved \ {tab} /\ adrift' = adrift \ {tab}
    /\ UNCHANGED <<ids, lastId, active, containerVars>>
    /\ IF open # {tab}
       THEN /\ open' = open \ {tab}
            /\ tabsOf' = Without(tab)
            /\ workspaceId' = [workspaceId EXCEPT ![tab] = NoWorkspace]
            /\ UNCHANGED lastTab
       ELSE /\ lastTab < MaxTab
            /\ lastTab' = lastTab + 1
            /\ open' = {lastTab + 1}
            /\ tabsOf' = AddTab(Without(tab), active, lastTab + 1)
            /\ workspaceId' = [workspaceId EXCEPT ![tab] = NoWorkspace, ![lastTab + 1] = active]

\* move_tab takes the tab out before it looks for the target, and does not
\* know of the tab's own workspace_id.
MoveTab(tab, id) ==
    /\ tab \in open
    /\ tabsOf' = AddTab(Without(tab), id, tab)
    /\ moved' = moved \union {tab}
    /\ adrift' = IF id \in ids THEN adrift \ {tab} ELSE adrift \union {tab}
    /\ UNCHANGED <<open, lastTab, workspaceId, ids, lastId, active, containerVars>>

WorkspacesNext ==
    \/ Create \/ CreateContainer
    \/ \E id \in 1 .. MaxWorkspace : Activate(id) \/ Delete(id)
    \/ RemoveWorkspaces
    \/ OpenNewTab \/ NewTabRequested
    \/ \E tab \in 1 .. MaxTab : CloseTab(tab)
    \/ \E tab \in 1 .. MaxTab, id \in 1 .. MaxWorkspace : MoveTab(tab, id)

WorkspacesSpec == WorkspacesInit /\ [][WorkspacesNext]_workspaceVars

-----------------------------------------------------------------------------
\* What Tab::workspace_id w stands for: the workspaces that are deleted leave
\* it in their tabs, which are in the default workspace then.
Home(w) == IF w \in ids THEN w ELSE DefaultWorkspace

\* The lists of the workspaces against the tabs (add_tab, remove_tab, delete): the
\* active workspace exists, none lists a closed tab, no tab is listed twice, and an
\* open tab is listed unless it was opened without a workspace or move_tab was told
\* to put it in a missing one: such a tab is in none. A tab that was never moved is
\* where its own workspace_id says, or in the default workspace once that one was
\* deleted, whatever was created and deleted in between. And a container never gets
\* the storage partition of one that was deleted (create_container numbers them on).
TabsPlaced ==
    /\ active \in ids
    /\ \A w \in ids : tabsOf[w] \subseteq open \ adrift
    /\ \A v, w \in ids : v # w => tabsOf[v] \cap tabsOf[w] = {}
    /\ \A tab \in open \ adrift : \E w \in ids : tab \in tabsOf[w]
    /\ \A tab \in open \ (adrift \union moved) : tab \in tabsOf[Home(workspaceId[tab])]
    /\ containers \intersect retired = {}
=============================================================================
