----------------------------- MODULE DomEvents -----------------------------
(***************************************************************************)
(* Listeners and the dispatch of events over the tree of Dom: event.rs, and *)
(* the functions of dom_api.rs through which scripts reach it. A handler is *)
(* script: while it runs it can change the tree and the listeners, and      *)
(* dispatch again.                                                         *)
(***************************************************************************)
EXTENDS Dom

CONSTANTS
    MaxListener,    \* bound: listeners that are ever added
    MaxDepth        \* bound: dispatches within one another

ASSUME EventsAssumption == MaxListener \in Nat /\ MaxDepth \in Nat

VARIABLES
    listeners,      \* EventListenerSet, of each node
    registered,     \* EventCallbackRegistry::next_id - 1
    fired,          \* history: the callbacks that were invoked
    dispatches      \* the calls of dispatch_event_chain, the innermost last

eventVars == <<listeners, registered, fired, dispatches>>
vars == <<domVars, eventVars>>

Phases == {"capture", "bubble"}

\* A call of dispatch_event_chain: the nodes still to come with their phase,
\* the node it is at, the clones of its listeners still to be invoked, the
\* ids among them to be removed afterwards, and the handler that runs.
Frame(path) == [path |-> path, at |-> NoNode, batch |-> <<>>, once |-> {}, running |-> 0]

Top == Last(dispatches)
SetTop(f) == dispatches' = Front(dispatches) \o <<f>>

\* Script runs between two dispatches, and in a handler.
Scripting == dispatches # <<>> => Top.running # 0

\* From the root to the parent of n, n itself, and back again.
DispatchPath(n) ==
    LET up == Tail(AncestorChain(n))
        Visits(s, phase) == [i \in DOMAIN s |-> [node |-> s[i], phase |-> phase]]
    IN  Visits(Reverse(up), "capture") \o Visits(<<n>>, "target") \o Visits(up, "bubble")

Matching(n, phase) ==
    Retained(listeners[n], {l \in ToSet(listeners[n]) : phase \in {l.phase, "target"}})

EventsInit ==
    /\ listeners = [n \in Node |-> <<>>]
    /\ registered = 0
    /\ fired = {}
    /\ dispatches = <<>>

\* parse_listener_options: a boolean is the capture flag, and an object says both.
ListenerOptions == [given : {"nothing", "boolean", "object"}, capture : BOOLEAN, once : BOOLEAN]
ParseListenerOptions(o) ==
    [phase |-> IF o.given # "nothing" /\ o.capture THEN "capture" ELSE "bubble",
     once  |-> o.given = "object" /\ o.once]

\* EventListenerSet::add.
Added(n, l) ==
    IF \E k \in ToSet(listeners[n]) : k.id = l.id /\ k.phase = l.phase THEN listeners
    ELSE [listeners EXCEPT ![n] = Append(@, l)]

\* Every call registers a new callback, so that none is ever a duplicate.
AddEventListener(n, o) ==
    /\ Scripting /\ Script
    /\ n # Root
    /\ registered < MaxListener
    /\ registered' = registered + 1
    /\ listeners' = Added(n, [id    |-> registered', phase |-> ParseListenerOptions(o).phase,
                              once  |-> ParseListenerOptions(o).once])
    /\ UNCHANGED <<fired, dispatches, treeVars>>

\* All the listeners of the type, whichever function is named.
RemoveEventListener(n) ==
    /\ Scripting /\ Script
    /\ listeners[n] # <<>>
    /\ listeners' = [listeners EXCEPT ![n] = <<>>]
    /\ UNCHANGED <<registered, fired, dispatches, treeVars>>

\* The chain is built once: handlers that move nodes do not change it. From a
\* node on a cycle, or below one, the call never returns.
DispatchEvent(n) ==
    /\ Scripting /\ Script
    /\ n # Root /\ HasTop(n)
    /\ Len(dispatches) < MaxDepth
    /\ dispatches' = Append(dispatches, Frame(DispatchPath(n)))
    /\ UNCHANGED <<listeners, registered, fired, treeVars>>

Dispatching == dispatches # <<>> /\ Top.running = 0 /\ UNCHANGED domVars

\* A mutant: the listeners that fire once are noted at the target only.
ReachTargetOnce ==
    /\ Dispatching
    /\ Top.at = NoNode /\ Top.path # <<>>
    /\ LET v == Head(Top.path)
           m == Matching(v.node, v.phase)
       IN  SetTop([Top EXCEPT !.path = Tail(@), !.at = v.node, !.batch = m,
                              !.once = {m[i].id : i \in {j \in DOMAIN m : m[j].once /\ v.phase = "target"}}])
    /\ UNCHANGED <<listeners, registered, fired>>

\* The next node: its listeners are cloned, later ones do not hear the event.
Reach ==
    /\ Dispatching
    /\ Top.at = NoNode /\ Top.path # <<>>
    /\ LET v == Head(Top.path)
           m == Matching(v.node, v.phase)
       IN  SetTop([Top EXCEPT !.path = Tail(@), !.at = v.node, !.batch = m,
                              !.once = {m[i].id : i \in {j \in DOMAIN m : m[j].once}}])
    /\ UNCHANGED <<listeners, registered, fired>>

Invoke ==
    /\ Dispatching
    /\ Top.batch # <<>>
    /\ SetTop([Top EXCEPT !.batch = Tail(@), !.running = Head(Top.batch).id])
    /\ fired' = fired \cup {Head(Top.batch).id}
    /\ UNCHANGED <<listeners, registered>>

\* No handler can stop the event: its result is always the default one.
HandlerReturns ==
    /\ dispatches # <<>> /\ Top.running # 0
    /\ SetTop([Top EXCEPT !.running = 0])
    /\ UNCHANGED <<domVars, listeners, registered, fired>>

\* remove_once_fired after the batch of the node.
Leave ==
    /\ Dispatching
    /\ Top.at # NoNode /\ Top.batch = <<>>
    /\ listeners' = [listeners EXCEPT ![Top.at] =
                        Retained(@, {l \in ToSet(@) : ~(l.once /\ l.id \in Top.once)})]
    /\ SetTop([Top EXCEPT !.at = NoNode, !.once = {}])
    /\ UNCHANGED <<registered, fired>>

DispatchEnds ==
    /\ Dispatching
    /\ Top.at = NoNode /\ Top.path = <<>>
    /\ dispatches' = Front(dispatches)
    /\ UNCHANGED <<listeners, registered, fired>>

EventStep ==
    \/ \E n \in Made, o \in ListenerOptions : AddEventListener(n, o)
    \/ \E n \in Made : RemoveEventListener(n) \/ DispatchEvent(n)
    \/ Reach \/ Invoke \/ HandlerReturns \/ Leave \/ DispatchEnds

\* A script runs to its end before the engine renders.
Next ==
    \/ ParserStep /\ UNCHANGED eventVars
    \/ Scripting /\ ScriptStep /\ UNCHANGED eventVars
    \/ dispatches = <<>> /\ (RenderIfDirty \/ RenderWithDamage) /\ UNCHANGED eventVars
    \/ EventStep

Spec == Init /\ EventsInit /\ [][Next]_vars

-----------------------------------------------------------------------------

\* The variables keep their types.
TypeOK ==
    /\ made \in 0 .. MaxNode
    /\ kind \in [Node -> {"document", "element", "text", "none"}]
    /\ parent \in [Node -> Node \cup {NoNode}]
    /\ children \in [Node -> Seq(Node)]
    /\ dirty \subseteq Node
    /\ {parsing, stale} \subseteq BOOLEAN /\ odd \subseteq {"unmarked", "halfRemoved", "cycle"}
    /\ \A n \in Node : \A i \in DOMAIN listeners[n] :
           listeners[n][i] \in [id : 1 .. registered, phase : Phases, once : BOOLEAN]
    /\ registered \in 0 .. MaxListener
    /\ Len(dispatches) <= MaxDepth

\* When no event is being dispatched, every listener that was to fire once
\* and has fired is gone, whichever node it was on, whatever its handler did
\* to the tree and the listeners, and however dispatches were nested.
OnceRemoved ==
    dispatches = <<>> =>
        \A n \in Made : \A l \in ToSet(listeners[n]) : l.once => l.id \notin fired

=============================================================================
