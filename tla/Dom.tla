-------------------------------- MODULE Dom --------------------------------
(***************************************************************************)
(* The tree of fortrust-dom: what the parser (DomBuilder) and the scripts  *)
(* (dom_api.rs) do to parents, children and dirty flags, and the renderer  *)
(* that draws a document only when a flag is set.                          *)
(***************************************************************************)
EXTENDS Integers, Sequences, SequencesExt, FiniteSets, Retain

CONSTANT MaxNode    \* bound: nodes that are ever allocated, besides the document

ASSUME DomAssumption == MaxNode \in Nat \ {0}

VARIABLES
    made,       \* nodes allocated so far: 1 .. made, and the document
    kind,       \* "element" or "text", of each of them
    parent,     \* Node::parent
    children,   \* Node::children
    dirty,      \* the nodes whose dirty flag is set
    parsing,    \* html5ever is still building the document
    stale,      \* history: the document has changed since it was last rendered
    odd         \* history: the calls of scripts that break the rules below

treeVars == <<made, kind, parent, children, dirty, stale, odd>>
domVars == <<treeVars, parsing>>

Root == 0
NoNode == -1
Node == Root .. MaxNode
Made == Root .. made

\* Everything below n in these lists of children, and n itself. MaxNode + 1
\* levels are the whole tree.
Branch(kids, n) ==
    LET level[d \in 0 .. MaxNode] ==
            IF d = 0 THEN {n}
            ELSE LET up == level[d - 1]
                 IN  up \cup UNION {ToSet(kids[m]) : m \in up}
    IN  level[MaxNode]

Subtree(n) == Branch(children, n)

\* The node, its parent, ... up to the one without a parent.
AncestorChain(n) ==
    LET chain[d \in 0 .. MaxNode] ==
            IF d = 0 THEN <<n>>
            ELSE LET c == chain[d - 1]
                 IN  IF parent[Last(c)] = NoNode THEN c
                     ELSE Append(c, parent[Last(c)])
    IN  chain[MaxNode]

IsAncestorOf(c, n) == n \in Subtree(c)

\* The parents lead to a node without one, and not round a cycle.
HasTop(n) == parent[Last(AncestorChain(n))] = NoNode

\* The walk of is_ancestor_of from c ends, without finding n. It finds n, and
\* the call throws, or it never ends on a cycle, which takes the process down.
NotAncestorOf(c, n) ==
    /\ ~ IsAncestorOf(c, n)
    /\ \A m \in ToSet(children[c]) : ~ IsAncestorOf(m, c)

Document == Subtree(Root)
IsDirty == (Document \ {Root}) \cap dirty # {}

\* dirty_subtree_roots: the dirty nodes of the document below no dirty one.
DirtyRoots ==
    {n \in Document \cap dirty : \A m \in ToSet(Tail(AncestorChain(n))) : m \notin dirty}

\* What a rendering of the document depends on, besides the attributes.
Picture == [n \in Document |-> children[n]]

-----------------------------------------------------------------------------

\* A mutant: only the node itself is marked.
MarkDirtyAlone(up, n) == dirty \cup {n}

\* The flags after n was marked: of n, and of its ancestors up to the first
\* one that is dirty already.
MarkDirty(up, n) ==
    dirty \cup Branch([m \in Node |-> IF up[m] \in dirty \cup {NoNode} THEN <<>> ELSE <<up[m]>>], n)

PositionOf(s, x) == CHOOSE i \in DOMAIN s : s[i] = x

\* The children lists without c in the one of its parent.
Detached(c) ==
    IF parent[c] = NoNode THEN children
    ELSE [children EXCEPT ![parent[c]] = Retained(@, Node \ {c})]

\* remove_child_checked, of a child.
TakenOut(n, c) == [children EXCEPT ![n] = RemoveAt(@, PositionOf(@, c))]

\* c becomes a child of n in front of ref, or the last one.
Placed(n, c, ref) ==
    LET rest == Detached(c)
        i == IF ref \in ToSet(rest[n]) THEN PositionOf(rest[n], ref) ELSE Len(rest[n]) + 1
    IN  [rest EXCEPT ![n] = InsertAt(@, i, c)]

Adopt(c, n) == parent' = [parent EXCEPT ![c] = n]

\* Nodes of kinds ks come into being under the next ids.
Allocate(ks) ==
    /\ made + Len(ks) <= MaxNode
    /\ made' = made + Len(ks)
    /\ kind' = [n \in Node |-> IF n - made \in DOMAIN ks THEN ks[n - made] ELSE kind[n]]

NoneMade == UNCHANGED <<made, kind>>

-----------------------------------------------------------------------------
(* The parser.                                                             *)

Init ==
    /\ made = 0
    /\ kind = [n \in Node |-> IF n = Root THEN "document" ELSE "none"]
    /\ parent = [n \in Node |-> NoNode]
    /\ children = [n \in Node |-> <<>>]
    /\ dirty = {}
    /\ parsing = TRUE
    /\ stale = FALSE
    /\ odd = {}

Parser == parsing /\ UNCHANGED <<dirty, parsing, stale, odd>>

\* create_element, and append or append_before_sibling of the new element.
ParseElement(n, ref) ==
    /\ Parser
    /\ kind[n] # "text" /\ ref \in {NoNode} \cup ToSet(children[n])
    /\ Allocate(<<"element">>)
    /\ Adopt(made', n)
    /\ children' = Placed(n, made', ref)

\* Text next to text becomes part of it, and is a node of its own otherwise.
ParseText(n, ref) ==
    /\ Parser
    /\ kind[n] # "text" /\ ref \in {NoNode} \cup ToSet(children[n])
    /\ LET before == IF ref = NoNode THEN Len(children[n]) ELSE PositionOf(children[n], ref) - 1
       IN  before > 0 => kind[children[n][before]] # "text"
    /\ Allocate(<<"text">>)
    /\ Adopt(made', n)
    /\ children' = Placed(n, made', ref)

\* The adoption agency: a node is moved, or the children of one node are all
\* given to another.
ParseMove(n, c, ref) ==
    /\ Parser
    /\ kind[n] # "text" /\ n \notin Subtree(c) /\ c # Root /\ ref # c
    /\ ref \in {NoNode} \cup ToSet(children[n])
    /\ Adopt(c, n)
    /\ children' = Placed(n, c, ref)
    /\ NoneMade

ParseRemove(c) ==
    /\ Parser
    /\ c # Root /\ parent[c] # NoNode
    /\ Adopt(c, NoNode)
    /\ children' = Detached(c)
    /\ NoneMade

ReparentChildren(n, to) ==
    /\ Parser
    /\ n # Root /\ to \notin Subtree(n) /\ kind[to] # "text" /\ children[n] # <<>>
    /\ children' = [children EXCEPT ![n] = <<>>, ![to] = @ \o children[n]]
    /\ parent' = [c \in Node |-> IF parent[c] = n THEN to ELSE parent[c]]
    /\ NoneMade

\* The engine renders the parsed document before a script touches it.
ParsingEnds ==
    /\ parsing
    /\ parsing' = FALSE
    /\ UNCHANGED treeVars

-----------------------------------------------------------------------------
(* The scripts. A call that throws changes nothing, unless it says so.      *)

Script == ~parsing /\ UNCHANGED parsing

\* The tree changes; the node that was called is marked.
Mark(n) == dirty' = MarkDirty(parent', n)
Record == stale' = (stale \/ Picture' # Picture)

\* A node that is moved out of the document leaves no mark there; neither does
\* one that is given to a node below it, with which it leaves the document.
Moves(n, c) ==
    odd' = odd \cup (IF IsAncestorOf(c, n) THEN {"cycle"} ELSE {})
               \cup (IF c \in Document /\ (n \in Document => IsAncestorOf(c, n))
                     THEN {"unmarked"} ELSE {})

CreateNode(k) ==
    /\ Script
    /\ Allocate(<<k>>)
    /\ UNCHANGED <<parent, children, dirty, stale, odd>>

\* A mutant: the child stays in the list of its old parent.
AppendChildTwice(n, c) ==
    /\ Script
    /\ c # Root /\ n # Root /\ Moves(n, c)
    /\ Adopt(c, n)
    /\ children' = [children EXCEPT ![n] = Append(@, c)]
    /\ Mark(n) /\ Record
    /\ NoneMade

\* appendChild calls the unchecked append_child: a script can give a node to
\* one below it, or to itself, and makes a cycle.
AppendChild(n, c) ==
    /\ Script
    /\ c # Root /\ n # Root /\ Moves(n, c)
    /\ Adopt(c, n)
    /\ children' = Placed(n, c, NoNode)
    /\ Mark(n) /\ Record
    /\ NoneMade

RemoveChild(n, c) ==
    /\ Script
    /\ n # Root /\ c \in ToSet(children[n])
    /\ children' = TakenOut(n, c)
    /\ Adopt(c, NoNode)
    /\ Mark(n) /\ Record
    /\ NoneMade /\ UNCHANGED odd

\* HierarchyRequest and NotFound come before any change. A node in front of
\* itself is moved to the end: it is gone from the list when its place is
\* looked for.
InsertBefore(n, c, ref) ==
    /\ Script
    /\ c # Root /\ n # Root /\ Moves(n, c)
    /\ NotAncestorOf(c, n)
    /\ ref \in ToSet(children[n])
    /\ Adopt(c, n)
    /\ children' = Placed(n, c, ref)
    /\ Mark(n) /\ Record
    /\ NoneMade

ReplaceChild(n, c, old) ==
    /\ Script
    /\ c # Root /\ n # Root /\ c # old /\ Moves(n, c)
    /\ NotAncestorOf(c, n)
    /\ old \in ToSet(children[n])
    /\ LET rest == Detached(c)
       IN  children' = [rest EXCEPT ![n][PositionOf(rest[n], old)] = c]
    /\ parent' = [parent EXCEPT ![c] = n, ![old] = NoNode]
    /\ Mark(n) /\ Record
    /\ NoneMade

\* replaceChild(x, x): x has been taken out when it is looked for, and the
\* call throws NotFound with x half removed.
ReplaceSelf(n, c) ==
    /\ Script
    /\ n # Root /\ c \in ToSet(children[n])
    /\ NotAncestorOf(c, n)
    /\ children' = Detached(c)
    /\ Record
    /\ odd' = odd \cup {"halfRemoved"}
    /\ NoneMade /\ UNCHANGED <<parent, dirty>>

\* setTextContent and setInnerHTML: the children are detached, and what was
\* parsed takes their place.
SetContent(n, ks) ==
    /\ Script
    /\ n # Root
    /\ Allocate(ks)
    /\ LET new == [i \in DOMAIN ks |-> made + i]
       IN  /\ children' = [children EXCEPT ![n] = new]
           /\ parent' = [c \in Node |-> IF c \in ToSet(new) THEN n
                                        ELSE IF c \in ToSet(children[n]) THEN NoNode
                                        ELSE parent[c]]
    /\ Mark(n) /\ Record
    /\ UNCHANGED odd

\* addClass, removeClass and classList change an attribute and mark the node.
ChangeClass(n) ==
    /\ Script
    /\ kind[n] = "element"
    /\ dirty' = MarkDirty(parent, n)
    /\ stale' = (stale \/ n \in Document)
    /\ NoneMade /\ UNCHANGED <<parent, children, odd>>

\* setAttribute and removeAttribute set a flag of the whole program that
\* nothing reads, and not the one of the node.
SetAttribute(n) ==
    /\ Script
    /\ kind[n] = "element"
    /\ stale' = (stale \/ n \in Document)
    /\ odd' = odd \cup {"unmarked"}
    /\ NoneMade /\ UNCHANGED <<parent, children, dirty>>

\* render_if_dirty between two scripts.
RenderIfDirty ==
    /\ ~parsing /\ IsDirty
    /\ dirty' = dirty \ Document
    /\ stale' = FALSE
    /\ UNCHANGED <<made, kind, parent, children, parsing, odd>>

\* render_with_damage_tracking draws all of the document, also a clean one, and
\* gives back what is to be drawn again of it.
RenderWithDamage ==
    /\ ~parsing
    /\ dirty' = dirty \ Document
    /\ stale' = FALSE
    /\ UNCHANGED <<made, kind, parent, children, parsing, odd>>

\* collect_fragment_children: what a text or a markup leaves in its body.
Fragments == {<<>>, <<"text">>, <<"element", "text">>}

ParserStep ==
    \/ \E n \in Made, ref \in Made \cup {NoNode} : ParseElement(n, ref) \/ ParseText(n, ref)
    \/ \E n, c \in Made, ref \in Made \cup {NoNode} : ParseMove(n, c, ref)
    \/ \E c \in Made : ParseRemove(c)
    \/ \E n, to \in Made : ReparentChildren(n, to)
    \/ ParsingEnds

ScriptStep ==
    \/ \E k \in {"element", "text"} : CreateNode(k)
    \/ \E n, c \in Made : AppendChild(n, c) \/ RemoveChild(n, c) \/ ReplaceSelf(n, c)
    \/ \E n, c, ref \in Made : InsertBefore(n, c, ref) \/ ReplaceChild(n, c, ref)
    \/ \E n \in Made, ks \in Fragments : SetContent(n, ks)
    \/ \E n \in Made : ChangeClass(n) \/ SetAttribute(n)

-----------------------------------------------------------------------------
(* Properties.                                                             *)

\* The lists of children and the parents agree, no node is in two places, and
\* no node of the document is below itself: the walks of the crate and of the
\* layout recurse without a visited set. replaceChild(x, x) breaks it. Nodes
\* outside the document may be below themselves, but only after appendChild
\* was called for a node and one below it.
TreeConsistent ==
    "halfRemoved" \notin odd =>
        /\ \A n, c \in Made : c \in ToSet(children[n]) <=> parent[c] = n
        /\ \A n \in Made : IsInjective(children[n])
        /\ \A n \in Document \cup (IF "cycle" \in odd THEN {} ELSE Made) :
               \A c \in ToSet(children[n]) : n \notin Subtree(c)

\* Above a dirty node every node is dirty: mark_dirty relies on it when it
\* stops at the first ancestor that is dirty already.
DirtyUpward ==
    \A n \in dirty : parent[n] # NoNode => parent[n] \in dirty

\* A document without a dirty flag looks as it was last rendered; the engine
\* skips the rendering of such a document. It takes DirtyUpward, and scripts
\* that neither set attributes nor move a node out of the document: giving a
\* node of it to one below it does that, while a cycle that is made outside of
\* it does no harm. What is dirty is then all below the document itself, which
\* is the one root that render_with_damage_tracking finds.
CleanIsRendered ==
    odd \subseteq {"cycle"} =>
        /\ DirtyUpward /\ (~parsing /\ ~IsDirty => ~stale)
        /\ DirtyRoots = IF IsDirty THEN {Root} ELSE {}

=============================================================================
