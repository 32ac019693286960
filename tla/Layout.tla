------------------------------- MODULE Layout -------------------------------
(***************************************************************************)
(* The layout of fortrust-layout (lib.rs) and the order in which           *)
(* fortrust-paint draws it: the boxes of a document, the rectangle each is *)
(* given, the boxes that are positioned and taken out of the flow, and the *)
(* rows of what stands in a line.                                          *)
(*                                                                         *)
(* The document grows by one box at a time, as a parser or a script makes  *)
(* it.  Lengths are in lines.  A margin is the same on the four sides, and *)
(* so is an edge, which is the border and the padding.  Colours, borders,  *)
(* transforms, clips and the images themselves are left out, and so are    *)
(* percentages and the limits of a width.                                  *)
(***************************************************************************)
EXTENDS Integers, SequencesExt, TLC

CONSTANTS
    BoxStyles,      \* what may be written: boxes, see Body, whose "up" is 0
    PageWidth,      \* of the viewport
    MaxZ,           \* the z-index is in 1 .. MaxZ
    MaxBox          \* bound

VARIABLE boxes      \* in the order of the document: [kind, up, ...]

LineHeight == 1
Auto == -1

\* kind: block, row or column (flex containers), inline, text, replaced,
\* positioned, or none (not displayed). size is what a text or a picture takes,
\* offset is left and top, shift what a relative position adds.
Body == [kind |-> "block", up |-> 0, width |-> Auto, height |-> 0, margin |-> 0, edge |-> 0,
         size |-> [w |-> 0, h |-> 0], offset |-> [x |-> 0, y |-> 0], shift |-> 0, z |-> 1]

LayoutInit == boxes = <<Body>>

Rect(x, y, w, h) == [x |-> x, y |-> y, w |-> w, h |-> h]

\* Without a containing block.
NoBlock == Rect(0, 0, Auto, 0)

\* build_box: what is displayed of the children.
Kids(i) == SelectSeq([c \in DOMAIN boxes |-> c],
                     LAMBDA c : boxes[c].up = i /\ boxes[c].kind # "none")

RECURSIVE AncestorsAndSelf(_)
AncestorsAndSelf(i) == IF i = 0 THEN {} ELSE {i} \union AncestorsAndSelf(boxes[i].up)

Displayed(i) == \A a \in AncestorsAndSelf(i) : boxes[a].kind # "none"

InLine(i) == boxes[i].kind \in {"inline", "text", "replaced"}

AtLeast(n, m) == IF n < m THEN m ELSE n

RECURSIVE IntrinsicWidth(_)
IntrinsicWidth(i) ==
    IF boxes[i].kind \in {"text", "replaced"} THEN boxes[i].size.w
    ELSE AtLeast(FoldLeft(LAMBDA sum, c : sum + IntrinsicWidth(c), 0, Kids(i)), LineHeight)

-----------------------------------------------------------------------------
(* What lays out a box gives [rects, layers, outer]: the rectangles of     *)
(* boxes, the positioned ones among them, and the height to go on after.   *)

Laid(rects, layers, outer) == [rects |-> rects, layers |-> layers, outer |-> outer]

Nothing == Laid(<<>>, <<>>, 0)

With(a, b, outer) == Laid(a.rects @@ b.rects, a.layers \o b.layers, outer)

\* One under the other.
Below(a, b) == With(a, b, a.outer + b.outer)

\* layout_inline_children: in one line from x on. What is not in line among them
\* gets a place, but not what is in it.
RECURSIVE InlineChildren(_, _, _)
InlineChildren(kids, x, y) ==
    IF kids = <<>> THEN <<>>
    ELSE LET c == Head(kids)
             width == IntrinsicWidth(c)
         IN  (c :> Rect(x, y, width, LineHeight))
               @@ (IF boxes[c].kind = "inline" THEN InlineChildren(Kids(c), x, y) ELSE <<>>)
               @@ InlineChildren(Tail(kids), x + width, y)

\* How many of the boxes, which begin with one in line, make a row.
RowLength(kids, width) ==
    LET Taken(n) == FoldLeft(LAMBDA sum, c : sum + IntrinsicWidth(c), 0, SubSeq(kids, 1, n))
    IN  CHOOSE n \in DOMAIN kids :
            /\ \A k \in 1 .. n : InLine(kids[k]) /\ (k > 1 => Taken(k) <= width)
            /\ n = Len(kids) \/ ~ InLine(kids[n + 1]) \/ Taken(n + 1) > width

\* A row of boxes in a block.
RECURSIVE Row(_, _, _)
Row(kids, x, y) ==
    IF kids = <<>> THEN <<>>
    ELSE LET c == Head(kids)
             width == IntrinsicWidth(c)
             height == IF boxes[c].kind = "replaced" THEN boxes[c].size.h ELSE LineHeight
         IN  (c :> Rect(x, y, width, height))
               @@ (IF boxes[c].kind = "inline" THEN InlineChildren(Kids(c), x, y) ELSE <<>>)
               @@ Row(Tail(kids), x + width, y)

\* child_x.
ChildX(i, x) == x + boxes[i].edge

\* flex_item_width.
FlexItemWidth(i, width) ==
    IF boxes[i].width # Auto THEN boxes[i].width
    ELSE IF boxes[i].kind \in {"inline", "text"} THEN IntrinsicWidth(i)
    ELSE width \div 3

\* Mutant of Outer: the edges are not counted.
OuterWithinEdges(i, height) == height + 2 * boxes[i].margin

\* What a box takes of the height, around its own.
Outer(i, height) == height + 2 * boxes[i].margin + 2 * boxes[i].edge

\* paint_box: a box and what is displayed within it.
Within(i) == SelectSeq([c \in DOMAIN boxes |-> c], LAMBDA c : Displayed(c) /\ i \in AncestorsAndSelf(c))

\* layout, sort_by_key: the lowest first.
Layered(layers) ==
    FlattenSeq([z \in 1 .. MaxZ |-> SelectSeq(layers, LAMBDA i : boxes[i].z = z)])

\* layout_block_box, of a box at x and y; block is the containing block.
RECURSIVE LayoutBox(_, _, _, _, _), Stack(_, _, _, _, _), Flow(_, _, _, _, _),
          FlexRow(_, _, _, _, _, _, _), FlexColumn(_, _, _, _, _)

\* The children of a positioned box, whatever they are, one under the other.
Stack(kids, x, y, width, block) ==
    IF kids = <<>> THEN Nothing
    ELSE LET laid == LayoutBox(Head(kids), ChildX(Head(kids), x), y, width, block)
             rest == Stack(Tail(kids), x, y + laid.outer, width, block)
         IN  Below(laid, rest)

\* The children of a block: rows of what stands in a line, which take one line
\* each, and blocks.
Flow(i, kids, y, width, block) ==
    IF kids = <<>> THEN Nothing
    ELSE IF InLine(Head(kids))
    THEN LET n    == RowLength(kids, width)
             row  == Laid(Row(SubSeq(kids, 1, n), ChildX(i, block.x), y), <<>>, LineHeight)
             rest == Flow(i, SubSeq(kids, n + 1, Len(kids)), y + LineHeight, width, block)
         IN  Below(row, rest)
    ELSE LET laid == LayoutBox(Head(kids), ChildX(Head(kids), block.x), y, width, block)
             rest == Flow(i, Tail(kids), y + laid.outer, width, block)
         IN  Below(laid, rest)

\* layout_flex_row: row is the height of the row so far.
FlexRow(kids, x, y, row, start, width, block) ==
    IF kids = <<>> THEN Nothing
    ELSE LET c     == Head(kids)
             item  == AtLeast(FlexItemWidth(c, width), 0)
             wraps == x > start /\ x + item + 2 * boxes[c].margin > start + width
             down  == IF wraps THEN row ELSE 0
             laid  == LayoutBox(c, IF wraps THEN start ELSE x, y + down, item, block)
             rest  == FlexRow(Tail(kids),
                              (IF wraps THEN start ELSE x) + laid.rects[c].w + 2 * boxes[c].margin,
                              y + down, AtLeast(IF wraps THEN 0 ELSE row, laid.outer), start, width, block)
         IN  With(laid, rest, down + AtLeast(laid.outer, rest.outer))

\* layout_flex_column: the edges of an item are not counted.
FlexColumn(kids, x, y, width, block) ==
    IF kids = <<>> THEN Nothing
    ELSE LET c    == Head(kids)
             laid == LayoutBox(c, x, y, AtLeast(FlexItemWidth(c, width), 0), block)
             outer == laid.rects[c].h + 2 * boxes[c].margin
             rest == FlexColumn(Tail(kids), x, y + outer, width, block)
         IN  With(laid, rest, outer + rest.outer)

LayoutBox(i, x, y, available, block) ==
    LET b       == boxes[i]
        width   == IF b.width # Auto THEN b.width ELSE available
        content == width - 2 * b.edge
        usedX   == x + b.margin + b.edge
        childY  == y + b.margin + b.edge
        px      == IF block = NoBlock THEN usedX ELSE block.x + b.offset.x
        py      == IF block = NoBlock THEN y ELSE block.y + b.offset.y
        Explicit(height) == IF b.height > 0 THEN b.height ELSE height
        Own(w, height) == i :> Rect(usedX + b.shift, y + b.shift, w, height)
        Around(laid, height) == Laid(Own(width, height) @@ laid.rects, laid.layers, Outer(i, height))
        Positioned(laid) ==
            Laid((i :> Rect(px, py, width, Explicit(laid.outer))) @@ laid.rects, Append(laid.layers, i), 0)
        Flex(laid) == Around(laid, laid.outer)
        Block(laid) == Around(laid, Explicit(laid.outer))
    IN  CASE b.kind = "positioned" -> Positioned(Stack(Kids(i), px, py, width, Rect(px, py, width, 0)))
          [] b.kind = "replaced" -> Laid(Own(b.size.w, b.size.h), <<>>, Outer(i, b.size.h))
          [] b.kind \notin {"positioned", "replaced"} /\ Kids(i) = <<>> ->
                Around(Nothing, AtLeast(b.height, LineHeight))
          [] b.kind = "row" /\ Kids(i) # <<>> ->
                Flex(FlexRow(Kids(i), ChildX(i, usedX), childY, 0, ChildX(i, usedX), content, block))
          [] b.kind = "column" /\ Kids(i) # <<>> ->
                Flex(FlexColumn(Kids(i), ChildX(i, usedX), childY, content, block))
          [] b.kind = "inline" /\ Kids(i) # <<>> ->
                Laid(Own(width, LineHeight) @@ InlineChildren(Kids(i), ChildX(i, x), childY),
                     <<>>, LineHeight + 2 * b.margin)
          [] b.kind = "block" /\ Kids(i) # <<>> ->
                Block(Flow(i, Kids(i), childY, content, Rect(usedX, childY, AtLeast(content, 0), 0)))

\* layout.
Layout == LayoutBox(1, 0, 0, PageWidth, NoBlock)

\* paint: the page, and then the positioned boxes again, on top.
Painted(layers) ==
    LET top == Layered(layers)
    IN  Within(1) \o FlattenSeq([n \in DOMAIN top |-> Within(top[n])])

-----------------------------------------------------------------------------

\* A box is appended to the last one or to one around it, also to a canvas or a
\* picture, which gives what is in it no place.
AddBox(style, up) ==
    /\ Len(boxes) < MaxBox
    /\ up \in AncestorsAndSelf(Len(boxes))
    /\ boxes[up].kind # "text"
    /\ boxes' = Append(boxes, [style EXCEPT !.up = up])

LayoutNext == \E style \in BoxStyles, up \in DOMAIN boxes : AddBox(style, up)

LayoutSpec == LayoutInit /\ [][LayoutNext]_boxes

-----------------------------------------------------------------------------

Apart(r, s) == r.x + r.w <= s.x \/ s.x + s.w <= r.x \/ r.y + r.h <= s.y \/ s.y + s.h <= r.y

\* What is drawn in the flow.
Drawn == {i \in DOMAIN boxes : boxes[i].kind \in {"text", "replaced"} /\ Displayed(i)}

Inside(i, kind) == \E a \in AncestorsAndSelf(i) \ {i} : boxes[a].kind = kind

\* A page without what the layout is known to run together: a block or a
\* positioned box in an inline one, which is not laid out; what is in a canvas or
\* a picture, which stays at the corner of the page; the content of a box of a given
\* height, or of a third of a row, that is larger; a picture taller than its line;
\* the edges of an item of a column. What is positioned is laid over the rest.
Regular ==
    \A i \in DOMAIN boxes :
        /\ Inside(i, "inline") => boxes[i].kind \in {"inline", "text", "replaced"}
        /\ ~ Inside(i, "replaced")
        /\ boxes[i].kind = "positioned" \/ boxes[i].height > 0 => Kids(i) = <<>>
        /\ boxes[i].kind = "text" /\ Inside(i, "row") => boxes[i].size.w = 1
        /\ boxes[i].kind = "replaced" => boxes[i].size.h = LineHeight
        /\ boxes[i].edge > 0 => i = 1 \/ boxes[boxes[i].up].kind # "column"

\* In such a page no text and no picture is laid over another: the height that a
\* box gives back to its parent is what all that is in it takes.
DrawnApart(rects) ==
    Regular => \A a \in Drawn, b \in Drawn : a < b => Apart(rects[a], rects[b])

\* Of two positioned boxes that are in no other one, what has the higher z-index
\* is drawn after the other, wherever the document has them.
LayersOnTop(layers) ==
    LET drawn  == Painted(layers)
        apart  == {i \in ToSet(layers) : ~ Inside(i, "positioned")}
        LastDrawn(i) == CHOOSE n \in DOMAIN drawn : drawn[n] = i /\ \A k \in n + 1 .. Len(drawn) : drawn[k] # i
    IN  \A a \in apart, b \in apart : boxes[a].z < boxes[b].z => LastDrawn(a) < LastDrawn(b)

\* The page is laid out without its parts over each other, and drawn in order
\* (layout and layout_block_box, paint_box).
PageIsLaidOut == LET laid == Layout IN DrawnApart(laid.rects) /\ LayersOnTop(laid.layers)
=============================================================================
