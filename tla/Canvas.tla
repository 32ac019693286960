------------------------------- MODULE Canvas -------------------------------
(***************************************************************************)
(* The drawing surface of the canvas element (fortrust-js, canvas.rs): the *)
(* stack of drawing states, the path, the clip, gradients, shadows and     *)
(* pixels.                                                                 *)
(*                                                                         *)
(* A pixel is its value in one channel and its alpha. Arithmetic is exact: *)
(* the rounding of f32 is left out. Coordinates are in parts of a pixel,   *)
(* Unit of them, and the sine and cosine of a turn are fractions. A curve  *)
(* and an arc are a line to their end, the glyphs of a text are the same   *)
(* for every text, an image is drawn in its own size and a shadow is moved *)
(* by whole pixels. Dashes, patterns, radial gradients and the joins other *)
(* than the default one are left out.                                      *)
(***************************************************************************)
EXTENDS Integers, FiniteSets, SequencesExt, Retain

CONSTANTS
    Width, Height,  \* of the surface
    Unit,           \* parts of a pixel, and of a whole alpha or offset
    Colors,         \* colours that are set
    Blends,         \* compositing operations that are set
    Boxes,          \* rectangles <<x, y, w, h>> that are drawn
    Corners,        \* points of paths and moves
    Turns,          \* angles <<c, s, n>>: the cosine is c / n and the sine s / n
    Matrices,       \* transforms that are set
    LineWidths,
    Blurs,          \* that are set, in pixels
    Falloff,        \* Falloff[b][d] / 1000 is 1 - sqrt(d) / (b + 1), or 0 when that is less
    Glyphs,         \* the pixels a text covers, from its corner
    Finest,         \* bound: the parts of a whole in a transform
    MaxDrawn        \* bound: calls

VARIABLES
    pixels,
    saved,          \* the stack of states
    path,
    subpathEmpty,
    mask,           \* the cells of the clip, or NoClip
    gradients,
    drawn

canvasVars == <<pixels, saved, path, subpathEmpty, mask, gradients, drawn>>

Operations == {"source-over", "source-in", "source-out", "source-atop", "destination-over",
               "destination-in", "destination-out", "destination-atop", "lighter", "copy", "xor"}

Full == 255

Pixel(value, alpha) == [value |-> value, alpha |-> alpha]

ASSUME CanvasAssumption ==
    /\ Width \in Nat /\ Height \in Nat /\ Unit \in Nat \ {0} /\ Unit % 2 = 0
    /\ Colors \subseteq [value : 0 .. Full, alpha : 0 .. Full] /\ Blends \subseteq Operations
    /\ Boxes \subseteq Int \X Int \X Int \X Int /\ Corners \subseteq Int \X Int
    /\ Turns \subseteq Int \X Int \X (Nat \ {0})
    /\ Matrices \subseteq Int \X Int \X Int \X Int \X Int \X Int \X {1}
    /\ LineWidths \subseteq Int /\ Blurs \subseteq Nat

\* Row after row.
Rows(w, h) == [k \in 1 .. w * h |-> <<(k - 1) % w, (k - 1) \div w>>]

Cells == (0 .. Width - 1) \X (0 .. Height - 1)
Clear == Pixel(0, 0)
Black == Pixel(0, Full)
NoClip == {<<-1, -1>>}

Solid(c) == [kind |-> "solid", color |-> c]
Gradient(g) == [kind |-> "gradient", color |-> g]

\* A transform <<a, b, c, d, e, f, n>> is in parts of which n make a whole.
DefaultState ==
    [fill |-> Solid(Black), stroke |-> Solid(Black), width |-> Unit, cap |-> "butt", alpha |-> Unit,
     op |-> "source-over", transform |-> <<1, 0, 0, 1, 0, 0, 1>>,
     shadowColor |-> Clear, blur |-> 0, shadowAt |-> <<0, 0>>]

CanvasInit ==
    /\ pixels = [c \in Cells |-> Clear]
    /\ saved = <<DefaultState>> /\ path = <<>> /\ subpathEmpty = TRUE
    /\ mask = NoClip /\ gradients = <<>> /\ drawn = 0

Now == saved[Len(saved)]

Lesser(a, b) == IF a < b THEN a ELSE b
Greater(a, b) == IF a < b THEN b ELSE a
Clamped(n, limit) == Lesser(Greater(n, 0), limit)

-----------------------------------------------------------------------------
(* Colours.                                                                *)

\* composite_blend. Three of the operations leave the alpha of the pixel as it
\* is, and source-atop makes it whole or nothing.
Blend(dst, src, op) ==
    LET s == src.value
        sIn == src.alpha
        sOut == Full - src.alpha
        d == dst.value
        dIn == dst.alpha
        dOut == Full - dst.alpha
        Of(v, a) == Pixel(Lesser(v \div Full, Full), Lesser(a \div Full, Full))
    IN  CASE op = "source-over"      -> IF sIn = 0 THEN dst ELSE Of(s * sIn + d * sOut, sIn * Full + dIn * sOut)
          [] op = "source-in"        -> Of(s * dIn, sIn * dIn)
          [] op = "source-out"       -> Of(s * dOut, sIn * dOut)
          [] op = "source-atop"      -> Of(s * dIn + d * sOut, IF dIn = Full THEN Full * Full ELSE 0)
          [] op = "destination-over" -> Of(s * dOut + d * Full, dIn * Full)
          [] op = "destination-in"   -> Of(d * sIn, dIn * sIn)
          [] op = "destination-out"  -> Of(d * sOut, dIn * sOut)
          [] op = "destination-atop" -> Of(s * dOut + d * sIn, dIn * Full)
          [] op = "lighter"          -> Of((s + d) * Full, (sIn + dIn) * Full)
          [] op = "copy"             -> src
          [] op = "xor"              -> Of(s * dOut + d * sOut, sIn * dOut + dIn * sOut)

\* blend_rgba: what is not clear makes the pixel opaque.
Opaque(dst, src) ==
    IF src.alpha = 0 THEN dst
    ELSE Pixel((src.value * src.alpha + dst.value * (Full - src.alpha)) \div Full, Full)

\* lerp_color at num / den, rounded.
Between(a, b, num, den) ==
    LET At(x, y) == (2 * (x * den + (y - x) * num) + den) \div (2 * den)
    IN  Pixel(At(a.value, b.value), At(a.alpha, b.alpha))

\* eval_stops at num / den.
StopColor(stops, num, den) ==
    LET Reaches(i) == num * Unit >= stops[i].offset * den
        Within(i)  == num * Unit <= stops[i].offset * den
        last       == Len(stops)
    IN  CASE stops = <<>> -> Black
          [] stops # <<>> /\ Within(1) -> stops[1].color
          [] stops # <<>> /\ ~ Within(1) /\ Reaches(last) -> stops[last].color
          [] OTHER ->
                LET i == Min({j \in 1 .. last - 1 : Reaches(j) /\ Within(j + 1)})
                    wide == stops[i + 1].offset - stops[i].offset
                IN  IF wide = 0 THEN stops[i + 1].color
                    ELSE Between(stops[i].color, stops[i + 1].color,
                                 num * Unit - stops[i].offset * den, den * wide)

\* Parts of a pixel after the transform.
Grain == Unit * Now.transform[7]

\* eval_linear_gradient at a point of the surface, in halves of a grain: no
\* transform applies to the gradient.
LinearColor(g, p) ==
    LET n  == 2 * Now.transform[7]
        dx == n * (g.to[1] - g.from[1])
        dy == n * (g.to[2] - g.from[2])
        len == dx * dx + dy * dy
        num == (p[1] - n * g.from[1]) * dx + (p[2] - n * g.from[2]) * dy
    IN  IF len = 0 THEN StopColor(g.stops, 0, 1) ELSE StopColor(g.stops, Clamped(num, len), len)

\* fill_color_at and stroke_color_at.
ColorAt(style, p) ==
    LET color == IF style.kind = "solid" THEN style.color ELSE LinearColor(gradients[style.color], p)
    IN  [color EXCEPT !.alpha = (@ * Now.alpha) \div Unit]

Middle(c) == <<(2 * c[1] + 1) * Grain, (2 * c[2] + 1) * Grain>>

-----------------------------------------------------------------------------
(* Shapes.                                                                 *)

Transformed(p) ==
    LET t == Now.transform
    IN  <<t[1] * p[1] + t[3] * p[2] + t[5], t[2] * p[1] + t[4] * p[2] + t[6]>>

\* The pixel a number is in, as a conversion to a whole number has it.
Truncated(x) == IF x < 0 THEN - ((- x) \div Grain) ELSE x \div Grain

\* The box around two opposite corners of a rectangle, and every pixel it touches.
Covered(box) ==
    LET p == Transformed(<<box[1], box[2]>>)
        q == Transformed(<<box[1] + box[3], box[2] + box[4]>>)
    IN  {c \in Cells : \A i \in 1 .. 2 : /\ Lesser(p[i], q[i]) < (c[i] + 1) * Grain
                                         /\ c[i] * Grain < Greater(p[i], q[i])}

\* What a call of a path adds to its lines: a curve starts at the current point,
\* an arc does not; a rectangle is closed.
Lengthened(acc, o) ==
    LET p == Transformed(o.at)
        q == Transformed(o.to)
        Lined(ps) == [i \in 1 .. Len(ps) - 1 |-> <<ps[i], ps[i + 1]>>]
    IN  CASE o.op = "move" -> [acc EXCEPT !.at = p, !.start = p]
          [] o.op \in {"line", "curve"} ->
                [acc EXCEPT !.lines = Append(@, <<acc.at, p>>), !.at = p]
          [] o.op = "arc" ->
                [acc EXCEPT !.lines = Append(@, <<p, q>>), !.start = p, !.at = q]
          [] o.op = "close" ->
                IF acc.at = acc.start THEN acc
                ELSE [acc EXCEPT !.lines = Append(@, <<acc.at, acc.start>>), !.at = acc.start]
          [] o.op = "rect" ->
                LET across == Transformed(<<o.to[1], o.at[2]>>)
                    down   == Transformed(<<o.at[1], o.to[2]>>)
                IN  [lines |-> acc.lines \o Lined(<<p, across, q, down, p>>),
                     at |-> p, start |-> p]

\* flatten_path: the lines of a path under the transform of now.
Flattened(ops) ==
    LET after[k \in 0 .. Len(ops)] ==
            IF k = 0 THEN [lines |-> <<>>, at |-> <<0, 0>>, start |-> <<0, 0>>]
            ELSE Lengthened(after[k - 1], ops[k])
    IN  after[Len(ops)].lines

\* Where the lines cross the middle of a row, as <<numerator, denominator>>,
\* from left to right.
Cuts(s, row) ==
    /\ 2 * Lesser(s[1][2], s[2][2]) <= (2 * row + 1) * Grain
    /\ (2 * row + 1) * Grain < 2 * Greater(s[1][2], s[2][2])

CrossingOf(s, row) ==
    LET rise == s[2][2] - s[1][2]
        sign == IF rise > 0 THEN 1 ELSE -1
    IN  <<sign * (2 * s[1][1] * rise + ((2 * row + 1) * Grain - 2 * s[1][2]) * (s[2][1] - s[1][1])),
          sign * 2 * rise>>

LeftOf(a, b) == a[1] * b[2] < b[1] * a[2]

FromLeft(at) ==
    LET Earlier(i) == {j \in DOMAIN at : LeftOf(at[j], at[i]) \/ (~ LeftOf(at[i], at[j]) /\ j < i)}
    IN  [k \in DOMAIN at |-> at[CHOOSE i \in DOMAIN at : Cardinality(Earlier(i)) = k - 1]]

Crossings(lines, row) ==
    LET cut == Retained(lines, {s \in ToSet(lines) : Cuts(s, row)})
    IN  FromLeft([i \in DOMAIN cut |-> CrossingOf(cut[i], row)])

\* Mutant of Layers: the pixel at the right end is taken too.
LayersOneMore(lines, c) ==
    LET xs == Crossings(lines, c[2])
    IN  {k \in 1 .. Len(xs) \div 2 :
            /\ xs[2 * k - 1][1] < (c[1] + 1) * Grain * xs[2 * k - 1][2]
            /\ c[1] * Grain * xs[2 * k][2] <= xs[2 * k][1]}

\* rasterize_fill and rasterize_clip_mask: the pairs of an odd crossing and the
\* next that a pixel is between. An open path is not closed.
Layers(lines, c) ==
    LET xs == Crossings(lines, c[2])
    IN  {k \in 1 .. Len(xs) \div 2 :
            /\ xs[2 * k - 1][1] < (c[1] + 1) * Grain * xs[2 * k - 1][2]
            /\ c[1] * Grain * xs[2 * k][2] < xs[2 * k][1]}

Enclosed(lines) == {c \in Cells : Layers(lines, c) # {}}

\* Half the width of a line, in halves of a grain.
HalfWidth == Greater(Now.width, Unit \div 2) * Now.transform[7]

\* draw_thick_line: the pixels whose middle is within half the width, of those in
\* the box around the line as a rectangle. A line without length is one pixel.
Thick(s) ==
    LET dx == s[2][1] - s[1][1]
        dy == s[2][2] - s[1][2]
        across == <<dy, dx>>
        len == dx * dx + dy * dy
        OfHalf(d, part) == d < 0 \/ d * d * len < part * part * HalfWidth * HalfWidth
        InBox(c) == \A i \in 1 .. 2 :
            /\ OfHalf(2 * (Lesser(s[1][i], s[2][i]) - (c[i] + 1) * Grain), across[i])
            /\ OfHalf(2 * (c[i] * Grain - Greater(s[1][i], s[2][i])), across[i])
        Near(c) ==
            LET x == Middle(c)[1] - 2 * s[1][1]
                y == Middle(c)[2] - 2 * s[1][2]
                along == x * dx + y * dy
                Close(u, v) == u * u + v * v <= HalfWidth * HalfWidth
            IN  CASE along <= 0       -> Close(x, y)
                  [] along >= 2 * len -> Close(x - 2 * dx, y - 2 * dy)
                  [] OTHER -> (x * dy - y * dx) * (x * dy - y * dx) <= HalfWidth * HalfWidth * len
    IN  IF len = 0 THEN {<<Truncated(s[1][1]), Truncated(s[1][2])>>} \cap Cells
        ELSE {c \in Cells : InBox(c) /\ Near(c)}

\* draw_cap, around an end of the path.
Capped(p) ==
    LET lw == Greater(Now.width, Unit \div 2)
        Off(c, i) == c[i] - Truncated(p[i])
    IN  CASE Now.cap = "butt"   -> {}
          [] Now.cap = "round"  ->
                {c \in Cells : 4 * Unit * Unit * (Off(c, 1) * Off(c, 1) + Off(c, 2) * Off(c, 2)) <= lw * lw}
          [] Now.cap = "square" ->
                {c \in Cells : \A i \in 1 .. 2 : /\ 2 * p[i] - HalfWidth < 2 * Grain * (c[i] + 1)
                                                 /\ 2 * Grain * c[i] < 2 * p[i] + HalfWidth}

-----------------------------------------------------------------------------
(* Painting.                                                               *)

Clipped(cells) == IF mask = NoClip THEN cells ELSE cells \cap mask

\* Blends shapes into pixels, one after the other.
Shape(cells, color) == [cells |-> cells, color |-> color]

Blended(was, shapes, op) ==
    FoldLeft(LAMBDA now, shape : [c \in Cells |-> IF c \in shape.cells THEN Blend(now[c], shape.color, op)
                                                  ELSE now[c]], was, shapes)

\* Blends a buffer into pixels.
Onto(was, buffer, op) ==
    [c \in Cells |-> IF buffer[c].alpha > 0 THEN Blend(was[c], buffer[c], op) ELSE was[c]]

HasShadow == Now.blur > 0 /\ Now.shadowColor.alpha > 0

\* The offsets of the blur, and the color of the shadow at one of them.
Around == LET side == 2 * Now.blur + 1
          IN  [k \in 1 .. side * side |-> <<Rows(side, side)[k][1] - Now.blur, Rows(side, side)[k][2] - Now.blur>>]

Faint(d) ==
    [Now.shadowColor EXCEPT
        !.alpha = (@ * Now.alpha * Falloff[Now.blur][d[1] * d[1] + d[2] * d[2]]) \div (1000 * Unit)]

\* A shape for each of n things and each offset of the blur.
Shadows(n, Cast(_, _)) ==
    [k \in 1 .. n * Len(Around) |->
        LET d == Around[((k - 1) % Len(Around)) + 1]
        IN  Shape(Cast((k - 1) \div Len(Around) + 1,
                       <<d[1] + Now.shadowAt[1], d[2] + Now.shadowAt[2]>>), Faint(d))]

Moved(s, d) == [i \in 1 .. 2 |-> <<s[i][1] + d[1] * Grain, s[i][2] + d[2] * Grain>>]

\* Mixes the color of a style into a pixel, once for each layer.
Coated(was, style, c, layers) ==
    LET after[n \in 0 .. layers] ==
            IF n = 0 THEN was ELSE Blend(after[n - 1], ColorAt(style, Middle(c)), Now.op)
    IN  after[layers]

\* fill_rect. The shadow of a pixel in the clip falls on pixels outside it too.
RectShadow(box) ==
    LET casting == Retained(Rows(Width, Height), Clipped(Covered(box)))
    IN  Blended(pixels, Shadows(Len(casting), LAMBDA i, d :
                        {<<casting[i][1] + d[1], casting[i][2] + d[2]>>} \cap Cells), Now.op)

FilledRect(box) ==
    LET was == IF HasShadow THEN RectShadow(box) ELSE pixels
    IN  [c \in Cells |-> IF c \in Clipped(Covered(box)) THEN Coated(was[c], Now.fill, c, 1) ELSE was[c]]

\* draw_fill_shadow: along the lines, one pixel in a row for each offset, and
\* whatever the clip. What is left of the surface falls on its first column.
PathShadow(lines) ==
    LET Cast(i, d) ==
            {c \in Cells : LET s == Moved(lines[i], d)
                               x == CrossingOf(s, c[2])
                           IN  Cuts(s, c[2]) /\ c[1] = Greater(x[1] \div (x[2] * Grain), 0)}
    IN  Onto(pixels, Blended([c \in Cells |-> Clear], Shadows(Len(lines), Cast), "source-over"), Now.op)

FilledPath(lines) ==
    LET was == IF HasShadow THEN PathShadow(lines) ELSE pixels
    IN  [c \in Cells |-> IF c \in Clipped(Enclosed(lines))
                         THEN Coated(was[c], Now.fill, c, Cardinality(Layers(lines, c))) ELSE was[c]]

ClearedRect(box) ==
    [c \in Cells |-> IF c \in Clipped(Covered(box)) /\ Now.op # "destination-out" THEN Clear ELSE pixels[c]]

\* rasterize_stroke, of a line: in the colour of its middle, with caps at the ends
\* of the path and a pixel at each join. A line without length is left out.
LineShapes(lines, i) ==
    LET s == lines[i]
        color == ColorAt(Now.stroke, <<s[1][1] + s[2][1], s[1][2] + s[2][2]>>)
        HasLength(t) == t[1] # t[2]
        join == {<<Truncated(s[2][1]), Truncated(s[2][2])>>}
        parts == <<Thick(s),
                   IF i = 1 THEN Capped(s[1]) ELSE {},
                   IF i = Len(lines) THEN Capped(s[2]) ELSE {},
                   IF i < Len(lines) /\ HasLength(lines[i + 1]) THEN join \cap Cells ELSE {}>>
    IN  IF HasLength(s) THEN [k \in 1 .. 4 |-> Shape(Clipped(parts[k]), color)] ELSE <<>>

\* The shadow of a stroke is not clipped.
Stroked(lines) ==
    LET was == IF HasShadow
               THEN Blended(pixels, Shadows(Len(lines), LAMBDA i, d : Thick(Moved(lines[i], d))), Now.op)
               ELSE pixels
    IN  Blended(was, FlattenSeq([i \in DOMAIN lines |-> LineShapes(lines, i)]), Now.op)

\* render_into: the glyphs, moved onto the surface, whatever the clip.
Inked(was, p, color) ==
    Blended(was, [i \in DOMAIN Glyphs |->
                Shape({<<Clamped(Truncated(p[1]) + Glyphs[i][1], Width - 1),
                         Clamped(Truncated(p[2]) + Glyphs[i][2], Height - 1)>>}, color)], "source-over")

\* fill_text and stroke_text. The shadow at each offset is written by itself.
WithText(style, at) ==
    LET p == Transformed(at)
        Cast(d) == Inked([c \in Cells |-> Clear], Moved(<<p, p>>, <<d[1] + Now.shadowAt[1], d[2] + Now.shadowAt[2]>>)[1],
                           Faint(d))
        was == IF HasShadow THEN FoldLeft(LAMBDA now, d : Onto(now, Cast(d), Now.op), pixels, Around)
               ELSE pixels
    IN  Inked(was, p, ColorAt(style, <<2 * p[1], 2 * p[2]>>))

-----------------------------------------------------------------------------
(* Images.                                                                 *)

\* The cell of the surface at an offset from a corner, which is moved onto it.
CellAt(x, y, d) == <<Lesser(Greater(x, 0) + d[1], Width - 1), Lesser(Greater(y, 0) + d[2], Height - 1)>>

\* get_image_data: what lies outside repeats the edge.
ImageData(x, y, w, h) ==
    [w |-> Greater(w, 1), h |-> Greater(h, 1),
     data |-> [d \in (0 .. Greater(w, 1) - 1) \X (0 .. Greater(h, 1) - 1) |->
                  IF d[1] < Width /\ d[2] < Height THEN pixels[CellAt(x, y, d)] ELSE Clear]]

\* Pixels of an image, row after row, each into the cell that is its place.
Copied(image, among, Place(_)) ==
    FoldLeft(LAMBDA now, d : IF Place(d) \in among THEN [now EXCEPT ![Place(d)] = Opaque(@, image.data[d])]
                             ELSE now, pixels, Rows(image.w, image.h))

\* put_image_data, whatever the clip.
WithImageData(image, x, y) ==
    Copied(image, Cells, LAMBDA d : IF d[1] < Width /\ d[2] < Height THEN CellAt(x, y, d) ELSE <<-1, -1>>)

\* draw_image.
WithImage(image, at) ==
    LET p == Transformed(at)
    IN  Copied(image, Clipped(Cells),
               LAMBDA d : <<Truncated(p[1] + d[1] * Grain), Truncated(p[2] + d[2] * Grain)>>)

-----------------------------------------------------------------------------
(* Calls.                                                                  *)

Drawing == drawn < MaxDrawn /\ drawn' = drawn + 1

Save == Drawing /\ saved' = Append(saved, Now) /\ UNCHANGED <<pixels, path, subpathEmpty, mask, gradients>>

Restore ==
    /\ Drawing /\ Len(saved) > 1
    /\ saved' = Front(saved)
    /\ UNCHANGED <<pixels, path, subpathEmpty, mask, gradients>>

Change(s) ==
    /\ Drawing /\ saved' = [saved EXCEPT ![Len(saved)] = s]
    /\ UNCHANGED <<pixels, path, subpathEmpty, mask, gradients>>

SetFillStyle(style) == Change([Now EXCEPT !.fill = style])

SetStrokeStyle(style) == Change([Now EXCEPT !.stroke = style])

SetLineWidth(w) == Change([Now EXCEPT !.width = Greater(w, 0)])

SetGlobalAlpha(a) == Change([Now EXCEPT !.alpha = Clamped(a, Unit)])

SetShadowColor(c) == Change([Now EXCEPT !.shadowColor = c])

SetShadowBlur(b) == Change([Now EXCEPT !.blur = b])

SetShadowOffset(i, by) == Change([Now EXCEPT !.shadowAt[i] = by])

SetLineCap(cap) == Change([Now EXCEPT !.cap = cap])

SetOperation(op) == Change([Now EXCEPT !.op = op])

Translate(x, y) ==
    Change([Now EXCEPT !.transform = LET t == @ IN
        [t EXCEPT ![5] = @ + t[1] * x + t[3] * y, ![6] = @ + t[2] * x + t[4] * y]])

\* The fractions of the turn make the parts smaller.
Rotate(turn) ==
    /\ Now.transform[7] * turn[3] <= Finest
    /\ Change([Now EXCEPT !.transform = LET t == @
                                            cos == turn[1]
                                            sin == turn[2]
                                            n == turn[3]
        IN  <<t[1] * cos + t[3] * sin, t[2] * cos + t[4] * sin, t[3] * cos - t[1] * sin,
              t[4] * cos - t[2] * sin, t[5] * n, t[6] * n, t[7] * n>>])

Scale(x, y) ==
    Change([Now EXCEPT !.transform = <<@[1] * x, @[2] * x, @[3] * y, @[4] * y, @[5], @[6], @[7]>>])

SetTransform(m) == Change([Now EXCEPT !.transform = m])

ResetTransform == Change([Now EXCEPT !.transform = DefaultState.transform])

CreateGradient(from, to) ==
    /\ Drawing /\ gradients' = Append(gradients, [from |-> from, to |-> to, stops |-> <<>>])
    /\ UNCHANGED <<pixels, saved, path, subpathEmpty, mask>>

\* The stops are sorted again, and equal offsets keep their order.
AddColorStop(g, offset, color) ==
    /\ Drawing
    /\ LET at   == Clamped(offset, Unit)
           upTo == SelectSeq(gradients[g].stops, LAMBDA s : s.offset <= at)
           rest == SelectSeq(gradients[g].stops, LAMBDA s : s.offset > at)
       IN  gradients' = [gradients EXCEPT ![g].stops =
                            upTo \o <<[offset |-> at, color |-> color]>> \o rest]
    /\ UNCHANGED <<pixels, saved, path, subpathEmpty, mask>>

Draw(result) == Drawing /\ pixels' = result /\ UNCHANGED <<saved, path, subpathEmpty, mask, gradients>>

ClearRect(box) == Draw(ClearedRect(box))

FillRect(box) == Draw(FilledRect(box))

PutImageData(data, x, y) == Draw(WithImageData(data, x, y))

DrawImage(image, at) == Draw(WithImage(image, at))

FillText(at) == Draw(WithText(Now.fill, at))

StrokeText(at) == Draw(WithText(Now.stroke, at))

PathCall(ops, isEmpty) ==
    /\ Drawing /\ path' = ops /\ subpathEmpty' = isEmpty
    /\ UNCHANGED <<pixels, saved, mask, gradients>>

PathOp(op, at, to) == [op |-> op, at |-> at, to |-> to]

BeginPath == PathCall(<<>>, TRUE)

ClosePath == PathCall(Append(path, PathOp("close", <<0, 0>>, <<0, 0>>)), subpathEmpty)

MoveTo(p) == PathCall(Append(path, PathOp("move", p, p)), FALSE)

LineTo(p) == PathCall(Append(path, PathOp(IF subpathEmpty THEN "move" ELSE "line", p, p)), FALSE)

\* A rectangle leaves the next line to start a subpath of its own.
AddRect(box) ==
    PathCall(Append(path, PathOp("rect", <<box[1], box[2]>>, <<box[1] + box[3], box[2] + box[4]>>)),
             subpathEmpty)

\* An arc or a curve in an empty subpath moves to its first point.
Started(p) == IF subpathEmpty THEN Append(path, PathOp("move", p, p)) ELSE path

Arc(p, q) == PathCall(Append(Started(p), PathOp("arc", p, q)), FALSE)

Curve(control, p) == PathCall(Append(Started(control), PathOp("curve", p, p)), FALSE)

\* The path is used up, unless there is nothing to draw.
Fill ==
    /\ Drawing /\ Flattened(path) # <<>>
    /\ pixels' = FilledPath(Flattened(path)) /\ path' = <<>> /\ subpathEmpty' = TRUE
    /\ UNCHANGED <<saved, mask, gradients>>

Stroke ==
    /\ Drawing /\ Flattened(path) # <<>>
    /\ pixels' = Stroked(Flattened(path)) /\ path' = <<>> /\ subpathEmpty' = TRUE
    /\ UNCHANGED <<saved, mask, gradients>>

\* The clip replaces the one before it, and no state keeps it.
Clip ==
    /\ Drawing /\ mask' = Enclosed(Flattened(path)) /\ path' = <<>> /\ subpathEmpty' = TRUE
    /\ UNCHANGED <<pixels, saved, gradients>>

Styles == {Solid(c) : c \in Colors} \cup {Gradient(g) : g \in DOMAIN gradients}

CanvasNext ==
    \/ Save \/ Restore \/ ResetTransform \/ BeginPath \/ ClosePath \/ Fill \/ Stroke \/ Clip
    \/ \E s \in Styles : SetFillStyle(s) \/ SetStrokeStyle(s)
    \/ \E w \in LineWidths : SetLineWidth(w)
    \/ \E a \in {0, 1, Unit + 1} : SetGlobalAlpha(a)
    \/ \E cap \in {"butt", "round", "square"} : SetLineCap(cap)
    \/ \E op \in Blends : SetOperation(op)
    \/ \E c \in Colors : SetShadowColor(c)
    \/ \E b \in Blurs : SetShadowBlur(b)
    \/ \E i \in 1 .. 2 : SetShadowOffset(i, 1)
    \/ \E turn \in Turns : Rotate(turn)
    \/ \E m \in Matrices : SetTransform(m)
    \/ \E p \in Corners :
        \/ Translate(p[1], p[2]) \/ Scale(p[1], - p[2]) \/ MoveTo(p) \/ LineTo(p)
        \/ FillText(p) \/ StrokeText(p)
        \/ DrawImage(ImageData(0, 0, Width, Height), p)
        \/ \E q \in Corners : Arc(p, q) \/ Curve(p, q) \/ CreateGradient(p, q)
    \/ \E g \in DOMAIN gradients, offset \in {-1, 1, Unit + 1}, c \in Colors : AddColorStop(g, offset, c)
    \/ \E box \in Boxes :
        \/ ClearRect(box) \/ FillRect(box) \/ AddRect(box)
        \/ PutImageData(ImageData(0, 0, 1, 1), box[1], box[2])

CanvasSpec == CanvasInit /\ [][CanvasNext]_canvasVars

-----------------------------------------------------------------------------
(* What the ways of drawing promise of each other.                         *)

AsPath(box) ==
    Flattened(<<PathOp("rect", <<box[1], box[2]>>, <<box[1] + box[3], box[2] + box[4]>>)>>)

\* A rectangle filled as a path (rect and fill) is the one filled at once
\* (fill_rect), where nothing turns it and there is no shadow: in the rows whose
\* middle lies in the rectangle it paints the same pixels the same, and it paints
\* no other row.
RectsAgree ==
    LET t == Now.transform
    IN  t[2] = 0 /\ t[3] = 0 /\ ~ HasShadow =>
            \A box \in Boxes, c \in Cells :
                LET a == t[4] * box[2] + t[6]
                    b == t[4] * (box[2] + box[4]) + t[6]
                IN  FilledPath(AsPath(box))[c] =
                        IF /\ 2 * Lesser(a, b) <= (2 * c[2] + 1) * Grain
                           /\ (2 * c[2] + 1) * Grain < 2 * Greater(a, b)
                        THEN FilledRect(box)[c] ELSE pixels[c]

\* Pixels that are read and put back where they were (get_image_data,
\* put_image_data) stay as they are, unless they are translucent: those are made
\* opaque.
PutBackAgrees ==
    \A box \in Boxes : \A c \in Cells :
        LET back == WithImageData(ImageData(box[1], box[2], box[3], box[4]), box[1], box[2])[c]
        IN  back = pixels[c] \/ (pixels[c].alpha \notin {0, Full} /\ back.alpha = Full)

\* No call that the clip is for touches a pixel outside it (is_in_clip): clear_rect
\* and draw_image never, fill_rect, fill and stroke without a shadow. Texts, shadows
\* and put_image_data do.
ClipKept ==
    mask # NoClip => \A c \in Cells \ mask :
        /\ \A box \in Boxes :
            /\ ClearedRect(box)[c] = pixels[c]
            /\ ~ HasShadow => \A result \in {FilledRect(box), FilledPath(AsPath(box)), Stroked(AsPath(box))} :
                                result[c] = pixels[c]
        /\ \A p \in Corners : WithImage(ImageData(0, 0, Width, Height), p)[c] = pixels[c]

\* Two ways of drawing the same thing agree and the clip is kept, in every state
\* that calls reach, under every transform, clip and compositing operation.
PaintAgrees == drawn > 0 => RectsAgree /\ PutBackAgrees /\ ClipKept
=============================================================================
