------------------------------ MODULE Animation ------------------------------
(***************************************************************************)
(* CSS animations: the controller of an element (fortrust-style,           *)
(* animation.rs) and how the static renderer gives the boxes of a layout   *)
(* their controllers (fortrust-renderer).  Times are in milliseconds; a    *)
(* progress is a fraction of the duration, which stands for the values     *)
(* interpolated between keyframes.  Transitions are left out: no program   *)
(* calls start_transition.                                                 *)
(***************************************************************************)
EXTENDS Integers, FiniteSets, TLC, SequencesExt, FiniteSetsExt

Directions == {"normal", "reverse", "alternate", "alternate-reverse"}
Infinite   == -1        \* an iteration count

\* A declared animation: [name, duration, delay, count, fill, direction, paused].
Started(spec) ==
    [spec |-> spec, elapsed |-> 0, finished |-> FALSE, begun |-> FALSE,
     iteration |-> 0, events |-> <<>>]

Duration(a)   == Max({a.spec.duration, 1})
ActiveTime(a) == a.elapsed - a.spec.delay
Iteration(a)  == ActiveTime(a) \div Duration(a)

\* ActiveAnimation::tick.  One iteration event at most, whatever dt skips.
Ticked(a, dt) ==
    LET b    == [a EXCEPT !.elapsed = @ + dt]
        over == b.spec.count # Infinite /\ ActiveTime(b) >= b.spec.count * Duration(b)
    IN  IF a.finished \/ a.spec.paused THEN a
        ELSE IF b.elapsed < b.spec.delay THEN b
        ELSE [b EXCEPT
                !.begun     = TRUE,
                !.iteration = Iteration(b),
                !.finished  = over,
                !.events    = @ \o (IF a.begun THEN <<>> ELSE <<"start">>)
                                \o (IF Iteration(b) > a.iteration THEN <<"iteration">> ELSE <<>>)
                                \o (IF over THEN <<"end">> ELSE <<>>)]

\* progress, times the duration: it grows during the first iteration only.
Progress(a) ==
    LET raw == Min({ActiveTime(a), Duration(a)})
        odd == Iteration(a) % 2 = 1
    IN  IF a.elapsed < a.spec.delay THEN 0
        ELSE CASE a.spec.direction = "normal"            -> raw
               [] a.spec.direction = "reverse"           -> Duration(a) - raw
               [] a.spec.direction = "alternate"         -> IF odd THEN Duration(a) - raw ELSE raw
               [] a.spec.direction = "alternate-reverse" -> IF odd THEN raw ELSE Duration(a) - raw

-----------------------------------------------------------------------------
(* AnimationController: the animations of one element.                     *)

NoController == [animations |-> <<>>]

\* start_animation: one of a name at a time.
StartAnimation(c, spec) ==
    IF \E i \in DOMAIN c.animations :
            c.animations[i].spec.name = spec.name /\ ~ c.animations[i].finished
    THEN c
    ELSE [c EXCEPT !.animations = Append(@, Started(spec))]

\* Mutant of IsActive: what is kept for its fill counts as running.
IsActiveAny(c) == c.animations # <<>>

IsActive(c) == \E i \in DOMAIN c.animations : ~ c.animations[i].finished

\* What has ended goes, with the events nobody has taken, unless it fills.
TickController(c, dt) ==
    [animations |-> SelectSeq([i \in DOMAIN c.animations |-> Ticked(c.animations[i], dt)],
                              LAMBDA a : ~ a.finished \/ a.spec.fill # "none")]

-----------------------------------------------------------------------------
(* The boxes of a layout, in document order: [name, animations].           *)

\* The controller of a box that declares something.
ControllerOf(box) == FoldLeft(StartAnimation, NoController, box.animations)

Declares(box) == box.animations # <<>>

CountBefore(boxes, i, counted) ==
    Cardinality({j \in counted : j < i /\ boxes[j].name = boxes[i].name})

\* scan_controllers numbers the boxes of a name that declare something, ...
ScanKey(boxes, i) ==
    <<boxes[i].name, CountBefore(boxes, i, {j \in DOMAIN boxes : Declares(boxes[j])})>>

Scanned(boxes) ==
    LET own == {i \in DOMAIN boxes : Declares(boxes[i])}
    IN  [k \in {ScanKey(boxes, i) : i \in own} |->
            ControllerOf(boxes[CHOOSE i \in own : ScanKey(boxes, i) = k])]

\* ... and apply_controllers_to_layout all the boxes of the name.
ApplyKey(boxes, i) == <<boxes[i].name, CountBefore(boxes, i, DOMAIN boxes)>>

\* The boxes that are drawn with the controller of box i.
DrawnWith(boxes, i) ==
    {j \in DOMAIN boxes : Declares(boxes[i]) /\ ApplyKey(boxes, j) = ScanKey(boxes, i)}
=============================================================================
