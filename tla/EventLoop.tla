----------------------------- MODULE EventLoop -----------------------------
(***************************************************************************)
(* The timers and animation frame callbacks of fortrust-js: event_loop.rs, *)
(* and the functions of bindings/timers.rs through which scripts set and    *)
(* clear them. A callback is script, and sets and clears others.            *)
(*                                                                         *)
(* execute_pending_raf is called for every animation tick. No program calls *)
(* process_pending_timers yet; its result is run here in the same way.      *)
(***************************************************************************)
EXTENDS Integers, Sequences, SequencesExt, FiniteSets, Retain

CONSTANTS
    Delays,     \* of setTimeout and setInterval, in ticks of the clock
    MaxTimer,   \* bound: timers that are ever set
    MaxFrame,   \* bound: animation frame callbacks that are ever requested
    MaxNow      \* bound: of the clock

ASSUME LoopAssumption ==
    /\ Delays \subseteq Nat
    /\ {MaxTimer, MaxFrame, MaxNow} \subseteq Nat

VARIABLES
    now,            \* Instant::now
    timers,         \* EventLoop::timers, a sequence of TimerEntry
    nextTimer,      \* NEXT_TIMER_ID
    timeouts,       \* TimerState::active_timeouts, the ids
    intervals,      \* TimerState::active_intervals, the ids
    frames,         \* EventLoop::raf_callbacks, the ids
    nextFrame,      \* EventLoop::next_raf_id
    taken,          \* the callbacks that were taken and are still to be called
    calling         \* a callback is running

loopVars == <<now, timers, nextTimer, timeouts, intervals, frames, nextFrame, taken, calling>>

Timeout == "timeout"
Interval == "interval"

LoopInit ==
    /\ now = 0
    /\ timers = <<>>
    /\ nextTimer = 1
    /\ timeouts = {} /\ intervals = {}
    /\ frames = <<>>
    /\ nextFrame = 1
    /\ taken = <<>>
    /\ calling = FALSE

\* A script of the page runs, or a callback.
Scripts == calling \/ taken = <<>>

\* setTimeout and setInterval.
SetTimer(kind, delay) ==
    /\ Scripts
    /\ nextTimer <= MaxTimer
    /\ timers' = Append(timers, [id |-> nextTimer, due |-> now + delay,
                                 every |-> delay, kind |-> kind])
    /\ nextTimer' = nextTimer + 1
    /\ timeouts' = timeouts \cup IF kind = Timeout THEN {nextTimer} ELSE {}
    /\ intervals' = intervals \cup IF kind = Interval THEN {nextTimer} ELSE {}
    /\ UNCHANGED <<now, frames, nextFrame, taken, calling>>

\* cancel_timer: what is taken already is called all the same.
Cancelled(id) == Retained(timers, {t \in ToSet(timers) : t.id # id})

\* Clearing the id of an interval as a timeout does nothing, nor the reverse.
ClearTimeout(id) ==
    /\ Scripts
    /\ id \in timeouts
    /\ timeouts' = timeouts \ {id}
    /\ timers' = Cancelled(id)
    /\ UNCHANGED <<now, nextTimer, intervals, frames, nextFrame, taken, calling>>

ClearInterval(id) ==
    /\ Scripts
    /\ id \in intervals
    /\ intervals' = intervals \ {id}
    /\ timers' = Cancelled(id)
    /\ UNCHANGED <<now, nextTimer, timeouts, frames, nextFrame, taken, calling>>

\* A mutant: an interval that fired is not set again.
RepeatedNever(s) == <<>>

\* The intervals that fired, to be set again behind the others.
Repeated(s) ==
    LET again == Retained(s, {t \in ToSet(s) : t.kind = Interval})
    IN  [i \in DOMAIN again |-> [again[i] EXCEPT !.due = now + again[i].every]]

\* Due timers are taken in the order in which they were set, not in the order
\* in which they are due. A timeout that fired stays in active_timeouts. An
\* interval of 0 is due again as soon as it is set again: the pass that meets one
\* never returns, and is no step.
ProcessPendingTimers ==
    /\ taken = <<>> /\ ~calling
    /\ LET due == Retained(timers, {t \in ToSet(timers) : t.due <= now})
           rest == Retained(timers, {t \in ToSet(timers) : t.due > now})
       IN  /\ due # <<>>
           /\ \A i \in DOMAIN due : due[i].kind = Interval => due[i].every > 0
           /\ taken' = [i \in DOMAIN due |-> <<"timer", due[i].id>>]
           /\ timers' = rest \o Repeated(due)
    /\ UNCHANGED <<now, nextTimer, timeouts, intervals, frames, nextFrame, calling>>

RequestAnimationFrame ==
    /\ Scripts
    /\ nextFrame <= MaxFrame
    /\ frames' = Append(frames, nextFrame)
    /\ nextFrame' = nextFrame + 1
    /\ UNCHANGED <<now, timers, nextTimer, timeouts, intervals, taken, calling>>

CancelAnimationFrame(id) ==
    /\ Scripts
    /\ id \in ToSet(frames)
    /\ frames' = Retained(frames, ToSet(frames) \ {id})
    /\ UNCHANGED <<now, timers, nextTimer, timeouts, intervals, nextFrame, taken, calling>>

\* Every callback is taken before the first is called: what they request is
\* for the next frame.
ExecutePendingRaf ==
    /\ taken = <<>> /\ ~calling
    /\ frames # <<>>
    /\ taken' = [i \in DOMAIN frames |-> <<"frame", frames[i]>>]
    /\ frames' = <<>>
    /\ UNCHANGED <<now, timers, nextTimer, timeouts, intervals, nextFrame, calling>>

\* call_function; a callback that throws is like one that returns.
Call ==
    /\ taken # <<>> /\ ~calling
    /\ calling' = TRUE
    /\ UNCHANGED <<now, timers, nextTimer, timeouts, intervals, frames, nextFrame, taken>>

Return ==
    /\ calling
    /\ calling' = FALSE
    /\ taken' = Tail(taken)
    /\ UNCHANGED <<now, timers, nextTimer, timeouts, intervals, frames, nextFrame>>

TimePasses ==
    /\ now < MaxNow
    /\ now' = now + 1
    /\ UNCHANGED <<timers, nextTimer, timeouts, intervals, frames, nextFrame, taken, calling>>

LoopNext ==
    \/ \E kind \in {Timeout, Interval}, delay \in Delays : SetTimer(kind, delay)
    \/ \E id \in 1 .. MaxTimer : ClearTimeout(id) \/ ClearInterval(id)
    \/ \E id \in 1 .. MaxFrame : CancelAnimationFrame(id)
    \/ RequestAnimationFrame
    \/ ProcessPendingTimers \/ ExecutePendingRaf \/ Call \/ Return \/ TimePasses

LoopSpec == LoopInit /\ [][LoopNext]_loopVars

-----------------------------------------------------------------------------

EntryIds(kind) == {timers[i].id : i \in {j \in DOMAIN timers : timers[j].kind = kind}}

\* The two copies of what is set, the event loop's and the binding's, agree,
\* whatever callbacks set and clear while a pass is being called: an interval
\* that is not cleared is there to fire again and one that is cleared will not be
\* taken again, a timeout that can fire can also be cleared, nothing is set
\* twice, and no animation frame callback is taken and still requested.
TimersAgree ==
    /\ EntryIds(Interval) = intervals
    /\ EntryIds(Timeout) \subseteq timeouts
    /\ Cardinality(EntryIds(Interval) \cup EntryIds(Timeout)) = Len(timers)
    /\ IsInjective(frames) /\ IsInjective(taken)
    /\ \A i \in DOMAIN frames : <<"frame", frames[i]>> \notin ToSet(taken)

=============================================================================
