----------------------------- MODULE FrameQueue -----------------------------
(***************************************************************************)
(* What the ring of frames promises the status loop: a queue.  Frames are  *)
(* queued as they begin, the loop looks at one at a time and goes on to    *)
(* the next once it has reported it.                                       *)
(***************************************************************************)
EXTENDS Naturals

CONSTANT Buffers        \* image buffers

VARIABLES
    begun,      \* frames queued, numbered from 1
    buffer,     \* buffer[i] of the i-th frame
    at,         \* frame the status loop looks at, 0 before the first
    reported    \* buffers of the frames it has reported

vars == <<begun, buffer, at, reported>>

Init == begun = 0 /\ buffer = [i \in {} |-> 0] /\ at = 0 /\ reported = {}

Begin ==
    /\ begun' = begun + 1
    /\ \E b \in Buffers : buffer' = [i \in 1 .. begun + 1 |-> IF i <= begun THEN buffer[i] ELSE b]
    /\ UNCHANGED <<at, reported>>

Report ==
    /\ at > 0
    /\ reported' = reported \cup {buffer[at]}
    /\ UNCHANGED <<begun, buffer, at>>

\* The loop looks at the next frame, and only if the last was reported.
GoOn ==
    /\ at < begun
    /\ at > 0 => buffer[at] \in reported
    /\ at' = at + 1
    /\ UNCHANGED <<begun, buffer, reported>>

\* The queue is full or dropped: nothing more is promised.
Drop ==
    /\ begun' = 0 /\ buffer' = [i \in {} |-> 0] /\ at' = 0 /\ reported' = {}

Next == Begin \/ Report \/ GoOn \/ Drop

Spec == Init /\ [][Next]_vars
=============================================================================
