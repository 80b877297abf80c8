----------------------------- MODULE FrameQueue -----------------------------
(***************************************************************************)
(* What the receive ring promises its callers: a bounded queue of frames.  *)
(* A frame that finds room is appended, the others are lost; frames leave  *)
(* at the head, in order and once, taken by a caller or skipped.  Only a   *)
(* frame that no buffer can hold is skipped, or one whose header has read  *)
(* back damaged as often as the driver reads it.                           *)
(***************************************************************************)
EXTENDS Integers, Sequences

CONSTANTS
    Capacity,      \* pages for frames
    BufferPages,   \* what the callers' buffers hold
    Patience       \* damaged reads in a row after which a frame is given up

VARIABLES
    queue,         \* <<[id, pages]>>, the head first
    out,           \* the last frame taken
    damaged        \* damaged reads of the head since its reading began

qvars == <<queue, out, damaged>>

PagesIn(q) ==
    LET total[k \in 0 .. Len(q)] == IF k = 0 THEN 0 ELSE total[k - 1] + q[k].pages
    IN  total[Len(q)]

Empty == queue = <<>> /\ out = 0 /\ damaged = 0

Arrives ==
    /\ Len(queue') = Len(queue) + 1
    /\ queue' = Append(queue, queue'[Len(queue')])
    /\ PagesIn(queue') <= Capacity
    /\ UNCHANGED <<out, damaged>>

Taken ==
    /\ queue # <<>>
    /\ out' = Head(queue).id
    /\ queue' = Tail(queue)
    /\ damaged' = 0

Skipped ==
    /\ queue # <<>>
    /\ Head(queue).pages > BufferPages \/ damaged >= Patience
    /\ queue' = Tail(queue)
    /\ damaged' = 0
    /\ UNCHANGED out

Damaged == damaged' = damaged + 1 /\ UNCHANGED <<queue, out>>

\* The reading of the head begins, or ends without it.
Begins == damaged' = 0 /\ UNCHANGED <<queue, out>>

QueueNext == Arrives \/ Taken \/ Skipped \/ Damaged \/ Begins
QueueSpec == Empty /\ [][QueueNext]_qvars
=============================================================================
