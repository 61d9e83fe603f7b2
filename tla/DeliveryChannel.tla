-------------------------- MODULE DeliveryChannel --------------------------
(***************************************************************************)
(* What one subscriber is promised of the channel between the router and  *)
(* itself: frames are accepted in the order they are sent, into a bounded  *)
(* buffer, are received in that order, none twice, and nothing of a stream *)
(* is accepted after the terminal frame of that stream.  A frame that the  *)
(* sender gives up on (the consumer stalled, or is gone) is never accepted.*)
(***************************************************************************)
EXTENDS Integers, Sequences

CONSTANTS
    Streams,    \* ids of the tracked response streams
    Untracked,  \* stands for "no parent_id"
    Capacity    \* size of the subscriber's channel

Frames == [stream : Streams \cup {Untracked}, terminal : BOOLEAN]

VARIABLES
    accepted,   \* every frame the channel ever accepted, in order
    taken,      \* how many of them the subscriber has received
    open        \* the subscriber still exists

vars == <<accepted, taken, open>>

Init ==
    /\ accepted = <<>>
    /\ taken = 0
    /\ open = TRUE

\* The stream of f may still carry frames.
StreamIsOpen(f) ==
    \A i \in 1 .. Len(accepted) :
        accepted[i].stream = f.stream /\ f.stream # Untracked => ~accepted[i].terminal

Accept(f) ==
    /\ open
    /\ Len(accepted) - taken < Capacity
    /\ StreamIsOpen(f)
    /\ accepted' = Append(accepted, f)
    /\ UNCHANGED <<taken, open>>

Take ==
    /\ open
    /\ taken < Len(accepted)
    /\ taken' = taken + 1
    /\ UNCHANGED <<accepted, open>>

Close ==
    /\ open
    /\ open' = FALSE
    /\ UNCHANGED <<accepted, taken>>

Next == Take \/ Close \/ \E f \in Frames : Accept(f)

Spec == Init /\ [][Next]_vars
=============================================================================
