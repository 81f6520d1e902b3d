------------------------------- MODULE Outbox -------------------------------
(***************************************************************************)
(* What a WebSocket client promises to those who send to it: events reach  *)
(* the peer in the order in which they were accepted, none twice, none     *)
(* skipped, until the connection ends; what was not delivered by then is   *)
(* lost.  While the connection is open no more than Limit events wait.     *)
(***************************************************************************)
EXTENDS Sequences, Naturals

CONSTANTS Event, Limit

VARIABLES accepted,   \* the events accepted so far, in order
          delivered,  \* the events the peer got, in order
          open        \* FALSE once the connection has ended

Init ==
    /\ accepted = <<>>
    /\ delivered = <<>>
    /\ open = TRUE

Accept(e) ==
    /\ open => Len(accepted) - Len(delivered) < Limit
    /\ accepted' = Append(accepted, e)
    /\ UNCHANGED <<delivered, open>>

\* A frame carries the next n events.
Deliver(n) ==
    /\ open
    /\ delivered' = SubSeq(accepted, 1, Len(delivered) + n)
    /\ UNCHANGED <<accepted, open>>

End ==
    /\ open' = FALSE
    /\ UNCHANGED <<accepted, delivered>>

Next ==
    \/ \E e \in Event : Accept(e)
    \/ \E n \in 1..(Len(accepted) - Len(delivered)) : Deliver(n)
    \/ End

Spec == Init /\ [][Next]_<<accepted, delivered, open>>
=============================================================================
