--------------------------- MODULE AddressFeed ---------------------------
(***************************************************************************)
(* What a Resolver promises the Client that reads its UpdateChan. It       *)
(* publishes a list only when the list is news, everything it published    *)
(* is delivered once, and only stopping it loses a list. Lists that are    *)
(* under way at the same time may overtake each other, and once the        *)
(* channel is closed it delivers the empty list for ever.                  *)
(*                                                                         *)
(* ConsulResolver implements this (ImplementsFeed there); ResolverClient   *)
(* runs a Client against it.                                               *)
(***************************************************************************)
EXTENDS Naturals

CONSTANTS Lists, Empty

VARIABLES
    current,   \* the list that was published last
    inflight,  \* how often each list is published and not yet delivered
    received,  \* the list that was delivered last
    stopped,   \* Done() is closed
    ended      \* UpdateChan() is closed

vars == <<current, inflight, received, stopped, ended>>

Init ==
    /\ current = Empty
    /\ inflight = [l \in Lists |-> 0]
    /\ received = Empty
    /\ stopped = FALSE /\ ended = FALSE

Publish(l) ==
    /\ l # current
    /\ current' = l
    /\ UNCHANGED <<received, stopped, ended>>
    /\ inflight' = [inflight EXCEPT ![l] = @ + 1]

Deliver(l) ==
    /\ received' = l
    /\ UNCHANGED <<current, stopped, ended>>
    /\ inflight[l] > 0
    /\ inflight' = [inflight EXCEPT ![l] = @ - 1]

(* A receive from the closed channel gives the zero value.                 *)
DeliverNil ==
    /\ ended
    /\ received' = Empty
    /\ UNCHANGED <<current, inflight, stopped, ended>>

(* Done() is closed; from then on lists that are under way may be dropped. *)
Stop ==
    /\ stopped' = TRUE
    /\ \E kept \in [Lists -> UNION {0..inflight[l] : l \in Lists}] :
        /\ \A l \in Lists : kept[l] <= inflight[l]
        /\ inflight' = kept
    /\ UNCHANGED <<current, received, ended>>

Close ==
    /\ stopped
    /\ ended' = TRUE
    /\ UNCHANGED <<current, inflight, received, stopped>>

Next == (\E l \in Lists : Publish(l) \/ Deliver(l)) \/ DeliverNil \/ Stop \/ Close

Spec == Init /\ [][Next]_vars
==========================================================================
