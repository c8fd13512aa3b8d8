----------------------------- MODULE TotalOrder -----------------------------
(***************************************************************************)
(* What the atomic broadcast promises: one global order that only grows at *)
(* its end, in which every request stands at most once and the requests of *)
(* one sender stand in the order it numbered them; every node delivers a   *)
(* prefix of it.                                                           *)
(***************************************************************************)
EXTENDS Integers, Sequences

CONSTANTS
    Node,
    Request,
    Before      \* pairs <<q, r>>: q was numbered before r by the same sender

VARIABLES
    submitted,  \* requests handed to the group
    order,      \* the global order
    delivered   \* [Node -> what the node has handed to the application]

tvars == <<submitted, order, delivered>>

Ordered == {order[x] : x \in 1 .. Len(order)}

Init ==
    /\ submitted = {}
    /\ order = <<>>
    /\ delivered = [i \in Node |-> <<>>]

Submit ==
    /\ \E r \in Request \ submitted : submitted' = submitted \cup {r}
    /\ UNCHANGED <<order, delivered>>

\* a request enters the order after the earlier ones of its sender
Extend ==
    \/ UNCHANGED order
    \/ \E r \in submitted \ Ordered :
          /\ \A q \in Request : <<q, r>> \in Before => q \in Ordered
          /\ order' = Append(order, r)

\* one node may order a request and deliver everything it can in one step
Progress(i) ==
    /\ Extend
    /\ \E d \in Len(delivered[i]) .. Len(order') :
          delivered' = [delivered EXCEPT ![i] = SubSeq(order', 1, d)]
    /\ UNCHANGED submitted

Next == Submit \/ \E i \in Node : Progress(i)

Spec == Init /\ [][Next]_tvars
==============================================================================
