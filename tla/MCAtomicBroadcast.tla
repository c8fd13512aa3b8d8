------------------------- MODULE MCAtomicBroadcast -------------------------
(***************************************************************************)
(* Instances of AtomicBroadcast for TLC, and a reduced next-state relation *)
(* for the larger ones.                                                    *)
(***************************************************************************)
EXTENDS AtomicBroadcast

\* write RPCs served by nodes 0, 1, ...
PerNode(counts) == [i \in Node |-> IF i < Len(counts) THEN counts[i + 1] ELSE 0]
TwoAndOne == PerNode(<<2, 1>>)
Two == PerNode(<<2>>)
OneEach == PerNode(<<1, 1>>)

\* Two kinds of step commute with every other step of the system and are
\* taken first, alone.  A packet whose request or service message its receiver
\* already has is dropped by the receiver now or later.  A registration touches
\* only the entry of a request that nobody has received yet.  No property
\* below looks at what these steps change before the next step does.
Dropped(p) ==
    \/ p.msg.type = "request" /\ p.msg.id \in Ids(all_requests[p.to])
    \/ p.msg.type = "service" /\ p.msg.gs \in GlobalSeqs(received_service_msgs[p.to])
ToDrop == {p \in net : Dropped(p)}
ToRegister == {r \in RequestId : handler[r].pc = "built"}

ReducedNext ==
    IF ToDrop # {} THEN Receive(CHOOSE p \in ToDrop : TRUE)
    ELSE IF ToRegister # {} THEN RegisterPendingResponse(CHOOSE r \in ToRegister : TRUE)
    ELSE Next


\* two writes may be served at a time, one more when nothing is in flight
MaxAtOnce == 2
Served == {r \in RequestId : handler[r].pc # "idle"}
Quiet == net = {} /\ \A r \in Served : handler[r].pc = "sent"
SmallNext ==
    /\ ReducedNext
    /\ Cardinality(Served') > Cardinality(Served) => Cardinality(Served) < MaxAtOnce \/ Quiet
FairSmallSpec == Init /\ [][SmallNext]_vars /\ Fairness
==============================================================================
