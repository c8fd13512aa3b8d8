-------------------------- MODULE AtomicBroadcast --------------------------
(***************************************************************************)
(* The rotating-sequencer atomic broadcast that replicates the customer    *)
(* database: class NodeState of python_customer_db/customer_db_service.py, *)
(* its message thread (process_messages) and the write RPC handlers up to  *)
(* the point where they wait for delivery (_broadcast_write).              *)
(*                                                                         *)
(* Every method of NodeState that a message triggers runs under self.lock  *)
(* on one thread per node, so a whole handler is one action.  A write RPC  *)
(* handler runs on a gRPC thread and takes the lock only in pieces: it is  *)
(* four actions.                                                           *)
(*                                                                         *)
(* A request is its id <<sender_id, local_seq>>; its body is not modelled  *)
(* here.  UDP loses, duplicates and reorders: a packet in flight is an     *)
(* element of the set net, taken in any order.                             *)
(***************************************************************************)
EXTENDS Integers, Sequences, FiniteSets

CONSTANTS
    N,           \* NUM_NODES, 5 in the deployment
    MaxWrites,   \* bound: write RPCs each node serves
    MaxFaults    \* bound: packets lost or duplicated

Node == 0 .. N - 1

ASSUME NAssumption == N \in Nat \ {0}
ASSUME WritesAssumption == MaxWrites \in [Node -> Nat]
ASSUME FaultsAssumption == MaxFaults \in Nat

RequestId == UNION {{s} \X (1 .. MaxWrites[s]) : s \in Node}
SeqNo == Nat \cup {-1}

VARIABLES
    local_counter,          \* [Node -> Nat]
    handler,                \* write RPC handlers: [RequestId -> [pc, md]]
    pending_responses,      \* ids whose handler waits at this node
    all_requests,           \* request messages, in the order of arrival
    pending_requests,       \* ids received and not delivered
    received_service_msgs,  \* service messages, at most one per global_seq
    request_to_seq,         \* ids known to be sequenced (the value is never read)
    last_delivered_seq,
    node_last_delivered,    \* what this node has heard of the others' progress
    next_seq_to_assign,
    delivery_queue,         \* everything put on the delivery queue, in order
    net,                    \* packets in flight
    faults                  \* packets lost or duplicated so far

rpcVars == <<local_counter, handler>>
logVars == <<all_requests, pending_requests, received_service_msgs, request_to_seq>>
progressVars == <<last_delivered_seq, node_last_delivered, next_seq_to_assign, delivery_queue>>
vars == <<rpcVars, pending_responses, logVars, progressVars, net, faults>>

------------------------------------------------------------------------------
(* Messages.  seq_to_request and received_service_msgs are always updated     *)
(* together, as are all_requests and received_from_sender: the first of each  *)
(* pair is read off the second.                                               *)

RequestMessage(id, md) == [type |-> "request", id |-> id, md |-> md]
ServiceMessage(id, gs, sender, md) ==
    [type |-> "service", id |-> id, gs |-> gs, sender |-> sender, md |-> md]
RetransmitRequest(id) == [type |-> "retransmit_request", id |-> id]
RetransmitService(gs) == [type |-> "retransmit_service", gs |-> gs]

RequestMessages == [type : {"request"}, id : RequestId, md : SeqNo]
ServiceMessages ==
    [type : {"service"}, id : RequestId, gs : Nat, sender : Node, md : SeqNo]
RetransmitMessages ==
    [type : {"retransmit_request"}, id : RequestId] \cup [type : {"retransmit_service"}, gs : Nat]
Messages == RequestMessages \cup ServiceMessages \cup RetransmitMessages
Packets == [to : Node, msg : Messages, copy : {0, 1}]

Packet(i, m) == [to |-> i, msg |-> m, copy |-> 0]
\* _broadcast: one datagram per node, the sender included
Broadcast(m) == {Packet(j, m) : j \in Node}

Ids(reqs) == {reqs[x].id : x \in 1 .. Len(reqs)}
GlobalSeqs(svcs) == {m.gs : m \in svcs}
SequencedIds(svcs) == {m.id : m \in svcs}
SeqToRequest(svcs, gs) == (CHOOSE m \in svcs : m.gs = gs).id
Later(a, b) == IF a > b THEN a ELSE b

HandlerPC == {"idle", "numbered", "built", "registered", "sent"}
Delivery == [id : RequestId, pending : BOOLEAN]

TypeOK ==
    /\ local_counter \in [Node -> Nat]
    /\ handler \in [RequestId -> [pc : HandlerPC, md : SeqNo]]
    /\ pending_responses \in [Node -> SUBSET RequestId]
    /\ all_requests \in [Node -> Seq(RequestMessages)]
    /\ pending_requests \in [Node -> SUBSET RequestId]
    /\ received_service_msgs \in [Node -> SUBSET ServiceMessages]
    /\ request_to_seq \in [Node -> SUBSET RequestId]
    /\ last_delivered_seq \in [Node -> SeqNo]
    /\ node_last_delivered \in [Node -> [Node -> SeqNo]]
    /\ next_seq_to_assign \in [Node -> Nat]
    /\ delivery_queue \in [Node -> Seq(Delivery)]
    /\ net \subseteq Packets
    /\ faults \in 0 .. MaxFaults

Init ==
    /\ local_counter = [i \in Node |-> 0]
    /\ handler = [r \in RequestId |-> [pc |-> "idle", md |-> -1]]
    /\ pending_responses = [i \in Node |-> {}]
    /\ all_requests = [i \in Node |-> <<>>]
    /\ pending_requests = [i \in Node |-> {}]
    /\ received_service_msgs = [i \in Node |-> {}]
    /\ request_to_seq = [i \in Node |-> {}]
    /\ last_delivered_seq = [i \in Node |-> -1]
    /\ node_last_delivered = [i \in Node |-> [j \in Node |-> -1]]
    /\ next_seq_to_assign = [i \in Node |-> i]
    /\ delivery_queue = [i \in Node |-> <<>>]
    /\ net = {}
    /\ faults = 0

------------------------------------------------------------------------------
(* Write RPC handlers: one per request id.                                     *)

\* next_local_seq, under the lock; local sequence numbers start at 1
NextLocalSeq(i) ==
    /\ local_counter[i] < MaxWrites[i]
    /\ local_counter' = [local_counter EXCEPT ![i] = @ + 1]
    /\ handler' = [handler EXCEPT ![<<i, local_counter[i] + 1>>] = [pc |-> "numbered", md |-> @.md]]
    /\ UNCHANGED <<pending_responses, logVars, progressVars, net, faults>>

\* mutant: the message reports what its sender has sequenced, not what it has delivered
BuildFromTurn(r) ==
    /\ handler[r].pc = "numbered"
    /\ handler' = [handler EXCEPT ![r] = [pc |-> "built", md |-> next_seq_to_assign[r[1]] - 1]]
    /\ UNCHANGED <<local_counter, pending_responses, logVars, progressVars, net, faults>>

\* the request message is built with last_delivered_seq read outside the lock
BuildRequest(r) ==
    /\ handler[r].pc = "numbered"
    /\ handler' = [handler EXCEPT ![r] = [pc |-> "built", md |-> last_delivered_seq[r[1]]]]
    /\ UNCHANGED <<local_counter, pending_responses, logVars, progressVars, net, faults>>

\* mutant: the key is built from the shared counter instead of the handler's own number
RegisterLatest(r) ==
    /\ handler[r].pc = "built"
    /\ handler' = [handler EXCEPT ![r] = [pc |-> "registered", md |-> @.md]]
    /\ pending_responses' =
          [pending_responses EXCEPT ![r[1]] = @ \cup {<<r[1], local_counter[r[1]]>>}]
    /\ UNCHANGED <<local_counter, logVars, progressVars, net, faults>>

\* register_pending_response, under the lock
RegisterPendingResponse(r) ==
    /\ handler[r].pc = "built"
    /\ handler' = [handler EXCEPT ![r] = [pc |-> "registered", md |-> @.md]]
    /\ pending_responses' = [pending_responses EXCEPT ![r[1]] = @ \cup {r}]
    /\ UNCHANGED <<local_counter, logVars, progressVars, net, faults>>

\* broadcast_request; the handler then waits for its event
BroadcastRequest(r) ==
    /\ handler[r].pc = "registered"
    /\ handler' = [handler EXCEPT ![r] = [pc |-> "sent", md |-> @.md]]
    /\ net' = net \cup Broadcast(RequestMessage(r, handler[r].md))
    /\ UNCHANGED <<local_counter, pending_responses, logVars, progressVars, faults>>

------------------------------------------------------------------------------
(* What both message handlers end with: _try_sequence, then _try_deliver.      *)

\* mutants: a sequencer that does not wait, and one that waits for its own number
NoWait(k, known, svcs) == TRUE
WaitForOwn(k, known, svcs) ==
    \A j \in 0 .. k : \E m \in svcs : m.gs = j /\ m.id \in known

\* every message before k is here, with the request it sequences
PrefixComplete(k, known, svcs) ==
    \A j \in 0 .. k - 1 : \E m \in svcs : m.gs = j /\ m.id \in known

\* mutant: the sender's order is not looked at
AnyOrder(r, sequenced) == TRUE

\* the earlier requests of the same sender are all sequenced
PriorAssigned(r, sequenced) == \A l \in 1 .. r[2] - 1 : <<r[1], l>> \in sequenced

\* _choose_request: the first pending request, in order of arrival, that may
\* be sequenced (a set of at most one)
ChooseRequest(reqs, pending, sequenced) ==
    LET Eligible == {x \in 1 .. Len(reqs) :
                        /\ reqs[x].id \in pending \ sequenced
                        /\ PriorAssigned(reqs[x].id, sequenced)}
    IN  {reqs[x].id : x \in {y \in Eligible : \A z \in Eligible : y <= z}}

\* the requests node i may sequence now
Choices(i, reqs, pending, svcs, sequenced) ==
    IF /\ next_seq_to_assign[i] % N = i
       /\ PrefixComplete(next_seq_to_assign[i], Ids(reqs), svcs)
    THEN ChooseRequest(reqs, pending, sequenced)
    ELSE {}

Majority == N \div 2 + 1
\* mutant: half of the group is enough
HalfConfirmed(gs, heard) == Cardinality({j \in Node : heard[j] >= gs - 1}) >= N \div 2
MajorityConfirmed(gs, heard) == Cardinality({j \in Node : heard[j] >= gs - 1}) >= Majority

\* the conditions of _try_deliver for gs, once gs - 1 is delivered: line 375
\* keeps a node's own entry of node_last_delivered at its last_delivered_seq
Deliverable(i, gs, pending, svcs, heard) ==
    /\ \E m \in svcs : m.gs = gs /\ m.id \in pending
    /\ MajorityConfirmed(gs, [heard EXCEPT ![i] = gs - 1])

\* _try_deliver calls itself until a condition fails: it delivers up to d
TryDeliver(i, pending, svcs, heard) ==
    LET last == last_delivered_seq[i]
    IN  \E d \in last .. last + Cardinality(svcs) :
          /\ \A gs \in last + 1 .. d : Deliverable(i, gs, pending, svcs, heard)
          /\ ~ Deliverable(i, d + 1, pending, svcs, heard)
          /\ LET batch == [x \in 1 .. d - last |-> SeqToRequest(svcs, last + x)]
                 done == {batch[x] : x \in 1 .. d - last}
             IN  /\ pending_requests' = [pending_requests EXCEPT ![i] = pending \ done]
                 /\ pending_responses' = [pending_responses EXCEPT ![i] = @ \ done]
                 /\ delivery_queue' = [delivery_queue EXCEPT ![i] = @ \o
                        [x \in 1 .. d - last |->
                            [id |-> batch[x], pending |-> batch[x] \in pending_responses[i]]]]
          /\ last_delivered_seq' = [last_delivered_seq EXCEPT ![i] = d]
          /\ node_last_delivered' = [node_last_delivered EXCEPT ![i] =
                IF d > last THEN [heard EXCEPT ![i] = d] ELSE heard]

SameTurn(k) == k             \* mutant: next_seq_to_assign is not advanced
\* the sequence number a sequencer takes after k
NextTurn(k) == k + N

\* mutant: the service message counts from one too low
ClaimPrevious(i, k) == last_delivered_seq[i] - 1
\* what the service message for k says of its sender's progress
Claimed(i, k) == last_delivered_seq[i]

\* _try_sequence; _try_deliver.  The service message carries the
\* last_delivered_seq from before the delivery.
TrySequenceAndDeliver(i, reqs, pending, svcs, sequenced, heard, out) ==
    LET k == next_seq_to_assign[i]
        choices == Choices(i, reqs, pending, svcs, sequenced)
    IN  \/ \E r \in choices :
             LET m == ServiceMessage(r, k, i, Claimed(i, k))
             IN  /\ received_service_msgs' = [received_service_msgs EXCEPT ![i] = svcs \cup {m}]
                 /\ request_to_seq' = [request_to_seq EXCEPT ![i] = sequenced \cup {r}]
                 /\ next_seq_to_assign' = [next_seq_to_assign EXCEPT ![i] = NextTurn(k)]
                 /\ net' = out \cup Broadcast(m)
                 /\ TryDeliver(i, pending, svcs \cup {m}, heard)
        \/ /\ choices = {}
           /\ received_service_msgs' = [received_service_msgs EXCEPT ![i] = svcs]
           /\ request_to_seq' = [request_to_seq EXCEPT ![i] = sequenced]
           /\ net' = out
           /\ TryDeliver(i, pending, svcs, heard)
           /\ UNCHANGED next_seq_to_assign

------------------------------------------------------------------------------
(* Message handlers, run by process_messages on one packet.                    *)

Ignore(p) ==
    /\ net' = net \ {p}
    /\ UNCHANGED <<rpcVars, pending_responses, logVars, progressVars, faults>>

\* _detect_missing_requests: a gap below a sender's local sequence number
MissingRequests(r, known, sequenced) ==
    {Packet(r[1], RetransmitRequest(<<r[1], l>>)) :
        l \in {l \in 1 .. r[2] - 1 : <<r[1], l>> \notin known \cup sequenced}}

NoBackFill(i, r) == request_to_seq[i]    \* mutant: the back-fill is forgotten
\* a service message may already have named the request (the back-fill)
BackFilled(i, r) ==
    IF r \in SequencedIds(received_service_msgs[i])
    THEN request_to_seq[i] \cup {r} ELSE request_to_seq[i]

OnRequestMessage(p) ==
    LET i == p.to
        m == p.msg
        reqs == Append(all_requests[i], m)
        sequenced == BackFilled(i, m.id)
        heard == [node_last_delivered[i] EXCEPT ![m.id[1]] = Later(@, m.md)]
        nacks == MissingRequests(m.id, Ids(reqs), sequenced)
    IN  /\ m.type = "request"
        /\ \/ m.id \in Ids(all_requests[i]) /\ Ignore(p)
           \/ /\ m.id \notin Ids(all_requests[i])
              /\ all_requests' = [all_requests EXCEPT ![i] = reqs]
              /\ TrySequenceAndDeliver(i, reqs, pending_requests[i] \cup {m.id},
                     received_service_msgs[i], sequenced, heard, (net \ {p}) \cup nacks)
              /\ UNCHANGED <<rpcVars, faults>>

\* mutant: the node asks itself
AskSelf(i, gs, svcs) ==
    {Packet(i, RetransmitService(g)) :
        g \in {g \in last_delivered_seq[i] + 1 .. gs - 1 : g \notin GlobalSeqs(svcs)}}

\* _detect_missing_seqs: a gap below a global sequence number, asked of the
\* node whose turn it was
MissingSeqs(i, gs, svcs) ==
    {Packet(g % N, RetransmitService(g)) :
        g \in {g \in last_delivered_seq[i] + 1 .. gs - 1 : g \notin GlobalSeqs(svcs)}}

CreditSource(m) == m.id[1]      \* mutant: it is credited to the request's sender
\* whose progress the metadata of a service message reports
Reporter(m) == m.sender

OnServiceMessage(p) ==
    LET i == p.to
        m == p.msg
        svcs == received_service_msgs[i] \cup {m}
        sequenced == IF m.id \in Ids(all_requests[i])
                     THEN request_to_seq[i] \cup {m.id} ELSE request_to_seq[i]
        heard == [node_last_delivered[i] EXCEPT ![Reporter(m)] = Later(@, m.md)]
        nacks == MissingSeqs(i, m.gs, svcs)
    IN  /\ m.type = "service"
        /\ \/ m.gs \in GlobalSeqs(received_service_msgs[i]) /\ Ignore(p)
           \/ /\ m.gs \notin GlobalSeqs(received_service_msgs[i])
              /\ TrySequenceAndDeliver(i, all_requests[i], pending_requests[i],
                     svcs, sequenced, heard, (net \ {p}) \cup nacks)
              /\ UNCHANGED <<rpcVars, all_requests, faults>>

\* the stored message goes out again, to every node
Resend(p, found) ==
    /\ net' = (net \ {p}) \cup UNION {Broadcast(m) : m \in found}
    /\ UNCHANGED <<rpcVars, pending_responses, logVars, progressVars, faults>>

OnRetransmitRequest(p) ==
    /\ p.msg.type = "retransmit_request"
    /\ Resend(p, {all_requests[p.to][x] : x \in
                    {x \in 1 .. Len(all_requests[p.to]) : all_requests[p.to][x].id = p.msg.id}})

OnRetransmitSeq(p) ==
    /\ p.msg.type = "retransmit_service"
    /\ Resend(p, {m \in received_service_msgs[p.to] : m.gs = p.msg.gs})

Receive(p) ==
    \/ OnRequestMessage(p)
    \/ OnServiceMessage(p)
    \/ OnRetransmitRequest(p)
    \/ OnRetransmitSeq(p)

------------------------------------------------------------------------------
(* UDP: reordering is the free choice of the packet to receive.                *)

Lose(p) ==
    /\ faults < MaxFaults
    /\ faults' = faults + 1
    /\ net' = net \ {p}
    /\ UNCHANGED <<rpcVars, pending_responses, logVars, progressVars>>

Duplicate(p) ==
    /\ faults < MaxFaults
    /\ faults' = faults + 1
    /\ net' = net \cup {[to |-> p.to, msg |-> p.msg, copy |-> 1]}
    /\ UNCHANGED <<rpcVars, pending_responses, logVars, progressVars>>

------------------------------------------------------------------------------
HandlerStep(r) == BuildRequest(r) \/ RegisterPendingResponse(r) \/ BroadcastRequest(r)
ReceiveAt(i) == \E p \in net : p.to = i /\ Receive(p)

Next ==
    \/ \E i \in Node : NextLocalSeq(i)
    \/ \E r \in RequestId : HandlerStep(r)
    \/ \E i \in Node : ReceiveAt(i)
    \/ \E p \in net : Lose(p) \/ Duplicate(p)

Spec == Init /\ [][Next]_vars

\* gRPC threads and the message thread of every node keep running; that a
\* client sends another write is not assumed
Fairness ==
    /\ \A r \in RequestId : WF_vars(HandlerStep(r))
    /\ \A i \in Node : WF_vars(ReceiveAt(i))

FairSpec == Spec /\ Fairness

------------------------------------------------------------------------------
(* Safety.                                                                     *)

AllServiceMsgs == UNION {received_service_msgs[i] : i \in Node}

\* No global sequence number is ever given to two requests, whichever nodes
\* saw it: the rotation of _try_sequence leaves each number to one node, once.
OneRequestPerSeq ==
    \A m1, m2 \in AllServiceMsgs : m1.gs = m2.gs => m1.id = m2.id

\* No request is ever given two global sequence numbers, although request_to_seq
\* is filled in only once both of a node's messages about it have arrived.
OneSeqPerRequest ==
    \A m1, m2 \in AllServiceMsgs : m1.id = m2.id => m1.gs = m2.gs

\* Global sequence numbers are handed out without a gap: k is never assigned
\* before some number below it (the waits at the head of _try_sequence).
NoSkippedSeq ==
    \A m \in AllServiceMsgs : 0 .. m.gs - 1 \subseteq GlobalSeqs(AllServiceMsgs)

\* The requests of one sender are sequenced in the order it numbered them,
\* however UDP reordered them (prior_all_assigned in _choose_request).
SenderOrderKept ==
    \A m \in AllServiceMsgs : \A l \in 1 .. m.id[2] - 1 :
        \E q \in AllServiceMsgs : q.id = <<m.id[1], l>> /\ q.gs < m.gs

\* Any two nodes hand the executor the same requests in the same order, up to
\* where the slower one is, each request once, and last_delivered_seq says how
\* many (_try_deliver).
SameDeliveryOrder ==
    \A i, j \in Node :
        /\ Len(delivery_queue[i]) = last_delivered_seq[i] + 1
        /\ \A x \in 1 .. Len(delivery_queue[i]) : \A y \in 1 .. Len(delivery_queue[j]) :
              (x = y) <=> (delivery_queue[i][x].id = delivery_queue[j][y].id)

\* node_last_delivered is never ahead of the node it speaks of, although the
\* metadata it is fed with was read outside the lock, waited in a handler or was
\* resent long after; a node's own entry is exact.
HeardIsTrue ==
    \A i, j \in Node :
        /\ node_last_delivered[i][j] <= last_delivered_seq[j]
        /\ node_last_delivered[i][i] = last_delivered_seq[i]

\* What _majority_confirmed really guarantees: a node that delivered s is at
\* most one ahead of a majority of the group.
MajorityOneBehind ==
    \A i \in Node :
        last_delivered_seq[i] >= 0 =>
            Cardinality({j \in Node : last_delivered_seq[j] >= last_delivered_seq[i] - 1})
                >= Majority

\* The node that serves a write finds the waiting handler when it delivers the
\* write, and no other node does: from its registration to its delivery the
\* event stays in pending_responses (_broadcast_write registers, then sends).
WaiterFound ==
    /\ \A i \in Node : \A x \in 1 .. Len(delivery_queue[i]) :
          delivery_queue[i][x].pending = (delivery_queue[i][x].id[1] = i)
    /\ \A r \in RequestId :
          handler[r].pc = "sent" =>
              \/ r \in pending_responses[r[1]]
              \/ \E x \in 1 .. Len(delivery_queue[r[1]]) : delivery_queue[r[1]][x].id = r

------------------------------------------------------------------------------
(* Refinement: the broadcast implements one total order.                       *)

OrderedCount == Cardinality(GlobalSeqs(AllServiceMsgs))

TO == INSTANCE TotalOrder WITH
        Request   <- RequestId,
        Before    <- {b \in RequestId \X RequestId : b[1][1] = b[2][1] /\ b[1][2] < b[2][2]},
        submitted <- {r \in RequestId : handler[r].pc = "sent"},
        order     <- [x \in 1 .. OrderedCount |-> SeqToRequest(AllServiceMsgs, x - 1)],
        delivered <- [i \in Node |-> [x \in 1 .. Len(delivery_queue[i]) |-> delivery_queue[i][x].id]]

\* Every run of the broadcast is a run of TotalOrder: the order that the service
\* messages spell out only grows at its end, and every node delivers prefixes
\* of it, through loss, duplication and reordering.
ImplementsTotalOrder == TO!Spec

------------------------------------------------------------------------------
(* Liveness, under FairSpec.                                                   *)

NoFaults == faults = 0
NoMoreFaults == faults = MaxFaults

\* With no packet lost or duplicated, every write that is broadcast is sequenced and every
\* node learns its number: the sequencers never wait for each other in a circle.
WritesGetSequenced ==
    []NoFaults =>
        \A r \in RequestId : handler[r].pc = "sent" ~>
            \A i \in Node : r \in SequencedIds(received_service_msgs[i]) /\ r \in Ids(all_requests[i])

\* A retransmit request for a service message is always answered: once no
\* packet is lost any more, every node gets the missing message
\* (on_retransmit_seq at the node that sequenced it).
MissingSeqRepaired ==
    \A g \in 0 .. Cardinality(RequestId) - 1 :
        (NoMoreFaults /\ \E p \in net : p.msg = RetransmitService(g)) ~>
            \A i \in Node : g \in GlobalSeqs(received_service_msgs[i])

------------------------------------------------------------------------------
(* Statements of PA3.md that the code does not keep.                            *)

\* PA3.md, delivery condition 2: a node delivers s only when a majority has
\* received all Request and Sequence messages up to s.
MajorityReceived ==
    \A i \in Node : \A gs \in 0 .. last_delivered_seq[i] :
        Cardinality({j \in Node : PrefixComplete(gs + 1, Ids(all_requests[j]), received_service_msgs[j])})
            >= Majority

\* PA3.md: all replicas deliver the requests in global sequence order.  Here:
\* every write is delivered at the node that serves it, if nothing is lost.
WritesGetDelivered ==
    []NoFaults =>
        \A r \in RequestId : handler[r].pc = "sent" ~>
            \E x \in 1 .. Len(delivery_queue[r[1]]) : delivery_queue[r[1]][x].id = r

\* PA3.md: negative acknowledgements recover from message losses.  Here: once
\* no packet is lost any more, a request asked for again reaches every node.
MissingRequestRepaired ==
    \A r \in RequestId :
        (NoMoreFaults /\ \E p \in net : p.msg = RetransmitRequest(r)) ~>
            \A i \in Node : r \in Ids(all_requests[i])

==============================================================================
