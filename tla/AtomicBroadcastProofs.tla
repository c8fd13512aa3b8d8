----------------------- MODULE AtomicBroadcastProofs -----------------------
(***************************************************************************)
(* Type correctness of AtomicBroadcast, with the facts about its operators *)
(* that every later proof uses, and the ordering half of the broadcast:    *)
(* the global order is one sequence, without gaps, without repetitions and *)
(* true to each sender's numbering.                                        *)
(*                                                                         *)
(* A message handler changes the logs in two phases: it takes the message  *)
(* in, then _try_sequence may assign a number.  The ordering invariant is  *)
(* therefore an operator of the logs, so that it can be stated of the      *)
(* values between the two phases, which are no state of the system:        *)
(*   S  received_service_msgs      Q  request_to_seq                       *)
(*   K  ids in all_requests        P  pending_requests                     *)
(*   T  next_seq_to_assign         M  service messages in flight           *)
(***************************************************************************)
EXTENDS AtomicBroadcast, TLAPS

------------------------------------------------------------------------------
(* Types.                                                                     *)

LEMMA IdsAppend ==
    ASSUME NEW s \in Seq(RequestMessages), NEW m \in RequestMessages
    PROVE  /\ Append(s, m) \in Seq(RequestMessages)
           /\ Ids(Append(s, m)) = Ids(s) \cup {m.id}
           /\ Ids(s) \subseteq RequestId
<1>1. Append(s, m) \in Seq(RequestMessages)
  OBVIOUS
<1>2. \A x \in 1 .. Len(s) : s[x] \in RequestMessages /\ Append(s, m)[x] = s[x]
  OBVIOUS
<1>3. Append(s, m)[Len(s) + 1] = m /\ Len(Append(s, m)) = Len(s) + 1 /\ Len(s) \in Nat
  OBVIOUS
<1>4. 1 .. Len(Append(s, m)) = (1 .. Len(s)) \cup {Len(s) + 1}
  BY <1>3
<1>5. Ids(Append(s, m)) = Ids(s) \cup {m.id}
  BY <1>2, <1>3, <1>4 DEF Ids
<1>6. Ids(s) \subseteq RequestId
  BY <1>2 DEF Ids, RequestMessages
<1> QED BY <1>1, <1>5, <1>6

LEMMA ChoiceFacts ==
    ASSUME NEW reqs \in Seq(RequestMessages), NEW i, NEW pending, NEW svcs, NEW sequenced,
           NEW r \in Choices(i, reqs, pending, svcs, sequenced)
    PROVE  /\ next_seq_to_assign[i] % N = i
           /\ PrefixComplete(next_seq_to_assign[i], Ids(reqs), svcs)
           /\ r \in pending \ sequenced
           /\ r \in RequestId
           /\ PriorAssigned(r, sequenced)
<1>1. PICK x \in 1 .. Len(reqs) :
         /\ r = reqs[x].id
         /\ reqs[x].id \in pending \ sequenced
         /\ PriorAssigned(reqs[x].id, sequenced)
  BY DEF Choices, ChooseRequest
<1>2. reqs[x] \in RequestMessages
  OBVIOUS
<1> QED BY <1>1, <1>2 DEF Choices, RequestMessages

LEMMA SeqToRequestFacts ==
    ASSUME NEW svcs \in SUBSET ServiceMessages, NEW gs, NEW m \in svcs, m.gs = gs
    PROVE  /\ SeqToRequest(svcs, gs) \in RequestId
           /\ \E q \in svcs : q.gs = gs /\ q.id = SeqToRequest(svcs, gs)
BY DEF SeqToRequest, ServiceMessages

(***************************************************************************)
(* Type correctness.                                                       *)
(***************************************************************************)
LEMMA InitType == Init => TypeOK
BY NAssumption, FaultsAssumption DEF Init, TypeOK, Node, HandlerPC, SeqNo

LEMMA TryDeliverType ==
    ASSUME TypeOK, NEW i \in Node, NEW pending \in SUBSET RequestId,
           NEW svcs \in SUBSET ServiceMessages, NEW heard \in [Node -> SeqNo],
           TryDeliver(i, pending, svcs, heard)
    PROVE  /\ pending_requests' \in [Node -> SUBSET RequestId]
           /\ pending_responses' \in [Node -> SUBSET RequestId]
           /\ delivery_queue' \in [Node -> Seq(Delivery)]
           /\ last_delivered_seq' \in [Node -> SeqNo]
           /\ node_last_delivered' \in [Node -> [Node -> SeqNo]]
<1> DEFINE last == last_delivered_seq[i]
           batch(d) == [x \in 1 .. d - last |-> SeqToRequest(svcs, last + x)]
           done(d) == {batch(d)[x] : x \in 1 .. d - last}
           news(d) == [x \in 1 .. d - last |->
                        [id |-> batch(d)[x], pending |-> batch(d)[x] \in pending_responses[i]]]
<1>1. last \in SeqNo
  BY DEF TypeOK
<1>2. PICK d \in last .. last + Cardinality(svcs) :
         /\ \A gs \in last + 1 .. d : Deliverable(i, gs, pending, svcs, heard)
         /\ pending_requests' = [pending_requests EXCEPT ![i] = pending \ done(d)]
         /\ pending_responses' = [pending_responses EXCEPT ![i] = @ \ done(d)]
         /\ delivery_queue' = [delivery_queue EXCEPT ![i] = @ \o news(d)]
         /\ last_delivered_seq' = [last_delivered_seq EXCEPT ![i] = d]
         /\ node_last_delivered' = [node_last_delivered EXCEPT ![i] =
                IF d > last THEN [heard EXCEPT ![i] = d] ELSE heard]
  BY DEF TryDeliver
<1>3. d \in SeqNo /\ d >= last /\ d - last \in Nat
  BY <1>1 DEF SeqNo
<1>4. \A x \in 1 .. d - last : SeqToRequest(svcs, last + x) \in RequestId
  <2> SUFFICES ASSUME NEW x \in 1 .. d - last PROVE SeqToRequest(svcs, last + x) \in RequestId
    OBVIOUS
  <2>1. last + x \in last + 1 .. d
    BY <1>1, <1>3 DEF SeqNo
  <2>2. PICK m \in svcs : m.gs = last + x
    BY <1>2, <2>1 DEF Deliverable
  <2> QED BY <2>2, SeqToRequestFacts
<1>5. news(d) \in Seq(Delivery)
  <2> DEFINE n == d - last
             item(x) == [id |-> SeqToRequest(svcs, last + x),
                         pending |-> SeqToRequest(svcs, last + x) \in pending_responses[i]]
  <2>1. \A x \in 1 .. n : item(x) \in Delivery
    BY <1>4 DEF Delivery
  <2>2. n \in Nat
    BY <1>3
  <2>3. news(d) = [x \in 1 .. n |-> item(x)]
    OBVIOUS
  <2> HIDE DEF n, item, news
  <2> QED BY <2>1, <2>2, <2>3
<1>6. delivery_queue' \in [Node -> Seq(Delivery)]
  BY <1>2, <1>5 DEF TypeOK
<1>7. node_last_delivered' \in [Node -> [Node -> SeqNo]]
  BY <1>2, <1>3 DEF TypeOK
<1> QED BY <1>2, <1>3, <1>6, <1>7 DEF TypeOK

LEMMA BroadcastType ==
    ASSUME NEW m \in Messages
    PROVE  Broadcast(m) \subseteq Packets
BY DEF Broadcast, Packet, Packets

LEMMA SettleType ==
    ASSUME TypeOK, NEW i \in Node, NEW reqs \in Seq(RequestMessages),
           NEW pending \in SUBSET RequestId, NEW svcs \in SUBSET ServiceMessages,
           NEW sequenced \in SUBSET RequestId, NEW heard \in [Node -> SeqNo],
           NEW out \in SUBSET Packets,
           TrySequenceAndDeliver(i, reqs, pending, svcs, sequenced, heard, out)
    PROVE  /\ pending_requests' \in [Node -> SUBSET RequestId]
           /\ pending_responses' \in [Node -> SUBSET RequestId]
           /\ delivery_queue' \in [Node -> Seq(Delivery)]
           /\ last_delivered_seq' \in [Node -> SeqNo]
           /\ node_last_delivered' \in [Node -> [Node -> SeqNo]]
           /\ received_service_msgs' \in [Node -> SUBSET ServiceMessages]
           /\ request_to_seq' \in [Node -> SUBSET RequestId]
           /\ next_seq_to_assign' \in [Node -> Nat]
           /\ net' \subseteq Packets
<1> DEFINE k == next_seq_to_assign[i]
<1> USE NAssumption
<1>1. CASE \E r \in Choices(i, reqs, pending, svcs, sequenced) :
             LET m == ServiceMessage(r, k, i, Claimed(i, k))
             IN  /\ received_service_msgs' = [received_service_msgs EXCEPT ![i] = svcs \cup {m}]
                 /\ request_to_seq' = [request_to_seq EXCEPT ![i] = sequenced \cup {r}]
                 /\ next_seq_to_assign' = [next_seq_to_assign EXCEPT ![i] = NextTurn(k)]
                 /\ net' = out \cup Broadcast(m)
                 /\ TryDeliver(i, pending, svcs \cup {m}, heard)
  <2>1. PICK r \in Choices(i, reqs, pending, svcs, sequenced) :
             LET m == ServiceMessage(r, k, i, Claimed(i, k))
             IN  /\ received_service_msgs' = [received_service_msgs EXCEPT ![i] = svcs \cup {m}]
                 /\ request_to_seq' = [request_to_seq EXCEPT ![i] = sequenced \cup {r}]
                 /\ next_seq_to_assign' = [next_seq_to_assign EXCEPT ![i] = NextTurn(k)]
                 /\ net' = out \cup Broadcast(m)
                 /\ TryDeliver(i, pending, svcs \cup {m}, heard)
    BY <1>1
  <2> DEFINE m == ServiceMessage(r, k, i, Claimed(i, k))
  <2>2. r \in RequestId
    BY ChoiceFacts
  <2>3. m \in ServiceMessages
    BY <2>2 DEF ServiceMessage, ServiceMessages, Claimed, TypeOK
  <2>4. Broadcast(m) \subseteq Packets
    BY <2>3, BroadcastType DEF Messages
  <2>5. svcs \cup {m} \in SUBSET ServiceMessages
    BY <2>3
  <2>6. TryDeliver(i, pending, svcs \cup {m}, heard)
    BY <2>1
  <2> HIDE DEF m
  <2>7. /\ pending_requests' \in [Node -> SUBSET RequestId]
        /\ pending_responses' \in [Node -> SUBSET RequestId]
        /\ delivery_queue' \in [Node -> Seq(Delivery)]
        /\ last_delivered_seq' \in [Node -> SeqNo]
        /\ node_last_delivered' \in [Node -> [Node -> SeqNo]]
    BY <2>5, <2>6, TryDeliverType
  <2>8. /\ received_service_msgs' \in [Node -> SUBSET ServiceMessages]
        /\ request_to_seq' \in [Node -> SUBSET RequestId]
        /\ net' \subseteq Packets
    BY <2>1, <2>2, <2>4, <2>5 DEF TypeOK, m
  <2>9. next_seq_to_assign' \in [Node -> Nat]
    BY <2>1 DEF TypeOK, NextTurn
  <2> QED BY <2>7, <2>8, <2>9
<1>2. CASE /\ received_service_msgs' = [received_service_msgs EXCEPT ![i] = svcs]
           /\ request_to_seq' = [request_to_seq EXCEPT ![i] = sequenced]
           /\ net' = out
           /\ TryDeliver(i, pending, svcs, heard)
           /\ UNCHANGED next_seq_to_assign
  <2>1. /\ pending_requests' \in [Node -> SUBSET RequestId]
        /\ pending_responses' \in [Node -> SUBSET RequestId]
        /\ delivery_queue' \in [Node -> Seq(Delivery)]
        /\ last_delivered_seq' \in [Node -> SeqNo]
        /\ node_last_delivered' \in [Node -> [Node -> SeqNo]]
    BY <1>2, TryDeliverType
  <2> QED BY <1>2, <2>1 DEF TypeOK
<1> QED BY <1>1, <1>2 DEF TrySequenceAndDeliver

LEMMA HandlerTypes ==
    ASSUME TypeOK
    PROVE  /\ \A i \in Node : i \in Nat /\ MaxWrites[i] \in Nat
           /\ \A r \in RequestId : r[1] \in Node /\ r[2] \in Nat /\ r = <<r[1], r[2]>>
           /\ \A p \in net : p.to \in Node /\ p.msg \in Messages
           /\ \A m \in RequestMessages : m.id \in RequestId /\ m.md \in SeqNo
           /\ \A m \in ServiceMessages : m.id \in RequestId /\ m.gs \in Nat
                                         /\ m.sender \in Node /\ m.md \in SeqNo
           /\ \A m \in Messages : m.type = "request" => m \in RequestMessages
           /\ \A m \in Messages : m.type = "service" => m \in ServiceMessages
<1>1. \A i \in Node : i \in Nat /\ MaxWrites[i] \in Nat
  BY NAssumption, WritesAssumption DEF Node
<1>2. \A r \in RequestId : r[1] \in Node /\ r[2] \in Nat /\ r = <<r[1], r[2]>>
  BY <1>1 DEF RequestId
<1>3. \A p \in net : p.to \in Node /\ p.msg \in Messages
  BY DEF TypeOK, Packets
<1> QED BY <1>1, <1>2, <1>3
        DEF Messages, RequestMessages, ServiceMessages, RetransmitMessages

LEMMA LaterType == \A a, b \in SeqNo : Later(a, b) \in SeqNo /\ Later(a, b) \in {a, b}
BY DEF Later

LEMMA HeardType ==
    ASSUME NEW h \in [Node -> SeqNo], NEW j \in Node, NEW md \in SeqNo
    PROVE  [h EXCEPT ![j] = Later(@, md)] \in [Node -> SeqNo]
BY LaterType

LEMMA RequestIdParts ==
    \A r \in RequestId : /\ r[1] \in Node
                          /\ r[2] \in 1 .. MaxWrites[r[1]]
                          /\ r = <<r[1], r[2]>>
                          /\ \A l \in 1 .. r[2] - 1 : <<r[1], l>> \in RequestId
<1>1. \A i \in Node : MaxWrites[i] \in Nat
  BY WritesAssumption
<1> QED BY <1>1 DEF RequestId

LEMMA MissingRequestsType ==
    ASSUME NEW r \in RequestId, NEW known, NEW sequenced
    PROVE  MissingRequests(r, known, sequenced) \subseteq Packets
<1>1. \A l \in 1 .. r[2] - 1 : Packet(r[1], RetransmitRequest(<<r[1], l>>)) \in Packets
  BY RequestIdParts
     DEF Packets, Packet, Messages, RetransmitMessages, RetransmitRequest
<1> QED BY <1>1 DEF MissingRequests

LEMMA RequestMessageType ==
    ASSUME TypeOK, NEW p \in net, OnRequestMessage(p)
    PROVE  TypeOK'
<1> DEFINE i == p.to
           m == p.msg
           reqs == Append(all_requests[i], m)
           pending == pending_requests[i] \cup {m.id}
           sequenced == BackFilled(i, m.id)
           heard == [node_last_delivered[i] EXCEPT ![m.id[1]] = Later(@, m.md)]
           nacks == MissingRequests(m.id, Ids(reqs), sequenced)
           out == (net \ {p}) \cup nacks
<1>1. i \in Node /\ m \in RequestMessages /\ m.id \in RequestId /\ m.md \in SeqNo
  BY HandlerTypes DEF OnRequestMessage
<1>2. CASE Ignore(p)
  BY <1>2 DEF Ignore, TypeOK, rpcVars, logVars, progressVars
<1>3. CASE /\ all_requests' = [all_requests EXCEPT ![i] = reqs]
           /\ TrySequenceAndDeliver(i, reqs, pending, received_service_msgs[i],
                                    sequenced, heard, out)
           /\ UNCHANGED <<rpcVars, faults>>
  <2>1. reqs \in Seq(RequestMessages) /\ pending \in SUBSET RequestId
    BY <1>1, IdsAppend DEF TypeOK
  <2>2. sequenced \in SUBSET RequestId
    BY <1>1 DEF BackFilled, TypeOK
  <2>3. heard \in [Node -> SeqNo]
    BY <1>1, HeardType, RequestIdParts DEF TypeOK
  <2>4. nacks \subseteq Packets
    BY <1>1, MissingRequestsType
  <2>5. out \in SUBSET Packets
    BY <2>4 DEF TypeOK
  <2>6. received_service_msgs[i] \in SUBSET ServiceMessages
    BY <1>1 DEF TypeOK
  <2> HIDE DEF reqs, pending, sequenced, heard, out
  <2>7. all_requests' \in [Node -> Seq(RequestMessages)]
    BY <1>1, <1>3, <2>1 DEF TypeOK
  <2>8. UNCHANGED <<rpcVars, faults>>
    BY <1>3
  <2>9. /\ pending_requests' \in [Node -> SUBSET RequestId]
        /\ pending_responses' \in [Node -> SUBSET RequestId]
        /\ delivery_queue' \in [Node -> Seq(Delivery)]
        /\ last_delivered_seq' \in [Node -> SeqNo]
        /\ node_last_delivered' \in [Node -> [Node -> SeqNo]]
        /\ received_service_msgs' \in [Node -> SUBSET ServiceMessages]
        /\ request_to_seq' \in [Node -> SUBSET RequestId]
        /\ next_seq_to_assign' \in [Node -> Nat]
        /\ net' \subseteq Packets
    BY <1>1, <1>3, <2>1, <2>2, <2>3, <2>5, <2>6, SettleType
  <2> QED BY <2>7, <2>8, <2>9 DEF TypeOK, rpcVars
<1> QED BY <1>2, <1>3 DEF OnRequestMessage

LEMMA ServiceMessageType ==
    ASSUME TypeOK, NEW p \in net, OnServiceMessage(p)
    PROVE  TypeOK'
<1> DEFINE i == p.to
           m == p.msg
           svcs == received_service_msgs[i] \cup {m}
           sequenced == IF m.id \in Ids(all_requests[i])
                        THEN request_to_seq[i] \cup {m.id} ELSE request_to_seq[i]
           heard == [node_last_delivered[i] EXCEPT ![Reporter(m)] = Later(@, m.md)]
           nacks == MissingSeqs(i, m.gs, svcs)
           out == (net \ {p}) \cup nacks
<1>1. i \in Node /\ m \in ServiceMessages /\ m.id \in RequestId /\ m.md \in SeqNo
      /\ m.sender \in Node /\ m.gs \in Nat
  BY HandlerTypes DEF OnServiceMessage
<1>2. CASE Ignore(p)
  BY <1>2 DEF Ignore, TypeOK, rpcVars, logVars, progressVars
<1>3. CASE /\ TrySequenceAndDeliver(i, all_requests[i], pending_requests[i], svcs,
                                    sequenced, heard, out)
           /\ UNCHANGED <<rpcVars, all_requests, faults>>
  <2>1. all_requests[i] \in Seq(RequestMessages) /\ pending_requests[i] \in SUBSET RequestId
    BY <1>1 DEF TypeOK
  <2>2. sequenced \in SUBSET RequestId
    BY <1>1 DEF TypeOK
  <2>3. heard \in [Node -> SeqNo]
    BY <1>1, HeardType DEF TypeOK, Reporter
  <2>4. nacks \subseteq Packets
    <3>1. last_delivered_seq[i] \in SeqNo
      BY <1>1 DEF TypeOK
    <3>2. \A g \in last_delivered_seq[i] + 1 .. m.gs - 1 : g \in Nat /\ g % N \in Node
      BY <1>1, <3>1, NAssumption DEF SeqNo, Node
    <3> QED BY <3>2
            DEF MissingSeqs, Packets, Packet, Messages, RetransmitMessages, RetransmitService
  <2>5. out \in SUBSET Packets
    BY <2>4 DEF TypeOK
  <2>6. svcs \in SUBSET ServiceMessages
    BY <1>1 DEF TypeOK
  <2> HIDE DEF svcs, sequenced, heard, out
  <2>8. UNCHANGED <<rpcVars, all_requests, faults>>
    BY <1>3
  <2>9. /\ pending_requests' \in [Node -> SUBSET RequestId]
        /\ pending_responses' \in [Node -> SUBSET RequestId]
        /\ delivery_queue' \in [Node -> Seq(Delivery)]
        /\ last_delivered_seq' \in [Node -> SeqNo]
        /\ node_last_delivered' \in [Node -> [Node -> SeqNo]]
        /\ received_service_msgs' \in [Node -> SUBSET ServiceMessages]
        /\ request_to_seq' \in [Node -> SUBSET RequestId]
        /\ next_seq_to_assign' \in [Node -> Nat]
        /\ net' \subseteq Packets
    BY <1>1, <1>3, <2>1, <2>2, <2>3, <2>5, <2>6, SettleType
  <2> QED BY <2>8, <2>9 DEF TypeOK, rpcVars
<1> QED BY <1>2, <1>3 DEF OnServiceMessage

LEMMA ResendType ==
    ASSUME TypeOK, NEW p \in net, NEW found \in SUBSET Messages, Resend(p, found)
    PROVE  TypeOK'
<1>1. UNION {Broadcast(m) : m \in found} \subseteq Packets
  BY BroadcastType
<1> QED BY <1>1 DEF Resend, TypeOK, rpcVars, logVars, progressVars

LEMMA ReceiveType ==
    ASSUME TypeOK, NEW p \in net, Receive(p)
    PROVE  TypeOK'
<1>1. CASE OnRetransmitRequest(p)
  <2> DEFINE found == {all_requests[p.to][x] : x \in
              {x \in 1 .. Len(all_requests[p.to]) : all_requests[p.to][x].id = p.msg.id}}
  <2>1. all_requests[p.to] \in Seq(RequestMessages)
    BY HandlerTypes DEF TypeOK
  <2>2. found \in SUBSET Messages
    BY <2>1 DEF Messages
  <2> QED BY <1>1, <2>2, ResendType DEF OnRetransmitRequest
<1>2. CASE OnRetransmitSeq(p)
  <2> DEFINE found == {m \in received_service_msgs[p.to] : m.gs = p.msg.gs}
  <2>1. found \in SUBSET Messages
    BY HandlerTypes DEF TypeOK, Messages
  <2> QED BY <1>2, <2>1, ResendType DEF OnRetransmitSeq
<1> QED BY <1>1, <1>2, RequestMessageType, ServiceMessageType DEF Receive

LEMMA HandlerStepType ==
    ASSUME TypeOK, NEW r \in RequestId, HandlerStep(r)
    PROVE  TypeOK'
<1>1. r[1] \in Node
  BY HandlerTypes
<1>2. CASE BuildRequest(r)
  BY <1>1, <1>2 DEF BuildRequest, TypeOK, logVars, progressVars, HandlerPC
<1>3. CASE RegisterPendingResponse(r)
  BY <1>1, <1>3 DEF RegisterPendingResponse, TypeOK, logVars, progressVars, HandlerPC
<1>4. CASE BroadcastRequest(r)
  <2>1. RequestMessage(r, handler[r].md) \in Messages
    BY DEF RequestMessage, Messages, RequestMessages, TypeOK
  <2>2. Broadcast(RequestMessage(r, handler[r].md)) \subseteq Packets
    BY <2>1, BroadcastType
  <2> QED BY <1>4, <2>2 DEF BroadcastRequest, TypeOK, logVars, progressVars, HandlerPC
<1> QED BY <1>2, <1>3, <1>4 DEF HandlerStep

LEMMA TypeStep == TypeOK /\ [Next]_vars => TypeOK'
<1> SUFFICES ASSUME TypeOK, [Next]_vars PROVE TypeOK'
  OBVIOUS
<1>1. CASE \E i \in Node : NextLocalSeq(i)
  <2>1. PICK i \in Node : NextLocalSeq(i)
    BY <1>1
  <2>2. <<i, local_counter[i] + 1>> \in RequestId
    <3>1. local_counter[i] \in Nat /\ MaxWrites[i] \in Nat
      BY WritesAssumption DEF TypeOK
    <3>2. local_counter[i] + 1 \in 1 .. MaxWrites[i]
      BY <2>1, <3>1 DEF NextLocalSeq
    <3> QED BY <3>2 DEF RequestId
  <2> QED BY <2>1, <2>2 DEF NextLocalSeq, TypeOK, logVars, progressVars, HandlerPC
<1>2. CASE \E r \in RequestId : HandlerStep(r)
  BY <1>2, HandlerStepType
<1>3. CASE \E i \in Node : ReceiveAt(i)
  BY <1>3, ReceiveType DEF ReceiveAt
<1>4. CASE \E p \in net : Lose(p) \/ Duplicate(p)
  BY <1>4, FaultsAssumption
     DEF Lose, Duplicate, TypeOK, Packets, rpcVars, logVars, progressVars
<1>5. CASE UNCHANGED vars
  BY <1>5 DEF TypeOK, vars, rpcVars, logVars, progressVars
<1> QED BY <1>1, <1>2, <1>3, <1>4, <1>5 DEF Next

\* Every variable keeps its type whatever the number of nodes, writes and faults.
THEOREM TypeCorrect == Spec => []TypeOK
BY InitType, TypeStep, PTL DEF Spec

------------------------------------------------------------------------------
(* The order.                                                                 *)

LogTypes(S, Q, K, P, T, M) ==
    /\ S \in [Node -> SUBSET ServiceMessages]
    /\ Q \in [Node -> SUBSET RequestId]
    /\ K \in [Node -> SUBSET RequestId]
    /\ P \in [Node -> SUBSET RequestId]
    /\ T \in [Node -> Nat]
    /\ M \subseteq ServiceMessages

\* the sequencer of a service message has it, in flight or received
SequencerHas(S, M) ==
    /\ \A i \in Node : \A m \in S[i] : m \in S[m.sender]
    /\ \A m \in M : m \in S[m.sender]

\* a number belongs to one node, and has been passed when it is used
OwnTurns(S, T) ==
    \A i \in Node : \A m \in S[i] :
        /\ m.gs % N = m.sender
        /\ m.sender = i => m.gs < T[i]

OnePerSeq(S) == \A i \in Node : \A m, q \in S[i] : m.gs = q.gs => m = q

\* what request_to_seq knows: the received requests with a received number
KnownSequenced(S, Q, K) ==
    \A i \in Node : \A r \in RequestId : r \in Q[i] <=> (r \in K[i] /\ \E m \in S[i] : m.id = r)

OnePerRequest(S) ==
    \A i, j \in Node : \A m \in S[i] : \A q \in S[j] : m.id = q.id => m.gs = q.gs

NoGap(S) ==
    \A i \in Node : \A m \in S[i] : \A g \in 0 .. m.gs - 1 : \E j \in Node : \E q \in S[j] : q.gs = g

SenderOrder(S) ==
    \A i \in Node : \A m \in S[i] : \A l \in 1 .. m.id[2] - 1 :
        \E j \in Node : \E q \in S[j] : q.id = <<m.id[1], l>> /\ q.gs < m.gs

PendingKnown(K, P) == \A i \in Node : P[i] \subseteq K[i]

Ordered(S, Q, K, P, T, M) ==
    /\ LogTypes(S, Q, K, P, T, M)
    /\ SequencerHas(S, M)
    /\ OwnTurns(S, T)
    /\ OnePerSeq(S)
    /\ KnownSequenced(S, Q, K)
    /\ OnePerRequest(S)
    /\ NoGap(S)
    /\ SenderOrder(S)
    /\ PendingKnown(K, P)

Known == [i \in Node |-> Ids(all_requests[i])]
ServicesInFlight == {p.msg : p \in {x \in net : x.msg \in ServiceMessages}}

OrderInv ==
    Ordered(received_service_msgs, request_to_seq, Known, pending_requests,
            next_seq_to_assign, ServicesInFlight)

\* two nodes never hold different service messages with the same number
LEMMA SameMessage ==
    ASSUME NEW S, NEW M, NEW T,
           S \in [Node -> SUBSET ServiceMessages],
           SequencerHas(S, M), OwnTurns(S, T), OnePerSeq(S),
           NEW i \in Node, NEW j \in Node, NEW m \in S[i], NEW q \in S[j], m.gs = q.gs
    PROVE  m = q
<1>1. m \in ServiceMessages /\ q \in ServiceMessages
  OBVIOUS
<1>2. m.sender = q.sender /\ m.sender \in Node
  BY <1>1 DEF OwnTurns, ServiceMessages
<1>3. m \in S[m.sender] /\ q \in S[m.sender]
  BY <1>2 DEF SequencerHas
<1> QED BY <1>2, <1>3 DEF OnePerSeq

(***************************************************************************)
(* First phase: on_service_message takes in a message in flight.           *)
(***************************************************************************)
LEMMA TakeService ==
    ASSUME NEW S, NEW Q, NEW K, NEW P, NEW T, NEW M, Ordered(S, Q, K, P, T, M),
           NEW i \in Node, NEW m \in M, m.gs \notin GlobalSeqs(S[i])
    PROVE  LET sequenced == IF m.id \in K[i] THEN Q[i] \cup {m.id} ELSE Q[i]
           IN  Ordered([S EXCEPT ![i] = S[i] \cup {m}], [Q EXCEPT ![i] = sequenced], K, P, T, M)
<1> DEFINE sequenced == IF m.id \in K[i] THEN Q[i] \cup {m.id} ELSE Q[i]
           SS == [S EXCEPT ![i] = S[i] \cup {m}]
           QQ == [Q EXCEPT ![i] = sequenced]
<1>1. LogTypes(S, Q, K, P, T, M)
  BY DEF Ordered
<1>2. m \in ServiceMessages /\ m.id \in RequestId /\ m.gs \in Nat /\ m.sender \in Node
  BY <1>1 DEF LogTypes, ServiceMessages
<1>3. m \in S[m.sender]
  BY DEF Ordered, SequencerHas
<1>4. \A j \in Node : S[j] \subseteq SS[j] /\ SS[j] \subseteq S[j] \cup {m}
  BY <1>1 DEF LogTypes
<1>5. \A j \in Node : \A q \in SS[j] : \E k \in Node : q \in S[k]
  BY <1>2, <1>3, <1>4
<1>6. LogTypes(SS, QQ, K, P, T, M)
  BY <1>1, <1>2 DEF LogTypes
<1>7. SequencerHas(SS, M)
  <2>1. \A q \in M : q.sender \in Node
    BY <1>1 DEF LogTypes, ServiceMessages
  <2>2. \A j \in Node : \A q \in S[j] : q.sender \in Node
    BY <1>1 DEF LogTypes, ServiceMessages
  <2> QED BY <1>2, <1>3, <1>4, <2>1, <2>2 DEF Ordered, SequencerHas
<1>8. OwnTurns(SS, T)
  <2> SUFFICES ASSUME NEW j \in Node, NEW q \in SS[j]
               PROVE  q.gs % N = q.sender /\ (q.sender = j => q.gs < T[j])
    BY DEF OwnTurns
  <2>1. CASE q \in S[j]
    BY <2>1 DEF Ordered, OwnTurns
  <2>2. CASE q = m
    BY <2>2, <1>2, <1>3 DEF Ordered, OwnTurns
  <2> QED BY <2>1, <2>2, <1>4
<1>9. OnePerSeq(SS)
  <2> SUFFICES ASSUME NEW j \in Node, NEW q1 \in SS[j], NEW q2 \in SS[j], q1.gs = q2.gs
               PROVE  q1 = q2
    BY DEF OnePerSeq
  <2>1. PICK k1 \in Node : q1 \in S[k1]
    BY <1>5
  <2>2. PICK k2 \in Node : q2 \in S[k2]
    BY <1>5
  <2> QED BY <1>1, <2>1, <2>2, SameMessage DEF Ordered, LogTypes
<1>10. KnownSequenced(SS, QQ, K)
  <2> SUFFICES ASSUME NEW j \in Node, NEW r \in RequestId
               PROVE  r \in QQ[j] <=> (r \in K[j] /\ \E q \in SS[j] : q.id = r)
    BY DEF KnownSequenced
  <2>1. r \in Q[j] <=> (r \in K[j] /\ \E q \in S[j] : q.id = r)
    BY DEF Ordered, KnownSequenced
  <2>2. CASE j = i
    BY <2>1, <2>2, <1>1 DEF LogTypes
  <2>3. CASE j # i
    BY <2>1, <2>3, <1>1 DEF LogTypes
  <2> QED BY <2>2, <2>3
<1>11. OnePerRequest(SS)
  BY <1>5 DEF Ordered, OnePerRequest
<1>12. NoGap(SS)
  BY <1>4, <1>5 DEF Ordered, NoGap
<1>13. SenderOrder(SS)
  BY <1>4, <1>5 DEF Ordered, SenderOrder
<1> QED BY <1>6, <1>7, <1>8, <1>9, <1>10, <1>11, <1>12, <1>13 DEF Ordered

(***************************************************************************)
(* First phase: on_request_message takes in a request.                     *)
(***************************************************************************)
LEMMA TakeRequest ==
    ASSUME NEW S, NEW Q, NEW K, NEW P, NEW T, NEW M, Ordered(S, Q, K, P, T, M),
           NEW i \in Node, NEW r \in RequestId
    PROVE  LET sequenced == IF r \in SequencedIds(S[i]) THEN Q[i] \cup {r} ELSE Q[i]
           IN  r \notin K[i] =>
                 Ordered(S, [Q EXCEPT ![i] = sequenced], [K EXCEPT ![i] = K[i] \cup {r}],
                         [P EXCEPT ![i] = P[i] \cup {r}], T, M)
<1> DEFINE sequenced == IF r \in SequencedIds(S[i]) THEN Q[i] \cup {r} ELSE Q[i]
           QQ == [Q EXCEPT ![i] = sequenced]
           KK == [K EXCEPT ![i] = K[i] \cup {r}]
           PP == [P EXCEPT ![i] = P[i] \cup {r}]
<1>1. LogTypes(S, Q, K, P, T, M)
  BY DEF Ordered
<1>2. LogTypes(S, QQ, KK, PP, T, M)
  BY <1>1 DEF LogTypes
<1>3. KnownSequenced(S, QQ, KK)
  <2> SUFFICES ASSUME NEW j \in Node, NEW s \in RequestId
               PROVE  s \in QQ[j] <=> (s \in KK[j] /\ \E q \in S[j] : q.id = s)
    BY DEF KnownSequenced
  <2>1. s \in Q[j] <=> (s \in K[j] /\ \E q \in S[j] : q.id = s)
    BY DEF Ordered, KnownSequenced
  <2>2. CASE j = i
    BY <2>1, <2>2, <1>1 DEF LogTypes, SequencedIds
  <2>3. CASE j # i
    BY <2>1, <2>3, <1>1 DEF LogTypes
  <2> QED BY <2>2, <2>3
<1>4. PendingKnown(KK, PP)
  BY <1>1 DEF Ordered, PendingKnown, LogTypes
<1> QED BY <1>2, <1>3, <1>4 DEF Ordered

(***************************************************************************)
(* Second phase: _try_sequence assigns k to r.  Because everything before k *)
(* is here with its request, no other node can have used k, every number   *)
(* used is below k, and request_to_seq knows every request sequenced.      *)
(***************************************************************************)
LEMMA AssignSeq ==
    ASSUME NEW S, NEW Q, NEW K, NEW P, NEW T, NEW M, Ordered(S, Q, K, P, T, M),
           NEW i \in Node, T[i] % N = i, PrefixComplete(T[i], K[i], S[i]),
           NEW r \in P[i] \ Q[i], PriorAssigned(r, Q[i]),
           NEW m \in ServiceMessages, m.id = r, m.gs = T[i], m.sender = i
    PROVE  /\ Ordered([S EXCEPT ![i] = S[i] \cup {m}], [Q EXCEPT ![i] = Q[i] \cup {r}],
                      K, P, [T EXCEPT ![i] = T[i] + N], M \cup {m})
           /\ \A j \in Node : \A q \in S[j] : q.gs < m.gs /\ q.id # r
<1> DEFINE k == T[i]
           SS == [S EXCEPT ![i] = S[i] \cup {m}]
           QQ == [Q EXCEPT ![i] = Q[i] \cup {r}]
           TT == [T EXCEPT ![i] = T[i] + N]
           MM == M \cup {m}
<1>1. LogTypes(S, Q, K, P, T, M)
  BY DEF Ordered
<1>2. r \in RequestId /\ k \in Nat /\ r \in K[i]
  BY <1>1 DEF LogTypes, Ordered, PendingKnown
<1>3. \A j \in Node : \A q \in S[j] : q \in ServiceMessages /\ q.gs \in Nat /\ q.sender \in Node
                                      /\ q.id \in RequestId
  BY <1>1 DEF LogTypes, ServiceMessages
<1>4. \A j \in Node : \A q \in S[j] : q.gs # k
  <2> SUFFICES ASSUME NEW j \in Node, NEW q \in S[j], q.gs = k PROVE FALSE
    OBVIOUS
  <2>1. q.sender = i
    BY DEF Ordered, OwnTurns
  <2>2. q \in S[i]
    BY <2>1 DEF Ordered, SequencerHas
  <2>3. q.gs < T[i]
    BY <2>1, <2>2 DEF Ordered, OwnTurns
  <2> QED BY <2>3, <1>2
<1>5. \A j \in Node : \A q \in S[j] : q.gs < k
  <2> SUFFICES ASSUME NEW j \in Node, NEW q \in S[j], ~ (q.gs < k) PROVE FALSE
    OBVIOUS
  <2>1. k \in 0 .. q.gs - 1
    BY <1>2, <1>3, <1>4
  <2>2. \E l \in Node : \E p \in S[l] : p.gs = k
    BY <2>1 DEF Ordered, NoGap
  <2> QED BY <2>2, <1>4
<1>6. \A j \in Node : \A q \in S[j] : q.id # r
  <2> SUFFICES ASSUME NEW j \in Node, NEW q \in S[j], q.id = r PROVE FALSE
    OBVIOUS
  <2>1. q.gs \in 0 .. k - 1
    BY <1>2, <1>3, <1>5
  <2>2. PICK p \in S[i] : p.gs = q.gs /\ p.id \in K[i]
    BY <2>1 DEF PrefixComplete
  <2>3. p = q
    BY <1>1, <2>2, SameMessage DEF Ordered, LogTypes
  <2> QED BY <2>2, <2>3, <1>2 DEF Ordered, KnownSequenced
<1>7. \A l \in 1 .. r[2] - 1 : \E q \in S[i] : q.id = <<r[1], l>> /\ q.gs < k
  <2> SUFFICES ASSUME NEW l \in 1 .. r[2] - 1
               PROVE  \E q \in S[i] : q.id = <<r[1], l>> /\ q.gs < k
    OBVIOUS
  <2>1. <<r[1], l>> \in RequestId
    BY <1>2, RequestIdParts
  <2>2. <<r[1], l>> \in Q[i]
    BY DEF PriorAssigned
  <2>3. PICK q \in S[i] : q.id = <<r[1], l>>
    BY <2>1, <2>2 DEF Ordered, KnownSequenced
  <2> QED BY <2>3, <1>5
<1>8. \A g \in 0 .. k - 1 : \E q \in S[i] : q.gs = g
  BY DEF PrefixComplete
<1>9. \A j \in Node : S[j] \subseteq SS[j] /\ SS[j] \subseteq S[j] \cup {m} /\ m \in SS[i]
                      /\ (j # i => SS[j] = S[j])
  BY <1>1 DEF LogTypes
<1>10. LogTypes(SS, QQ, K, P, TT, MM)
  BY <1>1, <1>2, NAssumption DEF LogTypes
<1>11. SequencerHas(SS, MM)
  <2>1. \A q \in M : q.sender \in Node
    BY <1>1 DEF LogTypes, ServiceMessages
  <2> QED BY <1>3, <1>9, <2>1 DEF Ordered, SequencerHas
<1>12. OwnTurns(SS, TT)
  <2> SUFFICES ASSUME NEW j \in Node, NEW q \in SS[j]
               PROVE  q.gs % N = q.sender /\ (q.sender = j => q.gs < TT[j])
    BY DEF OwnTurns
  <2>1. \A l \in Node : TT[l] >= T[l]
    BY <1>1, NAssumption DEF LogTypes
  <2>2. CASE q \in S[j]
    <3>1. q.gs % N = q.sender /\ (q.sender = j => q.gs < T[j])
      BY <2>2 DEF Ordered, OwnTurns
    <3>2. q.gs \in Nat /\ T[j] \in Nat /\ TT[j] \in Nat
      BY <1>1, <1>3, <1>10, <2>2 DEF LogTypes
    <3> QED BY <2>1, <3>1, <3>2
  <2>3. CASE q = m
    <3>1. TT[i] = k + N /\ k + N > k
      BY <1>1, <1>2, NAssumption DEF LogTypes
    <3> QED BY <2>3, <3>1
  <2> QED BY <2>2, <2>3, <1>9
<1>13. OnePerSeq(SS)
  BY <1>4, <1>9 DEF Ordered, OnePerSeq
<1>14. KnownSequenced(SS, QQ, K)
  <2> SUFFICES ASSUME NEW j \in Node, NEW s \in RequestId
               PROVE  s \in QQ[j] <=> (s \in K[j] /\ \E q \in SS[j] : q.id = s)
    BY DEF KnownSequenced
  <2>1. s \in Q[j] <=> (s \in K[j] /\ \E q \in S[j] : q.id = s)
    BY DEF Ordered, KnownSequenced
  <2>2. CASE j = i
    BY <2>1, <2>2, <1>1, <1>2, <1>9 DEF LogTypes
  <2>3. CASE j # i
    BY <2>1, <2>3, <1>1, <1>9 DEF LogTypes
  <2> QED BY <2>2, <2>3
<1>15. OnePerRequest(SS)
  BY <1>6, <1>9 DEF Ordered, OnePerRequest
<1>16. NoGap(SS)
  <2> SUFFICES ASSUME NEW j \in Node, NEW q \in SS[j], NEW g \in 0 .. q.gs - 1
               PROVE  \E l \in Node : \E p \in SS[l] : p.gs = g
    BY DEF NoGap
  <2>1. CASE q \in S[j]
    BY <2>1, <1>9 DEF Ordered, NoGap
  <2>2. CASE q = m
    BY <2>2, <1>8, <1>9
  <2> QED BY <2>1, <2>2, <1>9
<1>17. SenderOrder(SS)
  <2> SUFFICES ASSUME NEW j \in Node, NEW q \in SS[j], NEW l \in 1 .. q.id[2] - 1
               PROVE  \E n \in Node : \E p \in SS[n] : p.id = <<q.id[1], l>> /\ p.gs < q.gs
    BY DEF SenderOrder
  <2>1. CASE q \in S[j]
    BY <2>1, <1>9 DEF Ordered, SenderOrder
  <2>2. CASE q = m
    BY <2>2, <1>7, <1>9
  <2> QED BY <2>1, <2>2, <1>9
<1>18. PendingKnown(K, P)
  BY DEF Ordered
<1>19. Ordered(SS, QQ, K, P, TT, MM)
  BY <1>10, <1>11, <1>12, <1>13, <1>14, <1>15, <1>16, <1>17, <1>18 DEF Ordered
<1> QED BY <1>5, <1>6, <1>19

\* delivering removes pending requests; the network forgets service messages, or
\* sends again what a node has received
LEMMA Forget ==
    ASSUME NEW S, NEW Q, NEW K, NEW P, NEW T, NEW M, Ordered(S, Q, K, P, T, M),
           NEW PP \in [Node -> SUBSET RequestId], NEW MM,
           \A i \in Node : PP[i] \subseteq P[i],
           \A m \in MM : m \in M \/ \E i \in Node : m \in S[i]
    PROVE  Ordered(S, Q, K, PP, T, MM)
<1>1. LogTypes(S, Q, K, PP, T, MM)
  BY DEF Ordered, LogTypes
<1>2. SequencerHas(S, MM)
  BY DEF Ordered, SequencerHas
<1>3. PendingKnown(K, PP)
  BY DEF Ordered, PendingKnown
<1> QED BY <1>1, <1>2, <1>3 DEF Ordered

(***************************************************************************)
(* _try_sequence and _try_deliver on the logs of the first phase.          *)
(***************************************************************************)
LEMMA DeliverPending ==
    ASSUME TypeOK, NEW i \in Node, NEW pending \in SUBSET RequestId,
           NEW svcs, NEW heard, TryDeliver(i, pending, svcs, heard)
    PROVE  /\ pending_requests'[i] \subseteq pending
           /\ \A j \in Node \ {i} : pending_requests'[j] = pending_requests[j]
           /\ pending_requests' \in [Node -> SUBSET RequestId]
<1>1. PICK done : pending_requests' = [pending_requests EXCEPT ![i] = pending \ done]
  BY DEF TryDeliver
<1> QED BY <1>1 DEF TypeOK

LEMMA SettleOrder ==
    ASSUME TypeOK, NEW i \in Node, NEW reqs \in Seq(RequestMessages),
           NEW pending \in SUBSET RequestId, NEW svcs \in SUBSET ServiceMessages,
           NEW sequenced \in SUBSET RequestId, NEW heard, NEW out \in SUBSET Packets,
           TrySequenceAndDeliver(i, reqs, pending, svcs, sequenced, heard, out),
           NEW K, K[i] = Ids(reqs), NEW M,
           \A m \in ServiceMessages : (\E p \in out : p.msg = m) => m \in M,
           Ordered([received_service_msgs EXCEPT ![i] = svcs],
                   [request_to_seq EXCEPT ![i] = sequenced], K,
                   [pending_requests EXCEPT ![i] = pending], next_seq_to_assign, M)
    PROVE  Ordered(received_service_msgs', request_to_seq', K, pending_requests',
                   next_seq_to_assign', ServicesInFlight')
<1> DEFINE S == [received_service_msgs EXCEPT ![i] = svcs]
           Q == [request_to_seq EXCEPT ![i] = sequenced]
           P == [pending_requests EXCEPT ![i] = pending]
           T == next_seq_to_assign
           k == next_seq_to_assign[i]
<1>1. S[i] = svcs /\ Q[i] = sequenced /\ P[i] = pending
      /\ (\A j \in Node \ {i} : P[j] = pending_requests[j])
  BY DEF TypeOK
<1>2. Ordered(S, Q, K, P, T, M)
  OBVIOUS
<1>3. CASE \E r \in Choices(i, reqs, pending, svcs, sequenced) :
             LET m == ServiceMessage(r, k, i, Claimed(i, k))
             IN  /\ received_service_msgs' = [received_service_msgs EXCEPT ![i] = svcs \cup {m}]
                 /\ request_to_seq' = [request_to_seq EXCEPT ![i] = sequenced \cup {r}]
                 /\ next_seq_to_assign' = [next_seq_to_assign EXCEPT ![i] = NextTurn(k)]
                 /\ net' = out \cup Broadcast(m)
                 /\ TryDeliver(i, pending, svcs \cup {m}, heard)
  <2>1. PICK r \in Choices(i, reqs, pending, svcs, sequenced) :
             LET m == ServiceMessage(r, k, i, Claimed(i, k))
             IN  /\ received_service_msgs' = [received_service_msgs EXCEPT ![i] = svcs \cup {m}]
                 /\ request_to_seq' = [request_to_seq EXCEPT ![i] = sequenced \cup {r}]
                 /\ next_seq_to_assign' = [next_seq_to_assign EXCEPT ![i] = NextTurn(k)]
                 /\ net' = out \cup Broadcast(m)
                 /\ TryDeliver(i, pending, svcs \cup {m}, heard)
    BY <1>3
  <2> DEFINE m == ServiceMessage(r, k, i, Claimed(i, k))
  <2>2. /\ T[i] % N = i
        /\ PrefixComplete(T[i], K[i], S[i])
        /\ r \in P[i] \ Q[i]
        /\ PriorAssigned(r, Q[i])
        /\ r \in RequestId
    BY <1>1, ChoiceFacts
  <2>3. m \in ServiceMessages /\ m.id = r /\ m.gs = T[i] /\ m.sender = i
    BY <2>2 DEF ServiceMessage, ServiceMessages, Claimed, TypeOK
  <2>4. /\ received_service_msgs' = [received_service_msgs EXCEPT ![i] = svcs \cup {m}]
        /\ request_to_seq' = [request_to_seq EXCEPT ![i] = sequenced \cup {r}]
        /\ next_seq_to_assign' = [next_seq_to_assign EXCEPT ![i] = k + N]
        /\ net' = out \cup Broadcast(m)
        /\ TryDeliver(i, pending, svcs \cup {m}, heard)
    BY <2>1 DEF NextTurn
  <2>5. \A q \in ServiceMessages : (\E p \in net' : p.msg = q) => q \in M \cup {m}
    BY <2>4 DEF Broadcast, Packet
  <2> HIDE DEF m
  <2>6. Ordered([S EXCEPT ![i] = S[i] \cup {m}], [Q EXCEPT ![i] = Q[i] \cup {r}],
                K, P, [T EXCEPT ![i] = T[i] + N], M \cup {m})
    <3> HIDE DEF S, Q, P, T
    <3> QED BY <1>2, <2>2, <2>3, AssignSeq
  <2>7. /\ [S EXCEPT ![i] = S[i] \cup {m}] = received_service_msgs'
        /\ [Q EXCEPT ![i] = Q[i] \cup {r}] = request_to_seq'
        /\ [T EXCEPT ![i] = T[i] + N] = next_seq_to_assign'
    BY <2>4, <1>1 DEF TypeOK
  <2>8. Ordered(received_service_msgs', request_to_seq', K, P, next_seq_to_assign', M \cup {m})
    BY <2>6, <2>7
  <2>9. /\ pending_requests' \in [Node -> SUBSET RequestId]
        /\ \A j \in Node : pending_requests'[j] \subseteq P[j]
    BY <2>4, <1>1, DeliverPending
  <2>10. \A q \in ServicesInFlight' : q \in M \cup {m}
    BY <2>5 DEF ServicesInFlight
  <2> HIDE DEF P
  <2> QED BY <2>8, <2>9, <2>10, Forget
<1>4. CASE /\ received_service_msgs' = [received_service_msgs EXCEPT ![i] = svcs]
           /\ request_to_seq' = [request_to_seq EXCEPT ![i] = sequenced]
           /\ net' = out
           /\ TryDeliver(i, pending, svcs, heard)
           /\ UNCHANGED next_seq_to_assign
  <2>1. Ordered(received_service_msgs', request_to_seq', K, P, next_seq_to_assign', M)
    BY <1>4
  <2>2. /\ pending_requests' \in [Node -> SUBSET RequestId]
        /\ \A j \in Node : pending_requests'[j] \subseteq P[j]
    BY <1>4, <1>1, DeliverPending
  <2>3. \A q \in ServicesInFlight' : q \in M
    BY <1>4 DEF ServicesInFlight
  <2> HIDE DEF P
  <2> QED BY <2>1, <2>2, <2>3, Forget
<1> QED BY <1>3, <1>4 DEF TrySequenceAndDeliver

\* steps that leave the logs alone and put nothing new on the network
LEMMA QuietOrder ==
    ASSUME TypeOK, OrderInv,
           UNCHANGED <<logVars, next_seq_to_assign>>,
           \A p \in net' : p.msg \in ServiceMessages =>
               \/ \E q \in net : q.msg = p.msg
               \/ \E i \in Node : p.msg \in received_service_msgs[i]
    PROVE  OrderInv'
<1>1. UNCHANGED <<received_service_msgs, request_to_seq, Known, pending_requests,
                  next_seq_to_assign>>
  BY DEF logVars, Known
<1>2. \A m \in ServicesInFlight' :
         m \in ServicesInFlight \/ \E i \in Node : m \in received_service_msgs[i]
  BY DEF ServicesInFlight
<1>3. pending_requests \in [Node -> SUBSET RequestId]
  BY DEF TypeOK
<1>4. Ordered(received_service_msgs, request_to_seq, Known, pending_requests,
              next_seq_to_assign, ServicesInFlight')
  <2> DEFINE MM == ServicesInFlight'
  <2>1. \A m \in MM :
           m \in ServicesInFlight \/ \E i \in Node : m \in received_service_msgs[i]
    BY <1>2
  <2> HIDE DEF MM
  <2>2. Ordered(received_service_msgs, request_to_seq, Known, pending_requests,
                next_seq_to_assign, MM)
    BY <1>3, <2>1, Forget DEF OrderInv
  <2> QED BY <2>2 DEF MM
<1> QED BY <1>1, <1>4 DEF OrderInv

LEMMA NoServiceAsked ==
    ASSUME NEW i, NEW r, NEW gs, NEW svcs, NEW known, NEW sequenced
    PROVE  \A x \in MissingRequests(r, known, sequenced) \cup MissingSeqs(i, gs, svcs) :
              x.msg \notin ServiceMessages
<1>1. \A m \in ServiceMessages : m.type = "service"
  BY DEF ServiceMessages
<1>2. \A l : Packet(r[1], RetransmitRequest(<<r[1], l>>)).msg.type = "retransmit_request"
  BY DEF Packet, RetransmitRequest
<1>3. \A g : Packet(g % N, RetransmitService(g)).msg.type = "retransmit_service"
  BY DEF Packet, RetransmitService
<1>4. \A x \in MissingRequests(r, known, sequenced) : x.msg.type = "retransmit_request"
  BY <1>2 DEF MissingRequests
<1>5. \A x \in MissingSeqs(i, gs, svcs) : x.msg.type = "retransmit_service"
  BY <1>3 DEF MissingSeqs
<1> QED BY <1>1, <1>4, <1>5

LEMMA RequestOrder ==
    ASSUME TypeOK, OrderInv, NEW p \in net, OnRequestMessage(p), ~ Ignore(p)
    PROVE  OrderInv'
<1> DEFINE i == p.to
           m == p.msg
           reqs == Append(all_requests[i], m)
           svcs == received_service_msgs[i]
           pending == pending_requests[i] \cup {m.id}
           sequenced == BackFilled(i, m.id)
           heard == [node_last_delivered[i] EXCEPT ![m.id[1]] = Later(@, m.md)]
           nacks == MissingRequests(m.id, Ids(reqs), sequenced)
           out == (net \ {p}) \cup nacks
           M == ServicesInFlight
<1>1. i \in Node /\ m \in RequestMessages /\ m.id \in RequestId
  BY HandlerTypes DEF OnRequestMessage
<1>2. /\ m.id \notin Ids(all_requests[i])
      /\ all_requests' = [all_requests EXCEPT ![i] = reqs]
      /\ TrySequenceAndDeliver(i, reqs, pending, svcs, sequenced, heard, out)
  BY DEF OnRequestMessage
<1>3. reqs \in Seq(RequestMessages) /\ Ids(reqs) = Ids(all_requests[i]) \cup {m.id}
  BY <1>1, IdsAppend DEF TypeOK
<1>4. pending \in SUBSET RequestId /\ sequenced \in SUBSET RequestId
      /\ svcs \in SUBSET ServiceMessages
  BY <1>1 DEF TypeOK, BackFilled
<1>5. nacks \subseteq Packets
  BY <1>1, MissingRequestsType
<1>6. out \in SUBSET Packets
  BY <1>5 DEF TypeOK
<1>7. \A q \in ServiceMessages : (\E x \in out : x.msg = q) => q \in M
  <2>1. \A x \in nacks : x.msg \notin ServiceMessages
    BY NoServiceAsked
  <2> QED BY <2>1 DEF ServicesInFlight
<1>8. Known' = [Known EXCEPT ![i] = Known[i] \cup {m.id}]
  BY <1>1, <1>2, <1>3 DEF Known, TypeOK
<1>9. Known'[i] = Ids(reqs)
  BY <1>1, <1>2 DEF Known, TypeOK
<1>10. m.id \notin Known[i]
  BY <1>1, <1>2 DEF Known
<1>11. Ordered([received_service_msgs EXCEPT ![i] = svcs],
               [request_to_seq EXCEPT ![i] = sequenced], Known',
               [pending_requests EXCEPT ![i] = pending], next_seq_to_assign, M)
  <2>1. Ordered(received_service_msgs,
                [request_to_seq EXCEPT ![i] = IF m.id \in SequencedIds(received_service_msgs[i])
                    THEN request_to_seq[i] \cup {m.id} ELSE request_to_seq[i]],
                [Known EXCEPT ![i] = Known[i] \cup {m.id}],
                [pending_requests EXCEPT ![i] = pending_requests[i] \cup {m.id}],
                next_seq_to_assign, M)
    <3> HIDE DEF i, m, M
    <3> QED BY <1>1, <1>10, TakeRequest DEF OrderInv, M
  <2>2. [received_service_msgs EXCEPT ![i] = svcs] = received_service_msgs
    BY DEF TypeOK
  <2> QED BY <1>8, <2>1, <2>2 DEF BackFilled
<1>12. PICK K : K = Known'
  OBVIOUS
<1> HIDE DEF i, m, svcs, reqs, pending, sequenced, heard, nacks, out, M
<1>13. Ordered(received_service_msgs', request_to_seq', K, pending_requests',
               next_seq_to_assign', ServicesInFlight')
  <2>1. K[i] = Ids(reqs)
    BY <1>9, <1>12
  <2>2. Ordered([received_service_msgs EXCEPT ![i] = svcs],
                [request_to_seq EXCEPT ![i] = sequenced], K,
                [pending_requests EXCEPT ![i] = pending], next_seq_to_assign, M)
    BY <1>11, <1>12
  <2>3. TrySequenceAndDeliver(i, reqs, pending, svcs, sequenced, heard, out)
    BY <1>2
  <2>4. i \in Node /\ reqs \in Seq(RequestMessages)
    BY <1>1, <1>3
  <2> QED BY <2>1, <2>2, <2>3, <2>4, <1>4, <1>6, <1>7, SettleOrder
<1> QED BY <1>12, <1>13 DEF OrderInv

LEMMA ServiceOrder ==
    ASSUME TypeOK, OrderInv, NEW p \in net, OnServiceMessage(p), ~ Ignore(p)
    PROVE  OrderInv'
<1> DEFINE i == p.to
           m == p.msg
           svcs == received_service_msgs[i] \cup {m}
           sequenced == IF m.id \in Ids(all_requests[i])
                        THEN request_to_seq[i] \cup {m.id} ELSE request_to_seq[i]
           heard == [node_last_delivered[i] EXCEPT ![Reporter(m)] = Later(@, m.md)]
           nacks == MissingSeqs(i, m.gs, svcs)
           out == (net \ {p}) \cup nacks
           M == ServicesInFlight
<1>1. i \in Node /\ m \in ServiceMessages /\ m.id \in RequestId /\ m.gs \in Nat
  BY HandlerTypes DEF OnServiceMessage
<1>2. /\ m.gs \notin GlobalSeqs(received_service_msgs[i])
      /\ TrySequenceAndDeliver(i, all_requests[i], pending_requests[i], svcs,
                               sequenced, heard, out)
      /\ UNCHANGED all_requests
  BY DEF OnServiceMessage
<1>3. /\ all_requests[i] \in Seq(RequestMessages)
      /\ pending_requests[i] \in SUBSET RequestId
      /\ svcs \in SUBSET ServiceMessages
      /\ sequenced \in SUBSET RequestId
  BY <1>1 DEF TypeOK
<1>4. nacks \subseteq Packets
  <2>1. last_delivered_seq[i] \in SeqNo
    BY <1>1 DEF TypeOK
  <2>2. \A g \in last_delivered_seq[i] + 1 .. m.gs - 1 : g \in Nat /\ g % N \in Node
    BY <1>1, <2>1, NAssumption DEF SeqNo, Node
  <2> QED BY <2>2
          DEF MissingSeqs, Packets, Packet, Messages, RetransmitMessages, RetransmitService
<1>5. out \in SUBSET Packets
  BY <1>4 DEF TypeOK
<1>6. \A q \in ServiceMessages : (\E x \in out : x.msg = q) => q \in M
  <2>1. \A x \in nacks : x.msg \notin ServiceMessages
    BY NoServiceAsked
  <2> QED BY <2>1 DEF ServicesInFlight
<1>7. Known' = Known /\ Known[i] = Ids(all_requests[i])
  BY <1>1, <1>2 DEF Known
<1>8. m \in M
  BY <1>1 DEF ServicesInFlight
<1>9. Ordered([received_service_msgs EXCEPT ![i] = svcs],
              [request_to_seq EXCEPT ![i] = sequenced], Known,
              pending_requests, next_seq_to_assign, M)
  <2>1. Ordered([received_service_msgs EXCEPT ![i] = received_service_msgs[i] \cup {m}],
                [request_to_seq EXCEPT ![i] = IF m.id \in Known[i]
                    THEN request_to_seq[i] \cup {m.id} ELSE request_to_seq[i]],
                Known, pending_requests, next_seq_to_assign, M)
    <3> HIDE DEF i, m, M
    <3> QED BY <1>1, <1>2, <1>8, TakeService DEF OrderInv, M
  <2> QED BY <1>7, <2>1
<1>10. [pending_requests EXCEPT ![i] = pending_requests[i]] = pending_requests
  BY DEF TypeOK
<1> HIDE DEF i, m, svcs, sequenced, heard, out, M
<1>11. Ordered(received_service_msgs', request_to_seq', Known, pending_requests',
               next_seq_to_assign', ServicesInFlight')
  BY <1>1, <1>2, <1>3, <1>5, <1>6, <1>7, <1>9, <1>10, SettleOrder
<1> QED BY <1>7, <1>11 DEF OrderInv

LEMMA InitOrder == Init => OrderInv
<1> SUFFICES ASSUME Init PROVE OrderInv
  OBVIOUS
<1>1. /\ \A i \in Node : received_service_msgs[i] = {} /\ request_to_seq[i] = {}
                         /\ pending_requests[i] = {} /\ Known[i] = {}
      /\ ServicesInFlight = {}
  BY DEF Init, Known, Ids, ServicesInFlight
<1>2. LogTypes(received_service_msgs, request_to_seq, Known, pending_requests,
               next_seq_to_assign, ServicesInFlight)
  <2>1. Known \in [Node -> SUBSET RequestId]
    BY <1>1 DEF Known
  <2>2. next_seq_to_assign \in [Node -> Nat]
    BY NAssumption DEF Init, Node
  <2> QED BY <1>1, <2>1, <2>2 DEF Init, LogTypes
<1> QED BY <1>1, <1>2 DEF OrderInv, Ordered, SequencerHas, OwnTurns, OnePerSeq,
            KnownSequenced, OnePerRequest, NoGap, SenderOrder, PendingKnown

LEMMA ReceiveOrder ==
    ASSUME TypeOK, OrderInv, NEW p \in net, Receive(p)
    PROVE  OrderInv'
<1>1. CASE Ignore(p)
  BY <1>1, QuietOrder DEF Ignore, progressVars
<1>2. CASE OnRetransmitRequest(p)
  <2>1. \A q \in net' : q \in net \/ q.msg \notin ServiceMessages
    <3>1. all_requests[p.to] \in Seq(RequestMessages)
      BY HandlerTypes DEF TypeOK
    <3>2. \A x \in 1 .. Len(all_requests[p.to]) : all_requests[p.to][x].type = "request"
      <4>1. \A x \in 1 .. Len(all_requests[p.to]) : all_requests[p.to][x] \in RequestMessages
        BY <3>1
      <4> QED BY <4>1 DEF RequestMessages
    <3> QED BY <1>2, <3>2
            DEF OnRetransmitRequest, Resend, Broadcast, Packet, ServiceMessages
  <2> QED BY <1>2, <2>1, QuietOrder DEF OnRetransmitRequest, Resend, progressVars
<1>3. CASE OnRetransmitSeq(p)
  <2>1. p.to \in Node
    BY HandlerTypes
  <2>2. \A q \in net' : q \in net \/ q.msg \in received_service_msgs[p.to]
    BY <1>3 DEF OnRetransmitSeq, Resend, Broadcast, Packet
  <2> QED BY <1>3, <2>1, <2>2, QuietOrder DEF OnRetransmitSeq, Resend, progressVars
<1> QED BY <1>1, <1>2, <1>3, RequestOrder, ServiceOrder DEF Receive

LEMMA OrderStep == TypeOK /\ OrderInv /\ [Next]_vars => OrderInv'
<1> SUFFICES ASSUME TypeOK, OrderInv, [Next]_vars PROVE OrderInv'
  OBVIOUS
<1>1. CASE \E i \in Node : NextLocalSeq(i)
  BY <1>1, QuietOrder DEF NextLocalSeq, progressVars
<1>2. CASE \E r \in RequestId : HandlerStep(r)
  <2>1. PICK r \in RequestId : HandlerStep(r)
    BY <1>2
  <2>2. UNCHANGED <<logVars, next_seq_to_assign>>
    BY <2>1 DEF HandlerStep, BuildRequest, RegisterPendingResponse, BroadcastRequest,
                progressVars
  <2>3. \A p \in net' : p \in net \/ p.msg \notin ServiceMessages
    BY <2>1 DEF HandlerStep, BuildRequest, RegisterPendingResponse, BroadcastRequest,
                Broadcast, Packet, RequestMessage, ServiceMessages
  <2> QED BY <2>2, <2>3, QuietOrder
<1>3. CASE \E i \in Node : ReceiveAt(i)
  BY <1>3, ReceiveOrder DEF ReceiveAt
<1>4. CASE \E p \in net : Lose(p) \/ Duplicate(p)
  <2>1. UNCHANGED <<logVars, next_seq_to_assign>>
    BY <1>4 DEF Lose, Duplicate, progressVars
  <2>2. \A p \in net' : \E q \in net : q.msg = p.msg
    BY <1>4 DEF Lose, Duplicate
  <2> QED BY <2>1, <2>2, QuietOrder
<1>5. CASE UNCHANGED vars
  BY <1>5, QuietOrder DEF vars, progressVars
<1> QED BY <1>1, <1>2, <1>3, <1>4, <1>5 DEF Next

LEMMA OrderInvariant == Spec => [](TypeOK /\ OrderInv)
<1>1. Init => TypeOK /\ OrderInv
  BY InitType, InitOrder
<1>2. TypeOK /\ OrderInv /\ [Next]_vars => (TypeOK /\ OrderInv)'
  BY TypeStep, OrderStep
<1> QED BY <1>1, <1>2, PTL DEF Spec

\* No global sequence number is ever given to two requests.
THEOREM SequenceAgreement == Spec => []OneRequestPerSeq
<1>1. TypeOK /\ OrderInv => OneRequestPerSeq
  <2> SUFFICES ASSUME TypeOK, OrderInv,
                      NEW m1 \in AllServiceMsgs, NEW m2 \in AllServiceMsgs, m1.gs = m2.gs
               PROVE  m1.id = m2.id
    BY DEF OneRequestPerSeq
  <2>1. PICK i \in Node : m1 \in received_service_msgs[i]
    BY DEF AllServiceMsgs
  <2>2. PICK j \in Node : m2 \in received_service_msgs[j]
    BY DEF AllServiceMsgs
  <2> QED BY <2>1, <2>2, SameMessage DEF OrderInv, Ordered, LogTypes
<1> QED BY <1>1, OrderInvariant, PTL

\* No request is ever given two global sequence numbers.
THEOREM SequencedOnce == Spec => []OneSeqPerRequest
<1>1. OrderInv => OneSeqPerRequest
  BY DEF OrderInv, Ordered, OnePerRequest, OneSeqPerRequest, AllServiceMsgs
<1> QED BY <1>1, OrderInvariant, PTL

\* Global sequence numbers are handed out without a gap.
THEOREM NoGapInOrder == Spec => []NoSkippedSeq
<1>1. OrderInv => NoSkippedSeq
  <2> SUFFICES ASSUME OrderInv, NEW m \in AllServiceMsgs, NEW g \in 0 .. m.gs - 1
               PROVE  g \in GlobalSeqs(AllServiceMsgs)
    BY DEF NoSkippedSeq
  <2>1. PICK i \in Node : m \in received_service_msgs[i]
    BY DEF AllServiceMsgs
  <2>2. PICK j \in Node : \E q \in received_service_msgs[j] : q.gs = g
    BY <2>1 DEF OrderInv, Ordered, NoGap
  <2> QED BY <2>2 DEF AllServiceMsgs, GlobalSeqs
<1> QED BY <1>1, OrderInvariant, PTL

\* The requests of a sender are sequenced in the order it numbered them.
THEOREM SenderFifo == Spec => []SenderOrderKept
<1>1. OrderInv => SenderOrderKept
  <2> SUFFICES ASSUME OrderInv, NEW m \in AllServiceMsgs, NEW l \in 1 .. m.id[2] - 1
               PROVE  \E q \in AllServiceMsgs : q.id = <<m.id[1], l>> /\ q.gs < m.gs
    BY DEF SenderOrderKept
  <2>1. PICK i \in Node : m \in received_service_msgs[i]
    BY DEF AllServiceMsgs
  <2>2. PICK j \in Node :
            \E q \in received_service_msgs[j] : q.id = <<m.id[1], l>> /\ q.gs < m.gs
    BY <2>1 DEF OrderInv, Ordered, SenderOrder
  <2> QED BY <2>2 DEF AllServiceMsgs
<1> QED BY <1>1, OrderInvariant, PTL
==============================================================================
