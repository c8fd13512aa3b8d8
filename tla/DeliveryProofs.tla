--------------------------- MODULE DeliveryProofs ---------------------------
(***************************************************************************)
(* The delivery half of the broadcast.  First, what the nodes know of each *)
(* other's progress is true, and a node never delivers more than one       *)
(* request ahead of a majority: the invariants bound every report of       *)
(* progress that is kept, waits in a handler or is in flight by the        *)
(* progress it reports.                                                    *)
(*                                                                         *)
(* Then, what the broadcast promises its users: every node puts the same   *)
(* requests on its delivery queue in the same order, and the node that     *)
(* serves a write finds the waiting handler when it delivers it.  A queue  *)
(* is the received service messages read off in the order of their         *)
(* numbers, so that two queues agree because the numbers do.  A handler    *)
(* waits from its registration to its delivery because nobody receives a   *)
(* request before its handler has registered and sent it.                  *)
(***************************************************************************)
EXTENDS AtomicBroadcastProofs, FiniteSetTheorems, SequenceTheorems

------------------------------------------------------------------------------
(* Progress.                                                                  *)

LEMMA CardinalityGrows ==
    ASSUME NEW A, NEW B, A \subseteq B, B \subseteq Node
    PROVE  /\ Cardinality(A) \in Nat /\ Cardinality(B) \in Nat
           /\ Cardinality(A) <= Cardinality(B)
<1>1. IsFiniteSet(Node)
  BY NAssumption, FS_Interval DEF Node
<1>2. IsFiniteSet(B) /\ IsFiniteSet(A)
  BY <1>1, FS_Subset
<1> QED BY <1>2, FS_Subset, FS_CardinalityType

\* the entries of a concatenation, counted from the join
LEMMA ConcatFacts ==
    ASSUME NEW A, NEW s \in Seq(A), NEW u \in Seq(A)
    PROVE  /\ Len(s) \in Nat /\ Len(u) \in Nat
           /\ Len(s \o u) = Len(s) + Len(u)
           /\ \A x \in 1 .. Len(s) : (s \o u)[x] = s[x]
           /\ \A x \in 1 .. Len(u) : (s \o u)[Len(s) + x] = u[x]
<1>1. Len(s) \in Nat /\ Len(u) \in Nat
  BY LenProperties
<1>2. /\ Len(s \o u) = Len(s) + Len(u)
      /\ \A x \in 1 .. Len(s) + Len(u) :
            (s \o u)[x] = IF x <= Len(s) THEN s[x] ELSE u[x - Len(s)]
  BY ConcatProperties
<1>3. \A x \in 1 .. Len(s) : (s \o u)[x] = s[x]
  BY <1>1, <1>2
<1>4. ASSUME NEW x \in 1 .. Len(u) PROVE (s \o u)[Len(s) + x] = u[x]
  <2>1. Len(s) + x \in 1 .. Len(s) + Len(u) /\ ~ (Len(s) + x <= Len(s)) /\ (Len(s) + x) - Len(s) = x
    BY <1>1
  <2>2. (s \o u)[Len(s) + x] = u[(Len(s) + x) - Len(s)]
    BY <1>2, <2>1
  <2> QED BY <2>1, <2>2
<1> QED BY <1>1, <1>2, <1>3, <1>4

(***************************************************************************)
(* What _try_sequence; _try_deliver does to the delivery state.            *)
(***************************************************************************)
Delivered(i, pending, svcs, heard) ==
    LET last == last_delivered_seq[i]
        d    == last_delivered_seq'[i]
        done == {SeqToRequest(svcs, gs) : gs \in last + 1 .. d}
    IN  /\ last \in SeqNo /\ d \in SeqNo /\ last <= d
        /\ last_delivered_seq' = [last_delivered_seq EXCEPT ![i] = d]
        /\ \A gs \in last + 1 .. d : Deliverable(i, gs, pending, svcs, heard)
        /\ node_last_delivered' = [node_last_delivered EXCEPT ![i] =
               IF d > last THEN [heard EXCEPT ![i] = d] ELSE heard]
        /\ pending_requests' = [pending_requests EXCEPT ![i] = pending \ done]
        /\ pending_responses' = [pending_responses EXCEPT ![i] = @ \ done]
        /\ \A j \in Node \ {i} : delivery_queue'[j] = delivery_queue[j]
        /\ Len(delivery_queue'[i]) = Len(delivery_queue[i]) + (d - last)
        /\ \A x \in 1 .. Len(delivery_queue[i]) :
               delivery_queue'[i][x] = delivery_queue[i][x]
        /\ \A x \in 1 .. d - last :
               delivery_queue'[i][Len(delivery_queue[i]) + x] =
                   [id |-> SeqToRequest(svcs, last + x),
                    pending |-> SeqToRequest(svcs, last + x) \in pending_responses[i]]

LEMMA DeliverFacts ==
    ASSUME TypeOK, NEW i \in Node, NEW pending \in SUBSET RequestId,
           NEW svcs \in SUBSET ServiceMessages, NEW heard \in [Node -> SeqNo],
           TryDeliver(i, pending, svcs, heard)
    PROVE  Delivered(i, pending, svcs, heard)
<1> DEFINE last == last_delivered_seq[i]
           batch(d) == [x \in 1 .. d - last |-> SeqToRequest(svcs, last + x)]
           news(d) == [x \in 1 .. d - last |->
                        [id |-> batch(d)[x], pending |-> batch(d)[x] \in pending_responses[i]]]
<1>1. last \in SeqNo
  BY DEF TypeOK
<1>2. PICK d \in last .. last + Cardinality(svcs) :
         /\ \A gs \in last + 1 .. d : Deliverable(i, gs, pending, svcs, heard)
         /\ pending_requests' = [pending_requests EXCEPT ![i] =
                pending \ {batch(d)[x] : x \in 1 .. d - last}]
         /\ pending_responses' = [pending_responses EXCEPT ![i] =
                @ \ {batch(d)[x] : x \in 1 .. d - last}]
         /\ delivery_queue' = [delivery_queue EXCEPT ![i] = @ \o news(d)]
         /\ last_delivered_seq' = [last_delivered_seq EXCEPT ![i] = d]
         /\ node_last_delivered' = [node_last_delivered EXCEPT ![i] =
                IF d > last THEN [heard EXCEPT ![i] = d] ELSE heard]
  BY DEF TryDeliver
<1>3. d \in SeqNo /\ last <= d /\ d - last \in Nat /\ last_delivered_seq'[i] = d
  BY <1>1, <1>2 DEF SeqNo, TypeOK
<1>4. {batch(d)[x] : x \in 1 .. d - last} = {SeqToRequest(svcs, gs) : gs \in last + 1 .. d}
  <2>1. \A x \in 1 .. d - last : last + x \in last + 1 .. d /\ batch(d)[x] = SeqToRequest(svcs, last + x)
    BY <1>1, <1>3 DEF SeqNo
  <2>2. \A gs \in last + 1 .. d : gs - last \in 1 .. d - last /\ last + (gs - last) = gs
    BY <1>1, <1>3 DEF SeqNo
  <2> HIDE DEF batch, last
  <2> QED BY <2>1, <2>2
<1>5. \A j \in Node \ {i} : delivery_queue'[j] = delivery_queue[j]
  BY <1>2 DEF TypeOK
<1>6. delivery_queue'[i] = delivery_queue[i] \o news(d) /\ delivery_queue[i] \in Seq(Delivery)
  BY <1>2 DEF TypeOK
<1>7. news(d) \in Seq({news(d)[x] : x \in 1 .. d - last}) /\ Len(news(d)) = d - last
  <2> DEFINE n == d - last
             A == {news(d)[x] : x \in 1 .. n}
  <2>1. n \in Nat /\ news(d) \in [1 .. n -> A]
    BY <1>3
  <2> HIDE DEF news, A, n
  <2>2. news(d) \in Seq(A) /\ Len(news(d)) = n
    BY <2>1
  <2> QED BY <2>2 DEF A, n
<1>8. /\ Len(delivery_queue'[i]) = Len(delivery_queue[i]) + (d - last)
      /\ \A x \in 1 .. Len(delivery_queue[i]) : delivery_queue'[i][x] = delivery_queue[i][x]
      /\ \A x \in 1 .. d - last : delivery_queue'[i][Len(delivery_queue[i]) + x] = news(d)[x]
  <2> DEFINE B == {news(d)[x] : x \in 1 .. d - last}
             A == Delivery \cup B
             s == delivery_queue[i]
             u == news(d)
  <2>1. s \in Seq(Delivery) /\ u \in Seq(B) /\ delivery_queue'[i] = s \o u /\ Len(u) = d - last
    BY <1>6, <1>7
  <2> HIDE DEF s, u, B
  <2>2. s \in Seq(A) /\ u \in Seq(A)
    BY <2>1, SeqMonotonic
  <2> HIDE DEF A
  <2>3. /\ Len(s \o u) = Len(s) + Len(u)
        /\ \A x \in 1 .. Len(s) : (s \o u)[x] = s[x]
        /\ \A x \in 1 .. Len(u) : (s \o u)[Len(s) + x] = u[x]
    BY <2>2, ConcatFacts
  <2> QED BY <2>1, <2>3 DEF s, u
<1>9. \A x \in 1 .. d - last :
         news(d)[x] = [id |-> SeqToRequest(svcs, last + x),
                       pending |-> SeqToRequest(svcs, last + x) \in pending_responses[i]]
  OBVIOUS
<1> QED BY <1>1, <1>2, <1>3, <1>4, <1>5, <1>8, <1>9 DEF Delivered

\* new is received_service_msgs[i] once _try_sequence is through
Settled(i, pending, svcs, heard, out, new) ==
    /\ received_service_msgs' = [received_service_msgs EXCEPT ![i] = new]
    /\ TryDeliver(i, pending, new, heard)
    /\ svcs \subseteq new
    /\ \A m \in new \ svcs :
          m.type = "service" /\ m.sender = i /\ m.md = last_delivered_seq[i]
    /\ new = svcs \/ \E m \in new : new = svcs \cup {m} /\ m.id \in pending
    /\ \A p \in net' : p \in out \/ p.msg \in new

LEMMA SettleFacts ==
    ASSUME TypeOK, NEW i \in Node, NEW reqs \in Seq(RequestMessages),
           NEW pending \in SUBSET RequestId, NEW svcs \in SUBSET ServiceMessages,
           NEW sequenced \in SUBSET RequestId, NEW heard \in [Node -> SeqNo],
           NEW out \in SUBSET Packets,
           TrySequenceAndDeliver(i, reqs, pending, svcs, sequenced, heard, out)
    PROVE  \E new \in SUBSET ServiceMessages : Settled(i, pending, svcs, heard, out, new)
<1>1. CASE \E r \in Choices(i, reqs, pending, svcs, sequenced) :
             LET m == ServiceMessage(r, next_seq_to_assign[i], i, Claimed(i, next_seq_to_assign[i]))
             IN  /\ received_service_msgs' = [received_service_msgs EXCEPT ![i] = svcs \cup {m}]
                 /\ net' = out \cup Broadcast(m)
                 /\ TryDeliver(i, pending, svcs \cup {m}, heard)
  <2>1. PICK r \in Choices(i, reqs, pending, svcs, sequenced) :
             LET m == ServiceMessage(r, next_seq_to_assign[i], i, Claimed(i, next_seq_to_assign[i]))
             IN  /\ received_service_msgs' = [received_service_msgs EXCEPT ![i] = svcs \cup {m}]
                 /\ net' = out \cup Broadcast(m)
                 /\ TryDeliver(i, pending, svcs \cup {m}, heard)
    BY <1>1
  <2> DEFINE m == ServiceMessage(r, next_seq_to_assign[i], i, Claimed(i, next_seq_to_assign[i]))
  <2>2. /\ m \in ServiceMessages /\ m.type = "service" /\ m.sender = i
        /\ m.md = last_delivered_seq[i] /\ m.id \in pending
    BY ChoiceFacts DEF ServiceMessage, ServiceMessages, Claimed, TypeOK
  <2>3. received_service_msgs' = [received_service_msgs EXCEPT ![i] = svcs \cup {m}]
    BY <2>1
  <2>4. net' = out \cup Broadcast(m) /\ TryDeliver(i, pending, svcs \cup {m}, heard)
    BY <2>1
  <2> HIDE DEF m
  <2>5. \A p \in net' : p \in out \/ p.msg = m
    BY <2>4 DEF Broadcast, Packet
  <2>6. Settled(i, pending, svcs, heard, out, svcs \cup {m})
    BY <2>2, <2>3, <2>4, <2>5 DEF Settled
  <2> QED BY <2>2, <2>6
<1>2. CASE /\ received_service_msgs' = [received_service_msgs EXCEPT ![i] = svcs]
           /\ net' = out
           /\ TryDeliver(i, pending, svcs, heard)
  <2>1. Settled(i, pending, svcs, heard, out, svcs)
    BY <1>2 DEF Settled
  <2> QED BY <2>1
<1> QED BY <1>1, <1>2 DEF TrySequenceAndDeliver

(***************************************************************************)
(* What messages claim of their sender's progress stays true: progress     *)
(* never goes back.  L stands for last_delivered_seq.                      *)
(***************************************************************************)
HonestFor(m, L) ==
    /\ m.type = "request" => m.md <= L[m.id[1]]
    /\ m.type = "service" => m.md <= L[m.sender]

ClaimInv ==
    /\ \A p \in net : HonestFor(p.msg, last_delivered_seq)
    /\ \A i \in Node : \A x \in 1 .. Len(all_requests[i]) :
          HonestFor(all_requests[i][x], last_delivered_seq)
    /\ \A i \in Node : \A m \in received_service_msgs[i] : HonestFor(m, last_delivered_seq)
    /\ \A r \in RequestId : handler[r].md <= last_delivered_seq[r[1]]

ProgressInv == ClaimInv /\ HeardIsTrue /\ MajorityOneBehind

LEMMA HonestGrows ==
    ASSUME TypeOK, NEW m \in Messages, NEW L \in [Node -> SeqNo], NEW LL \in [Node -> SeqNo],
           \A j \in Node : L[j] <= LL[j], HonestFor(m, L)
    PROVE  HonestFor(m, LL)
<1>1. CASE m.type = "request"
  <2>1. m.md \in SeqNo /\ m.id[1] \in Node
    BY <1>1, HandlerTypes
  <2>2. m.md <= L[m.id[1]] /\ L[m.id[1]] \in SeqNo /\ LL[m.id[1]] \in SeqNo
    BY <1>1, <2>1 DEF HonestFor
  <2> QED BY <1>1, <2>1, <2>2 DEF HonestFor, SeqNo
<1>2. CASE m.type = "service"
  <2>1. m.md \in SeqNo /\ m.sender \in Node
    BY <1>2, HandlerTypes
  <2>2. m.md <= L[m.sender] /\ L[m.sender] \in SeqNo /\ LL[m.sender] \in SeqNo
    BY <1>2, <2>1 DEF HonestFor
  <2> QED BY <1>2, <2>1, <2>2 DEF HonestFor, SeqNo
<1> QED BY <1>1, <1>2 DEF HonestFor

\* the two halves of a message handler, seen from what the nodes have delivered
LEMMA SettleProgress ==
    ASSUME TypeOK, MajorityOneBehind, NEW i \in Node, NEW reqs \in Seq(RequestMessages),
           NEW pending \in SUBSET RequestId, NEW svcs \in SUBSET ServiceMessages,
           NEW sequenced \in SUBSET RequestId, NEW heard \in [Node -> SeqNo],
           NEW out \in SUBSET Packets,
           TrySequenceAndDeliver(i, reqs, pending, svcs, sequenced, heard, out),
           heard[i] = last_delivered_seq[i],
           \A j \in Node : heard[j] <= last_delivered_seq[j],
           HeardIsTrue,
           \A m \in svcs : HonestFor(m, last_delivered_seq)
    PROVE  /\ last_delivered_seq' \in [Node -> SeqNo]
           /\ \A j \in Node : last_delivered_seq[j] <= last_delivered_seq'[j]
           /\ \A m \in received_service_msgs'[i] : HonestFor(m, last_delivered_seq')
           /\ \A j \in Node \ {i} : received_service_msgs'[j] = received_service_msgs[j]
           /\ \A p \in net' : p \in out \/ p.msg \in received_service_msgs'[i]
           /\ HeardIsTrue'
           /\ MajorityOneBehind'
<1> DEFINE L == last_delivered_seq
           LL == last_delivered_seq'
           d == LL[i]
<1>1. PICK new \in SUBSET ServiceMessages : Settled(i, pending, svcs, heard, out, new)
  BY SettleFacts
<1>2. /\ L[i] \in SeqNo /\ d \in SeqNo /\ L[i] <= d
      /\ LL = [L EXCEPT ![i] = d]
      /\ \A gs \in L[i] + 1 .. d : Deliverable(i, gs, pending, new, heard)
      /\ node_last_delivered' = [node_last_delivered EXCEPT ![i] =
             IF d > L[i] THEN [heard EXCEPT ![i] = d] ELSE heard]
  <2>1. Delivered(i, pending, new, heard)
    BY <1>1, DeliverFacts DEF Settled
  <2> QED BY <2>1 DEF Delivered
<1>3. L \in [Node -> SeqNo]
  BY DEF TypeOK
<1> HIDE DEF d
<1>4. /\ LL \in [Node -> SeqNo] /\ LL[i] = d
      /\ \A j \in Node \ {i} : LL[j] = L[j]
      /\ \A j \in Node : L[j] <= LL[j] /\ L[j] \in SeqNo /\ LL[j] \in SeqNo
  <2>1. LL \in [Node -> SeqNo] /\ LL[i] = d /\ \A j \in Node \ {i} : LL[j] = L[j]
    BY <1>2, <1>3
  <2>2. \A j \in Node \ {i} : L[j] <= LL[j]
    BY <1>3, <2>1 DEF SeqNo
  <2> QED BY <1>2, <1>3, <2>1, <2>2
<1> HIDE DEF L, LL
<1>5. \A m \in new : HonestFor(m, LL)
  <2> SUFFICES ASSUME NEW m \in new PROVE HonestFor(m, LL)
    OBVIOUS
  <2>1. CASE m \in svcs
    <3>1. m \in Messages
      BY <2>1 DEF Messages
    <3> QED BY <1>3, <1>4, <2>1, <3>1, HonestGrows DEF L
  <2>2. CASE m \notin svcs
    <3>1. m.type = "service" /\ m.sender = i /\ m.md = L[i]
      BY <1>1, <2>2 DEF L, Settled
    <3> QED BY <1>2, <1>4, <3>1 DEF HonestFor
  <2> QED BY <2>1, <2>2
<1>6. HeardIsTrue'
  <2> DEFINE hh == IF d > L[i] THEN [heard EXCEPT ![i] = d] ELSE heard
  <2>1. hh[i] = d /\ \A k \in Node \ {i} : hh[k] = heard[k]
    BY <1>2 DEF SeqNo, L
  <2>2. \A k \in Node : hh[k] <= LL[k]
    <3>1. \A k \in Node \ {i} : hh[k] <= LL[k]
      BY <1>4, <2>1 DEF L
    <3> QED BY <1>2, <1>4, <2>1, <3>1 DEF SeqNo
  <2>3. node_last_delivered' = [node_last_delivered EXCEPT ![i] = hh]
    BY <1>2
  <2> HIDE DEF hh
  <2>4. /\ node_last_delivered'[i] = hh
        /\ \A j \in Node \ {i} : node_last_delivered'[j] = node_last_delivered[j]
    BY <2>3 DEF TypeOK
  <2>5. \A j \in Node \ {i} : \A k \in Node : node_last_delivered'[j][k] <= LL[k]
    <3> SUFFICES ASSUME NEW j \in Node \ {i}, NEW k \in Node
                 PROVE  node_last_delivered[j][k] <= LL[k]
      BY <2>4
    <3>1. node_last_delivered[j][k] \in SeqNo /\ node_last_delivered[j][k] <= L[k]
      BY DEF TypeOK, L, HeardIsTrue
    <3> QED BY <1>4, <3>1 DEF SeqNo
  <2>6. \A j \in Node : node_last_delivered'[j][j] = LL[j]
    BY <1>4, <2>1, <2>4 DEF L, HeardIsTrue
  <2>7. \A j, k \in Node : node_last_delivered'[j][k] <= LL[k]
    BY <2>2, <2>4, <2>5
  <2> QED BY <2>6, <2>7 DEF HeardIsTrue, LL
<1>7. MajorityOneBehind'
  <2> DEFINE behind(j) == {k \in Node : LL[k] >= LL[j] - 1}
  <2> SUFFICES ASSUME NEW j \in Node, LL[j] >= 0 PROVE Cardinality(behind(j)) >= Majority
    BY DEF MajorityOneBehind, LL
  <2>1. Majority \in Nat
    BY NAssumption DEF Majority
  <2>2. CASE LL[j] = L[j]
    <3> DEFINE before == {k \in Node : L[k] >= L[j] - 1}
    <3>1. Cardinality(before) >= Majority
      BY <2>2 DEF MajorityOneBehind, L
    <3>2. before \subseteq behind(j) /\ behind(j) \subseteq Node
      BY <1>4, <2>2 DEF SeqNo
    <3> HIDE DEF before, behind
    <3>3. Cardinality(before) \in Nat /\ Cardinality(behind(j)) \in Nat
          /\ Cardinality(before) <= Cardinality(behind(j))
      BY <3>2, CardinalityGrows
    <3> QED BY <2>1, <3>1, <3>3
  <2>3. CASE LL[j] # L[j]
    <3> DEFINE counted == {k \in Node : [heard EXCEPT ![i] = d - 1][k] >= d - 1}
    <3>1. j = i /\ LL[j] = d /\ d \in L[i] + 1 .. d
      BY <1>2, <1>4, <2>3 DEF SeqNo
    <3>2. Cardinality(counted) >= Majority
      BY <1>2, <3>1 DEF Deliverable, MajorityConfirmed
    <3>3. counted \subseteq behind(j) /\ behind(j) \subseteq Node
      <4> SUFFICES ASSUME NEW k \in counted PROVE k \in behind(j)
        OBVIOUS
      <4>1. CASE k = i
        BY <1>2, <1>4, <3>1, <4>1 DEF SeqNo
      <4>2. CASE k # i
        <5>1. heard[k] >= d - 1 /\ heard[k] <= LL[k] /\ heard[k] \in SeqNo
          BY <1>4, <4>2 DEF L
        <5> QED BY <1>2, <1>4, <3>1, <5>1 DEF SeqNo
      <4> QED BY <4>1, <4>2
    <3> HIDE DEF counted, behind
    <3>4. Cardinality(counted) \in Nat /\ Cardinality(behind(j)) \in Nat
          /\ Cardinality(counted) <= Cardinality(behind(j))
      BY <3>3, CardinalityGrows
    <3> QED BY <2>1, <3>2, <3>4
  <2> QED BY <2>2, <2>3
<1>8. /\ received_service_msgs'[i] = new
      /\ \A j \in Node \ {i} : received_service_msgs'[j] = received_service_msgs[j]
      /\ \A p \in net' : p \in out \/ p.msg \in new
  BY <1>1 DEF TypeOK, Settled
<1> QED BY <1>4, <1>5, <1>6, <1>7, <1>8 DEF L, LL

\* steps that deliver nothing and store nothing
LEMMA QuietProgress ==
    ASSUME TypeOK, ProgressInv,
           UNCHANGED <<logVars, last_delivered_seq, node_last_delivered>>,
           \A p \in net' : HonestFor(p.msg, last_delivered_seq),
           \A r \in RequestId : handler'[r].md <= last_delivered_seq[r[1]]
    PROVE  ProgressInv'
<1>1. ClaimInv'
  <2>1. UNCHANGED <<all_requests, received_service_msgs, last_delivered_seq>>
    BY DEF logVars
  <2>2. \A p \in net' : HonestFor(p.msg, last_delivered_seq')
    BY <2>1
  <2>3. \A i \in Node : \A x \in 1 .. Len(all_requests'[i]) :
           HonestFor(all_requests'[i][x], last_delivered_seq')
    BY <2>1 DEF ProgressInv, ClaimInv
  <2>4. \A i \in Node : \A m \in received_service_msgs'[i] : HonestFor(m, last_delivered_seq')
    BY <2>1 DEF ProgressInv, ClaimInv
  <2>5. \A r \in RequestId : handler'[r].md <= last_delivered_seq'[r[1]]
    BY <2>1
  <2> QED BY <2>2, <2>3, <2>4, <2>5 DEF ClaimInv
<1>2. HeardIsTrue' /\ MajorityOneBehind'
  BY DEF ProgressInv, HeardIsTrue, MajorityOneBehind, Majority
<1> QED BY <1>1, <1>2 DEF ProgressInv

LEMMA MissingSeqsType ==
    ASSUME TypeOK, NEW i \in Node, NEW gs \in Nat, NEW svcs
    PROVE  MissingSeqs(i, gs, svcs) \subseteq Packets
<1>1. last_delivered_seq[i] \in SeqNo
  BY DEF TypeOK
<1>2. \A g \in last_delivered_seq[i] + 1 .. gs - 1 : g \in Nat /\ g % N \in Node
  BY <1>1, NAssumption DEF SeqNo, Node
<1>3. \A g \in last_delivered_seq[i] + 1 .. gs - 1 : Packet(g % N, RetransmitService(g)) \in Packets
  BY <1>2 DEF Packets, Packet, Messages, RetransmitMessages, RetransmitService
<1> SUFFICES ASSUME NEW x \in MissingSeqs(i, gs, svcs) PROVE x \in Packets
  OBVIOUS
<1>4. PICK g \in last_delivered_seq[i] + 1 .. gs - 1 : x = Packet(g % N, RetransmitService(g))
  BY DEF MissingSeqs
<1> QED BY <1>3, <1>4

LEMMA NackHonest ==
    ASSUME NEW i, NEW r, NEW gs, NEW svcs, NEW known, NEW sequenced
    PROVE  \A x \in MissingRequests(r, known, sequenced) \cup MissingSeqs(i, gs, svcs) :
              HonestFor(x.msg, last_delivered_seq)
<1>1. \A l : Packet(r[1], RetransmitRequest(<<r[1], l>>)).msg.type = "retransmit_request"
  BY DEF Packet, RetransmitRequest
<1>2. \A g : Packet(g % N, RetransmitService(g)).msg.type = "retransmit_service"
  BY DEF Packet, RetransmitService
<1>3. \A x \in MissingRequests(r, known, sequenced) : x.msg.type = "retransmit_request"
  BY <1>1 DEF MissingRequests
<1>4. \A x \in MissingSeqs(i, gs, svcs) : x.msg.type = "retransmit_service"
  BY <1>2 DEF MissingSeqs
<1> QED BY <1>3, <1>4 DEF HonestFor

\* a message the receiver takes in tells the truth, and so does everything it
\* keeps or sends, before and after what it delivers
LEMMA HandledProgress ==
    ASSUME TypeOK, ProgressInv, NEW i \in Node, NEW reqs \in Seq(RequestMessages),
           NEW pending \in SUBSET RequestId, NEW svcs \in SUBSET ServiceMessages,
           NEW sequenced \in SUBSET RequestId, NEW j \in Node, NEW md \in SeqNo,
           NEW out \in SUBSET Packets,
           TrySequenceAndDeliver(i, reqs, pending, svcs, sequenced,
               [node_last_delivered[i] EXCEPT ![j] = Later(@, md)], out),
           TypeOK',
           md <= last_delivered_seq[j],
           \A m \in svcs : HonestFor(m, last_delivered_seq),
           \A p \in out : HonestFor(p.msg, last_delivered_seq),
           \A k \in Node : \A x \in 1 .. Len(all_requests'[k]) :
               HonestFor(all_requests'[k][x], last_delivered_seq),
           UNCHANGED handler
    PROVE  ProgressInv'
<1> DEFINE heard == [node_last_delivered[i] EXCEPT ![j] = Later(@, md)]
           L == last_delivered_seq
           LL == last_delivered_seq'
<1>1. node_last_delivered[i] \in [Node -> SeqNo] /\ heard \in [Node -> SeqNo]
  BY HeardType DEF TypeOK
<1>2. /\ node_last_delivered[i][i] = L[i]
      /\ \A k \in Node : node_last_delivered[i][k] <= L[k] /\ L[k] \in SeqNo
  BY DEF ProgressInv, HeardIsTrue, TypeOK
<1>3. heard[i] = L[i] /\ \A k \in Node : heard[k] <= L[k]
  <2>1. heard[j] \in {node_last_delivered[i][j], md}
    BY <1>1, LaterType
  <2>2. \A k \in Node \ {j} : heard[k] = node_last_delivered[i][k]
    BY <1>1
  <2>3. heard[j] <= L[j]
    BY <1>2, <2>1
  <2>4. j = i => heard[j] = L[j]
    BY <1>1, <1>2 DEF Later, SeqNo
  <2> HIDE DEF heard
  <2> QED BY <1>2, <2>2, <2>3, <2>4
<1>4. TrySequenceAndDeliver(i, reqs, pending, svcs, sequenced, heard, out)
  OBVIOUS
<1>5. HeardIsTrue /\ MajorityOneBehind
  BY DEF ProgressInv
<1> HIDE DEF heard
<1>6. /\ LL \in [Node -> SeqNo]
      /\ \A k \in Node : L[k] <= LL[k]
      /\ \A m \in received_service_msgs'[i] : HonestFor(m, LL)
      /\ \A k \in Node \ {i} : received_service_msgs'[k] = received_service_msgs[k]
      /\ \A p \in net' : p \in out \/ p.msg \in received_service_msgs'[i]
      /\ HeardIsTrue'
      /\ MajorityOneBehind'
  BY <1>1, <1>3, <1>4, <1>5, SettleProgress
<1>7. L \in [Node -> SeqNo]
  BY DEF TypeOK
<1>8. \A m \in Messages : HonestFor(m, L) => HonestFor(m, LL)
  BY <1>6, <1>7, HonestGrows
<1>9. \A p \in net' : HonestFor(p.msg, LL)
  <2>1. \A p \in out : p.msg \in Messages
    BY DEF Packets
  <2> QED BY <1>6, <1>8, <2>1
<1>10. \A k \in Node : \A x \in 1 .. Len(all_requests'[k]) : HonestFor(all_requests'[k][x], LL)
  <2>1. \A k \in Node : all_requests'[k] \in Seq(RequestMessages)
    BY DEF TypeOK
  <2>2. \A k \in Node : \A x \in 1 .. Len(all_requests'[k]) : all_requests'[k][x] \in Messages
    <3>1. \A k \in Node : \A x \in 1 .. Len(all_requests'[k]) :
             all_requests'[k][x] \in RequestMessages
      BY <2>1
    <3> QED BY <3>1 DEF Messages
  <2> QED BY <1>8, <2>2
<1>11. \A k \in Node : \A m \in received_service_msgs'[k] : HonestFor(m, LL)
  <2>1. \A k \in Node \ {i} : \A m \in received_service_msgs[k] :
           m \in Messages /\ HonestFor(m, L)
    BY DEF ProgressInv, ClaimInv, TypeOK, Messages
  <2> QED BY <1>6, <1>8, <2>1
<1>12. \A r \in RequestId : handler'[r].md <= LL[r[1]]
  <2> SUFFICES ASSUME NEW r \in RequestId PROVE handler[r].md <= LL[r[1]]
    OBVIOUS
  <2>1. r[1] \in Node
    BY HandlerTypes
  <2>2. handler[r].md \in SeqNo /\ handler[r].md <= L[r[1]]
    BY DEF ProgressInv, ClaimInv, TypeOK
  <2>3. L[r[1]] \in SeqNo /\ LL[r[1]] \in SeqNo /\ L[r[1]] <= LL[r[1]]
    BY <1>6, <1>7, <2>1
  <2> QED BY <2>2, <2>3 DEF SeqNo
<1>13. ClaimInv'
  BY <1>9, <1>10, <1>11, <1>12 DEF ClaimInv
<1> QED BY <1>6, <1>13 DEF ProgressInv

LEMMA RequestProgress ==
    ASSUME TypeOK, TypeOK', ProgressInv, NEW p \in net, OnRequestMessage(p), ~ Ignore(p)
    PROVE  ProgressInv'
<1> DEFINE i == p.to
           m == p.msg
           reqs == Append(all_requests[i], m)
           sequenced == BackFilled(i, m.id)
           nacks == MissingRequests(m.id, Ids(reqs), sequenced)
           out == (net \ {p}) \cup nacks
<1>1. /\ i \in Node /\ m \in RequestMessages /\ m.id \in RequestId /\ m.md \in SeqNo
      /\ m.id[1] \in Node /\ m.type = "request"
  BY HandlerTypes DEF OnRequestMessage
<1>2. /\ all_requests' = [all_requests EXCEPT ![i] = reqs]
      /\ TrySequenceAndDeliver(i, reqs, pending_requests[i] \cup {m.id},
             received_service_msgs[i], sequenced,
             [node_last_delivered[i] EXCEPT ![m.id[1]] = Later(@, m.md)], out)
      /\ UNCHANGED handler
  BY DEF OnRequestMessage, rpcVars
<1>3. HonestFor(m, last_delivered_seq) /\ m.md <= last_delivered_seq[m.id[1]]
  BY <1>1 DEF ProgressInv, ClaimInv, HonestFor
<1>4. /\ all_requests[i] \in Seq(RequestMessages) /\ reqs \in Seq(RequestMessages)
      /\ pending_requests[i] \cup {m.id} \in SUBSET RequestId
      /\ received_service_msgs[i] \in SUBSET ServiceMessages
      /\ sequenced \in SUBSET RequestId
  <2>1. all_requests[i] \in Seq(RequestMessages) /\ pending_requests[i] \in SUBSET RequestId
    BY <1>1 DEF TypeOK
  <2>2. reqs \in Seq(RequestMessages)
    <3> HIDE DEF i, m
    <3> QED BY <1>1, <2>1
  <2>3. sequenced \in SUBSET RequestId /\ received_service_msgs[i] \in SUBSET ServiceMessages
    BY <1>1 DEF TypeOK, BackFilled
  <2> HIDE DEF reqs, sequenced
  <2> QED BY <1>1, <2>1, <2>2, <2>3
<1>5. out \in SUBSET Packets
  BY <1>1, MissingRequestsType DEF TypeOK
<1>6. \A q \in out : HonestFor(q.msg, last_delivered_seq)
  <2>1. \A q \in nacks : HonestFor(q.msg, last_delivered_seq)
    BY NackHonest
  <2> QED BY <2>1 DEF ProgressInv, ClaimInv
<1>7. \A k \in Node : \A x \in 1 .. Len(all_requests'[k]) :
         HonestFor(all_requests'[k][x], last_delivered_seq)
  <2>1. all_requests'[i] = reqs /\ \A k \in Node \ {i} : all_requests'[k] = all_requests[k]
    BY <1>1, <1>2 DEF TypeOK
  <2>2. \A x \in 1 .. Len(reqs) : HonestFor(reqs[x], last_delivered_seq)
    <3>1. \A x \in 1 .. Len(reqs) :
             reqs[x] = m \/ (x \in 1 .. Len(all_requests[i]) /\ reqs[x] = all_requests[i][x])
      <4> DEFINE s == all_requests[i]
      <4>1. s \in Seq(RequestMessages) /\ m \in RequestMessages
        BY <1>1, <1>4
      <4> HIDE DEF s, m
      <4> QED BY <4>1
    <3>2. \A x \in 1 .. Len(all_requests[i]) : HonestFor(all_requests[i][x], last_delivered_seq)
      BY <1>1 DEF ProgressInv, ClaimInv
    <3> HIDE DEF reqs, m
    <3> QED BY <1>3, <3>1, <3>2
  <2> QED BY <2>1, <2>2 DEF ProgressInv, ClaimInv
<1>8. \A q \in received_service_msgs[i] : HonestFor(q, last_delivered_seq)
  BY <1>1 DEF ProgressInv, ClaimInv
<1> HIDE DEF i, m, reqs, sequenced, nacks, out
<1> QED BY <1>1, <1>2, <1>3, <1>4, <1>5, <1>6, <1>7, <1>8, HandledProgress

LEMMA ServiceProgress ==
    ASSUME TypeOK, TypeOK', ProgressInv, NEW p \in net, OnServiceMessage(p), ~ Ignore(p)
    PROVE  ProgressInv'
<1> DEFINE i == p.to
           m == p.msg
           svcs == received_service_msgs[i] \cup {m}
           sequenced == IF m.id \in Ids(all_requests[i])
                        THEN request_to_seq[i] \cup {m.id} ELSE request_to_seq[i]
           nacks == MissingSeqs(i, m.gs, svcs)
           out == (net \ {p}) \cup nacks
<1>1. /\ i \in Node /\ m \in ServiceMessages /\ m.id \in RequestId /\ m.md \in SeqNo
      /\ m.sender \in Node /\ m.gs \in Nat /\ m.type = "service"
  BY HandlerTypes DEF OnServiceMessage
<1>2. /\ TrySequenceAndDeliver(i, all_requests[i], pending_requests[i], svcs, sequenced,
             [node_last_delivered[i] EXCEPT ![m.sender] = Later(@, m.md)], out)
      /\ UNCHANGED <<handler, all_requests>>
  BY DEF OnServiceMessage, Reporter, rpcVars
<1>3. HonestFor(m, last_delivered_seq) /\ m.md <= last_delivered_seq[m.sender]
  BY <1>1 DEF ProgressInv, ClaimInv, HonestFor
<1>4. /\ all_requests[i] \in Seq(RequestMessages)
      /\ pending_requests[i] \in SUBSET RequestId
      /\ svcs \in SUBSET ServiceMessages
      /\ sequenced \in SUBSET RequestId
  BY <1>1 DEF TypeOK
<1>5. out \in SUBSET Packets
  <2>1. nacks \subseteq Packets
    BY <1>1, MissingSeqsType
  <2> QED BY <2>1 DEF TypeOK
<1>6. \A q \in out : HonestFor(q.msg, last_delivered_seq)
  <2>1. \A q \in nacks : HonestFor(q.msg, last_delivered_seq)
    BY NackHonest
  <2> QED BY <2>1 DEF ProgressInv, ClaimInv
<1>7. \A k \in Node : \A x \in 1 .. Len(all_requests'[k]) :
         HonestFor(all_requests'[k][x], last_delivered_seq)
  BY <1>2 DEF ProgressInv, ClaimInv
<1>8. \A q \in svcs : HonestFor(q, last_delivered_seq)
  BY <1>1, <1>3 DEF ProgressInv, ClaimInv
<1> HIDE DEF i, m, svcs, sequenced, nacks, out
<1> QED BY <1>1, <1>2, <1>3, <1>4, <1>5, <1>6, <1>7, <1>8, HandledProgress

LEMMA ReceiveProgress ==
    ASSUME TypeOK, TypeOK', ProgressInv, NEW p \in net, Receive(p)
    PROVE  ProgressInv'
<1>1. \A q \in net : HonestFor(q.msg, last_delivered_seq)
  BY DEF ProgressInv, ClaimInv
<1>2. \A r \in RequestId : handler[r].md <= last_delivered_seq[r[1]]
  BY DEF ProgressInv, ClaimInv
<1>3. p.to \in Node
  BY HandlerTypes
<1>4. CASE Ignore(p)
  BY <1>1, <1>2, <1>4, QuietProgress DEF Ignore, progressVars, rpcVars
<1>5. CASE OnRetransmitRequest(p)
  <2>1. \A x \in 1 .. Len(all_requests[p.to]) :
           HonestFor(all_requests[p.to][x], last_delivered_seq)
    BY <1>3 DEF ProgressInv, ClaimInv
  <2>2. \A q \in net' : HonestFor(q.msg, last_delivered_seq)
    BY <1>1, <1>5, <2>1 DEF OnRetransmitRequest, Resend, Broadcast, Packet
  <2> QED BY <1>2, <1>5, <2>2, QuietProgress
          DEF OnRetransmitRequest, Resend, progressVars, rpcVars
<1>6. CASE OnRetransmitSeq(p)
  <2>1. \A m \in received_service_msgs[p.to] : HonestFor(m, last_delivered_seq)
    BY <1>3 DEF ProgressInv, ClaimInv
  <2>2. \A q \in net' : HonestFor(q.msg, last_delivered_seq)
    BY <1>1, <1>6, <2>1 DEF OnRetransmitSeq, Resend, Broadcast, Packet
  <2> QED BY <1>2, <1>6, <2>2, QuietProgress
          DEF OnRetransmitSeq, Resend, progressVars, rpcVars
<1> QED BY <1>4, <1>5, <1>6, RequestProgress, ServiceProgress DEF Receive

LEMMA ProgressStep ==
    ASSUME TypeOK, TypeOK', ProgressInv, [Next]_vars
    PROVE  ProgressInv'
<1>1. /\ \A q \in net : HonestFor(q.msg, last_delivered_seq)
      /\ \A r \in RequestId : handler[r].md <= last_delivered_seq[r[1]]
  BY DEF ProgressInv, ClaimInv
<1>2. \A r \in RequestId :
         r[1] \in Node /\ last_delivered_seq[r[1]] \in SeqNo /\ handler[r].md \in SeqNo
  BY HandlerTypes DEF TypeOK
<1>3. CASE \E i \in Node : NextLocalSeq(i)
  <2>1. \A r \in RequestId : handler'[r].md <= last_delivered_seq[r[1]]
    BY <1>1, <1>3 DEF NextLocalSeq, TypeOK
  <2> QED BY <1>1, <1>3, <2>1, QuietProgress DEF NextLocalSeq, progressVars
<1>4. CASE \E r \in RequestId : HandlerStep(r)
  <2>1. PICK q \in RequestId : HandlerStep(q)
    BY <1>4
  <2>2. CASE BuildRequest(q)
    <3>1. last_delivered_seq[q[1]] <= last_delivered_seq[q[1]]
      BY <1>2 DEF SeqNo
    <3>2. \A r \in RequestId : handler'[r].md <= last_delivered_seq[r[1]]
      BY <1>1, <2>2, <3>1 DEF BuildRequest, TypeOK
    <3> QED BY <1>1, <2>2, <3>2, QuietProgress DEF BuildRequest, progressVars
  <2>3. CASE RegisterPendingResponse(q)
    <3>1. \A r \in RequestId : handler'[r].md <= last_delivered_seq[r[1]]
      BY <1>1, <2>3 DEF RegisterPendingResponse, TypeOK
    <3> QED BY <1>1, <2>3, <3>1, QuietProgress DEF RegisterPendingResponse, progressVars
  <2>4. CASE BroadcastRequest(q)
    <3>1. \A r \in RequestId : handler'[r].md <= last_delivered_seq[r[1]]
      BY <1>1, <2>4 DEF BroadcastRequest, TypeOK
    <3>2. HonestFor(RequestMessage(q, handler[q].md), last_delivered_seq)
      BY <1>1 DEF HonestFor, RequestMessage
    <3>3. \A p \in net' : HonestFor(p.msg, last_delivered_seq)
      BY <1>1, <2>4, <3>2 DEF BroadcastRequest, Broadcast, Packet
    <3> QED BY <2>4, <3>1, <3>3, QuietProgress DEF BroadcastRequest, progressVars
  <2> QED BY <2>1, <2>2, <2>3, <2>4 DEF HandlerStep
<1>5. CASE \E i \in Node : ReceiveAt(i)
  BY <1>5, ReceiveProgress DEF ReceiveAt
<1>6. CASE \E p \in net : Lose(p) \/ Duplicate(p)
  <2>1. \A q \in net' : HonestFor(q.msg, last_delivered_seq)
    BY <1>1, <1>6 DEF Lose, Duplicate
  <2> QED BY <1>1, <1>6, <2>1, QuietProgress DEF Lose, Duplicate, progressVars, rpcVars
<1>7. CASE UNCHANGED vars
  BY <1>1, <1>7, QuietProgress DEF vars, progressVars, rpcVars
<1> QED BY <1>3, <1>4, <1>5, <1>6, <1>7 DEF Next

LEMMA ProgressInit == Init => ProgressInv
<1> SUFFICES ASSUME Init PROVE ProgressInv
  OBVIOUS
<1>1. \A r \in RequestId : r[1] \in Node
  BY DEF RequestId
<1>2. ClaimInv
  BY <1>1 DEF Init, ClaimInv
<1> QED BY <1>2 DEF Init, ProgressInv, HeardIsTrue, MajorityOneBehind

LEMMA ProgressInvariant == Spec => [](TypeOK /\ ProgressInv)
<1>1. Init => TypeOK /\ ProgressInv
  BY InitType, ProgressInit
<1>2. TypeOK /\ ProgressInv /\ [Next]_vars => (TypeOK /\ ProgressInv)'
  BY TypeStep, ProgressStep
<1> QED BY <1>1, <1>2, PTL DEF Spec

\* What a node has heard of another's progress is never ahead of it.
THEOREM HeardNeverAhead == Spec => []HeardIsTrue
<1>1. ProgressInv => HeardIsTrue
  BY DEF ProgressInv
<1> QED BY <1>1, ProgressInvariant, PTL

\* A node that delivered s is at most one ahead of a majority of the group.
THEOREM MajorityClose == Spec => []MajorityOneBehind
<1>1. ProgressInv => MajorityOneBehind
  BY DEF ProgressInv
<1> QED BY <1>1, ProgressInvariant, PTL

------------------------------------------------------------------------------
(* The queues and the handlers.                                               *)

\* the requests in flight
Asked == {p.msg.id : p \in {x \in net : x.msg.type = "request"}}

\* A handler of node i took in a message, then sequenced and delivered what
\* it could: pending and new are its pending_requests and its service messages
\* between the two, heard its node_last_delivered.
Taken(i, pending, new, heard) ==
    /\ UNCHANGED rpcVars
    /\ received_service_msgs' = [received_service_msgs EXCEPT ![i] = new]
    /\ received_service_msgs[i] \subseteq new
    /\ Delivered(i, pending, new, heard)
    /\ \/ new \subseteq AllServiceMsgs \cup ServicesInFlight
       \/ \E m \in new : /\ new \subseteq AllServiceMsgs \cup ServicesInFlight \cup {m}
                          /\ m.id \in pending
    /\ pending \subseteq pending_requests[i] \cup Asked
    /\ \A k \in Node : Ids(all_requests'[k]) \subseteq Ids(all_requests[k]) \cup Asked
    /\ Asked' \subseteq Asked

TakenSomewhere ==
    \E i \in Node, pending \in SUBSET RequestId, new \in SUBSET ServiceMessages,
       heard \in [Node -> SeqNo] : Taken(i, pending, new, heard)

LEMMA NoNackAsks ==
    ASSUME NEW i, NEW r, NEW gs, NEW svcs, NEW known, NEW sequenced
    PROVE  \A x \in MissingRequests(r, known, sequenced) \cup MissingSeqs(i, gs, svcs) :
              x.msg.type # "request"
<1>1. \A l : Packet(r[1], RetransmitRequest(<<r[1], l>>)).msg.type # "request"
  BY DEF Packet, RetransmitRequest
<1>2. \A g : Packet(g % N, RetransmitService(g)).msg.type # "request"
  BY DEF Packet, RetransmitService
<1> QED BY <1>1, <1>2 DEF MissingRequests, MissingSeqs

LEMMA TakenRequest ==
    ASSUME TypeOK, NEW p \in net, OnRequestMessage(p), ~ Ignore(p)
    PROVE  TakenSomewhere
<1> DEFINE i == p.to
           m == p.msg
           reqs == Append(all_requests[i], m)
           sequenced == BackFilled(i, m.id)
           heard == [node_last_delivered[i] EXCEPT ![m.id[1]] = Later(@, m.md)]
           pending == pending_requests[i] \cup {m.id}
           svcs == received_service_msgs[i]
           nacks == MissingRequests(m.id, Ids(reqs), sequenced)
           out == (net \ {p}) \cup nacks
<1>1. /\ i \in Node /\ m \in RequestMessages /\ m.id \in RequestId /\ m.md \in SeqNo
      /\ m.id[1] \in Node /\ m.type = "request"
  BY HandlerTypes DEF OnRequestMessage
<1>2. /\ all_requests' = [all_requests EXCEPT ![i] = reqs]
      /\ TrySequenceAndDeliver(i, reqs, pending, svcs, sequenced, heard, out)
      /\ UNCHANGED rpcVars
  BY DEF OnRequestMessage, rpcVars
<1>3. all_requests[i] \in Seq(RequestMessages) /\ pending_requests[i] \in SUBSET RequestId
  BY <1>1 DEF TypeOK
<1>4. reqs \in Seq(RequestMessages) /\ Ids(reqs) = Ids(all_requests[i]) \cup {m.id}
  <2> HIDE DEF i, m
  <2> QED BY <1>1, <1>3, IdsAppend
<1>5. pending \in SUBSET RequestId /\ sequenced \in SUBSET RequestId /\ svcs \in SUBSET ServiceMessages
  BY <1>1, <1>3 DEF TypeOK, BackFilled
<1>6. heard \in [Node -> SeqNo]
  BY <1>1, HeardType DEF TypeOK
<1>7. out \in SUBSET Packets
  BY <1>1, MissingRequestsType DEF TypeOK
<1>8. m.id \in Asked
  BY <1>1 DEF Asked
<1>9. \A q \in out : q \in net \/ q.msg.type # "request"
  <2>1. \A q \in nacks : q.msg.type # "request"
    BY NoNackAsks
  <2> QED BY <2>1
<1>10. \A k \in Node : Ids(all_requests'[k]) \subseteq Ids(all_requests[k]) \cup Asked
  BY <1>1, <1>2, <1>4, <1>8 DEF TypeOK
<1> HIDE DEF i, m, reqs, sequenced, heard, pending, svcs, nacks, out
<1>11. PICK new \in SUBSET ServiceMessages : Settled(i, pending, svcs, heard, out, new)
  BY <1>1, <1>2, <1>4, <1>5, <1>6, <1>7, SettleFacts
<1>12. Delivered(i, pending, new, heard)
  BY <1>1, <1>5, <1>6, <1>11, DeliverFacts DEF Settled
<1>13. Asked' \subseteq Asked
  <2>1. \A q \in new : q.type # "request"
    BY DEF ServiceMessages
  <2>2. \A q \in net' : q \in out \/ q.msg \in new
    BY <1>11 DEF Settled
  <2> QED BY <1>9, <2>1, <2>2 DEF Asked
<1>14. svcs \subseteq AllServiceMsgs \cup ServicesInFlight
  BY <1>1 DEF svcs, AllServiceMsgs
<1>15. Taken(i, pending, new, heard)
  BY <1>2, <1>8, <1>10, <1>11, <1>12, <1>13, <1>14 DEF Taken, Settled, pending, svcs
<1> QED BY <1>1, <1>5, <1>6, <1>15 DEF TakenSomewhere

LEMMA TakenService ==
    ASSUME TypeOK, NEW p \in net, OnServiceMessage(p), ~ Ignore(p)
    PROVE  TakenSomewhere
<1> DEFINE i == p.to
           m == p.msg
           svcs == received_service_msgs[i] \cup {m}
           sequenced == IF m.id \in Ids(all_requests[i])
                        THEN request_to_seq[i] \cup {m.id} ELSE request_to_seq[i]
           heard == [node_last_delivered[i] EXCEPT ![m.sender] = Later(@, m.md)]
           pending == pending_requests[i]
           nacks == MissingSeqs(i, m.gs, svcs)
           out == (net \ {p}) \cup nacks
<1>1. /\ i \in Node /\ m \in ServiceMessages /\ m.id \in RequestId /\ m.md \in SeqNo
      /\ m.sender \in Node /\ m.gs \in Nat
  BY HandlerTypes DEF OnServiceMessage
<1>2. /\ TrySequenceAndDeliver(i, all_requests[i], pending, svcs, sequenced, heard, out)
      /\ UNCHANGED rpcVars
      /\ UNCHANGED all_requests
  BY DEF OnServiceMessage, Reporter, rpcVars
<1>3. /\ all_requests[i] \in Seq(RequestMessages)
      /\ pending \in SUBSET RequestId
      /\ svcs \in SUBSET ServiceMessages
      /\ sequenced \in SUBSET RequestId
  BY <1>1 DEF TypeOK
<1>4. heard \in [Node -> SeqNo]
  BY <1>1, HeardType DEF TypeOK
<1>5. out \in SUBSET Packets
  <2>1. nacks \subseteq Packets
    BY <1>1, MissingSeqsType
  <2> QED BY <2>1 DEF TypeOK
<1>6. \A q \in out : q \in net \/ q.msg.type # "request"
  <2>1. \A q \in nacks : q.msg.type # "request"
    BY NoNackAsks
  <2> QED BY <2>1
<1> HIDE DEF i, m, svcs, sequenced, heard, pending, nacks, out
<1>7. PICK new \in SUBSET ServiceMessages : Settled(i, pending, svcs, heard, out, new)
  BY <1>1, <1>2, <1>3, <1>4, <1>5, SettleFacts
<1>8. Delivered(i, pending, new, heard)
  BY <1>1, <1>3, <1>4, <1>7, DeliverFacts DEF Settled
<1>9. Asked' \subseteq Asked
  <2>1. \A q \in new : q.type # "request"
    BY DEF ServiceMessages
  <2>2. \A q \in net' : q \in out \/ q.msg \in new
    BY <1>7 DEF Settled
  <2> QED BY <1>6, <2>1, <2>2 DEF Asked
<1>10. svcs \subseteq AllServiceMsgs \cup ServicesInFlight
  BY <1>1 DEF svcs, i, m, AllServiceMsgs, ServicesInFlight
<1>11. Taken(i, pending, new, heard)
  BY <1>2, <1>7, <1>8, <1>9, <1>10 DEF Taken, Settled, pending, svcs
<1> QED BY <1>1, <1>3, <1>4, <1>11 DEF TakenSomewhere

\* every step is that of a handler that took in a message, or leaves alone the
\* service messages and the delivery queues and sends on requests that some
\* node has
Aside ==
    /\ UNCHANGED <<all_requests, received_service_msgs, last_delivered_seq, delivery_queue>>
    /\ UNCHANGED rpcVars /\ UNCHANGED pending_responses
    /\ \A r \in Asked' : r \in Asked \/ \E i \in Node : r \in Ids(all_requests[i])

LEMMA ReceiveShape ==
    ASSUME TypeOK, NEW p \in net, Receive(p)
    PROVE  TakenSomewhere \/ Aside
<1>1. p.to \in Node
  BY HandlerTypes
<1>2. CASE Ignore(p)
  <2>1. Asked' \subseteq Asked
    BY <1>2 DEF Ignore, Asked
  <2> QED BY <1>2, <2>1 DEF Ignore, Aside, logVars, progressVars
<1>3. CASE OnRetransmitRequest(p)
  <2>1. \A q \in net' : q \in net \/ \E x \in 1 .. Len(all_requests[p.to]) : q.msg = all_requests[p.to][x]
    BY <1>3 DEF OnRetransmitRequest, Resend, Broadcast, Packet
  <2>2. \A r \in Asked' : r \in Asked \/ r \in Ids(all_requests[p.to])
    BY <2>1 DEF Asked, Ids
  <2> QED BY <1>1, <1>3, <2>2 DEF OnRetransmitRequest, Resend, Aside, logVars, progressVars
<1>4. CASE OnRetransmitSeq(p)
  <2>1. \A q \in net' : q \in net \/ q.msg \in received_service_msgs[p.to]
    BY <1>4 DEF OnRetransmitSeq, Resend, Broadcast, Packet
  <2>2. \A m \in received_service_msgs[p.to] : m.type # "request"
    BY <1>1 DEF TypeOK, ServiceMessages
  <2>3. Asked' \subseteq Asked
    BY <2>1, <2>2 DEF Asked
  <2> QED BY <1>4, <2>3 DEF OnRetransmitSeq, Resend, Aside, logVars, progressVars
<1> QED BY <1>2, <1>3, <1>4, TakenRequest, TakenService DEF Receive

LEMMA StepShape ==
    ASSUME TypeOK, [Next]_vars
    PROVE  \/ \E i \in Node : NextLocalSeq(i)
           \/ \E r \in RequestId : HandlerStep(r)
           \/ TakenSomewhere
           \/ Aside
<1>1. CASE \E i \in Node : ReceiveAt(i)
  BY <1>1, ReceiveShape DEF ReceiveAt
<1>2. CASE \E p \in net : Lose(p) \/ Duplicate(p)
  <2>1. \A q \in net' : \E p \in net : q.msg = p.msg
    BY <1>2 DEF Lose, Duplicate
  <2>2. Asked' \subseteq Asked
    BY <2>1 DEF Asked
  <2> QED BY <1>2, <2>2 DEF Lose, Duplicate, Aside, logVars, progressVars
<1>3. CASE UNCHANGED vars
  <2>1. Asked' = Asked
    BY <1>3 DEF vars, Asked
  <2> QED BY <1>3, <2>1 DEF vars, Aside, logVars, progressVars
<1> QED BY <1>1, <1>2, <1>3 DEF Next

(***************************************************************************)
(* A delivery queue is the received service messages in order.             *)
(***************************************************************************)
QueueInv ==
    \A i \in Node :
        /\ Len(delivery_queue[i]) = last_delivered_seq[i] + 1
        /\ \A x \in 1 .. Len(delivery_queue[i]) :
              \E m \in received_service_msgs[i] : m.gs = x - 1 /\ m.id = delivery_queue[i][x].id

\* the entries that Delivered appends, each with the message it comes from
LEMMA NewEntries ==
    ASSUME TypeOK, TypeOK', NEW i \in Node, NEW pending \in SUBSET RequestId,
           NEW new \in SUBSET ServiceMessages, NEW heard \in [Node -> SeqNo],
           Delivered(i, pending, new, heard), QueueInv,
           NEW x \in 1 .. Len(delivery_queue'[i])
    PROVE  \/ /\ x \in 1 .. Len(delivery_queue[i])
              /\ delivery_queue'[i][x] = delivery_queue[i][x]
           \/ /\ x - 1 \in last_delivered_seq[i] + 1 .. last_delivered_seq'[i]
              /\ delivery_queue'[i][x] =
                    [id |-> SeqToRequest(new, x - 1),
                     pending |-> SeqToRequest(new, x - 1) \in pending_responses[i]]
              /\ \E m \in new : m.gs = x - 1 /\ m.id = SeqToRequest(new, x - 1)
              /\ \E m \in new : m.gs = x - 1 /\ m.id \in pending
<1> DEFINE last == last_delivered_seq[i]
           d == last_delivered_seq'[i]
           n == Len(delivery_queue[i])
<1>1. last \in SeqNo /\ d \in SeqNo /\ last <= d /\ n = last + 1 /\ n \in Nat
  BY DEF Delivered, QueueInv, SeqNo
<1>2. Len(delivery_queue'[i]) = n + (d - last)
  BY DEF Delivered
<1>3. CASE x <= n
  <2>1. x \in 1 .. n
    BY <1>1, <1>2, <1>3 DEF SeqNo
  <2> QED BY <2>1 DEF Delivered
<1>4. CASE x > n
  <2>1. x - n \in 1 .. d - last /\ n + (x - n) = x /\ last + (x - n) = x - 1 /\ x - 1 \in last + 1 .. d
    <3>1. x \in 1 .. n + (d - last)
      BY <1>2
    <3> HIDE DEF last, d, n
    <3>2. last \in Int /\ d \in Int
      BY <1>1 DEF SeqNo
    <3> QED BY <1>1, <1>4, <3>1, <3>2
  <2>2. \A y \in 1 .. d - last :
           delivery_queue'[i][n + y] = [id |-> SeqToRequest(new, last + y),
                                        pending |-> SeqToRequest(new, last + y) \in pending_responses[i]]
    BY DEF Delivered
  <2>3. delivery_queue'[i][n + (x - n)] =
          [id |-> SeqToRequest(new, last + (x - n)),
           pending |-> SeqToRequest(new, last + (x - n)) \in pending_responses[i]]
    BY <2>1, <2>2
  <2>4. \E m \in new : m.gs = x - 1 /\ m.id \in pending
    BY <2>1 DEF Delivered, Deliverable
  <2>5. \E m \in new : m.gs = x - 1 /\ m.id = SeqToRequest(new, x - 1)
    BY <2>4, SeqToRequestFacts
  <2> QED BY <2>1, <2>3, <2>4, <2>5
<1> QED BY <1>1, <1>3, <1>4

LEMMA QueueStep ==
    ASSUME TypeOK, TypeOK', QueueInv, [Next]_vars
    PROVE  QueueInv'
<1>1. CASE UNCHANGED <<received_service_msgs, last_delivered_seq, delivery_queue>>
  BY <1>1 DEF QueueInv
<1>2. CASE TakenSomewhere
  <2>1. PICK i \in Node, pending \in SUBSET RequestId, new \in SUBSET ServiceMessages,
             heard \in [Node -> SeqNo] : Taken(i, pending, new, heard)
    BY <1>2 DEF TakenSomewhere
  <2>2. Delivered(i, pending, new, heard)
    BY <2>1 DEF Taken
  <2>3. /\ received_service_msgs'[i] = new /\ received_service_msgs[i] \subseteq new
        /\ \A j \in Node \ {i} : received_service_msgs'[j] = received_service_msgs[j]
    BY <2>1 DEF Taken, TypeOK
  <2>4. \A j \in Node \ {i} : /\ last_delivered_seq'[j] = last_delivered_seq[j]
                              /\ delivery_queue'[j] = delivery_queue[j]
    BY <2>2 DEF Delivered, TypeOK
  <2>5. Len(delivery_queue'[i]) = last_delivered_seq'[i] + 1
    BY <2>2 DEF Delivered, QueueInv, SeqNo
  <2>6. \A x \in 1 .. Len(delivery_queue'[i]) :
           \E m \in received_service_msgs'[i] : m.gs = x - 1 /\ m.id = delivery_queue'[i][x].id
    <3> SUFFICES ASSUME NEW x \in 1 .. Len(delivery_queue'[i])
                 PROVE  \E m \in new : m.gs = x - 1 /\ m.id = delivery_queue'[i][x].id
      BY <2>3
    <3>1. CASE x \in 1 .. Len(delivery_queue[i]) /\ delivery_queue'[i][x] = delivery_queue[i][x]
      BY <2>3, <3>1 DEF QueueInv
    <3>2. CASE /\ delivery_queue'[i][x].id = SeqToRequest(new, x - 1)
               /\ \E m \in new : m.gs = x - 1 /\ m.id = SeqToRequest(new, x - 1)
      BY <3>2
    <3>3. \/ x \in 1 .. Len(delivery_queue[i]) /\ delivery_queue'[i][x] = delivery_queue[i][x]
          \/ /\ delivery_queue'[i][x].id = SeqToRequest(new, x - 1)
             /\ \E m \in new : m.gs = x - 1 /\ m.id = SeqToRequest(new, x - 1)
      <4>1. \/ /\ x \in 1 .. Len(delivery_queue[i])
               /\ delivery_queue'[i][x] = delivery_queue[i][x]
            \/ /\ delivery_queue'[i][x] =
                     [id |-> SeqToRequest(new, x - 1),
                      pending |-> SeqToRequest(new, x - 1) \in pending_responses[i]]
               /\ \E m \in new : m.gs = x - 1 /\ m.id = SeqToRequest(new, x - 1)
        BY <2>2, NewEntries, Zenon
      <4> QED BY <4>1
    <3> QED BY <3>1, <3>2, <3>3
  <2> QED BY <2>3, <2>4, <2>5, <2>6 DEF QueueInv
<1>3. \/ UNCHANGED <<received_service_msgs, last_delivered_seq, delivery_queue>>
      \/ TakenSomewhere
  <2>1. CASE \E i \in Node : NextLocalSeq(i)
    BY <2>1 DEF NextLocalSeq, logVars, progressVars
  <2>2. CASE \E r \in RequestId : HandlerStep(r)
    BY <2>2 DEF HandlerStep, BuildRequest, RegisterPendingResponse, BroadcastRequest,
                logVars, progressVars
  <2> QED BY <2>1, <2>2, StepShape DEF Aside
<1> QED BY <1>1, <1>2, <1>3

LEMMA QueueInvariant == Spec => [](TypeOK /\ OrderInv /\ QueueInv)
<1>1. Init => QueueInv
  BY DEF Init, QueueInv
<1>2. TypeOK /\ TypeOK' /\ QueueInv /\ [Next]_vars => QueueInv'
  BY QueueStep
<1> QED BY <1>1, <1>2, OrderInvariant, PTL DEF Spec

\* Any two nodes deliver the same requests in the same order, each once.
THEOREM SameOrderEverywhere == Spec => []SameDeliveryOrder
<1>1. TypeOK /\ OrderInv /\ QueueInv => SameDeliveryOrder
  <2> SUFFICES ASSUME TypeOK, OrderInv, QueueInv, NEW i \in Node, NEW j \in Node
               PROVE  \A x \in 1 .. Len(delivery_queue[i]) : \A y \in 1 .. Len(delivery_queue[j]) :
                         (x = y) <=> (delivery_queue[i][x].id = delivery_queue[j][y].id)
    BY DEF SameDeliveryOrder, QueueInv
  <2> SUFFICES ASSUME NEW x \in 1 .. Len(delivery_queue[i]), NEW y \in 1 .. Len(delivery_queue[j])
               PROVE  (x = y) <=> (delivery_queue[i][x].id = delivery_queue[j][y].id)
    OBVIOUS
  <2>1. PICK m \in received_service_msgs[i] : m.gs = x - 1 /\ m.id = delivery_queue[i][x].id
    BY DEF QueueInv
  <2>2. PICK q \in received_service_msgs[j] : q.gs = y - 1 /\ q.id = delivery_queue[j][y].id
    BY DEF QueueInv
  <2>3. m.gs = q.gs => m.id = q.id
    BY SameMessage DEF OrderInv, Ordered, LogTypes
  <2>4. m.id = q.id => m.gs = q.gs
    BY DEF OrderInv, Ordered, OnePerRequest
  <2> QED BY <2>1, <2>2, <2>3, <2>4
<1> QED BY <1>1, QueueInvariant, PTL

(***************************************************************************)
(* The waiting handler: a handler takes a fresh number, waits under its own *)
(* id, and a request is known to anybody only once its handler has sent it. *)
(***************************************************************************)
Sent == {r \in RequestId : handler[r].pc = "sent"}
InQueue(i, r) == \E x \in 1 .. Len(delivery_queue[i]) : delivery_queue[i][x].id = r

FreshNumbers == \A r \in RequestId : r[2] > local_counter[r[1]] => handler[r].pc = "idle"
OwnWaits == \A i \in Node : \A r \in pending_responses[i] : r[1] = i
OnlySent == Asked \subseteq Sent /\ \A i \in Node : Ids(all_requests[i]) \subseteq Sent
StillWaits ==
    \A r \in RequestId : handler[r].pc \in {"registered", "sent"} =>
        r \in pending_responses[r[1]] \/ InQueue(r[1], r)
OwnEntries ==
    \A i \in Node : \A x \in 1 .. Len(delivery_queue[i]) :
        delivery_queue[i][x].pending = (delivery_queue[i][x].id[1] = i)

WaitInv == FreshNumbers /\ OwnWaits /\ OnlySent /\ StillWaits /\ OwnEntries

\* the request a handler numbers is a new one
LEMMA FreshNumber ==
    ASSUME TypeOK, WaitInv, NEW i \in Node, NextLocalSeq(i)
    PROVE  LET q == <<i, local_counter[i] + 1>>
           IN  /\ q \in RequestId /\ handler[q].pc = "idle"
               /\ handler' = [handler EXCEPT ![q] = [pc |-> "numbered", md |-> @.md]]
<1> DEFINE q == <<i, local_counter[i] + 1>>
<1>1. q \in RequestId /\ q[1] = i /\ q[2] = local_counter[i] + 1 /\ local_counter[i] \in Nat
  <2>1. local_counter[i] \in Nat /\ MaxWrites[i] \in Nat
    BY WritesAssumption DEF TypeOK
  <2>2. local_counter[i] + 1 \in 1 .. MaxWrites[i]
    BY <2>1 DEF NextLocalSeq
  <2> QED BY <2>1, <2>2 DEF RequestId
<1>2. handler[q].pc = "idle"
  <2>1. q[2] > local_counter[q[1]]
    BY <1>1
  <2> HIDE DEF q
  <2> QED BY <1>1, <2>1 DEF WaitInv, FreshNumbers
<1> QED BY <1>1, <1>2 DEF NextLocalSeq

LEMMA NumberWait ==
    ASSUME TypeOK, WaitInv, NEW i \in Node, NextLocalSeq(i)
    PROVE  WaitInv'
<1> DEFINE q == <<i, local_counter[i] + 1>>
<1>1. q[1] = i /\ q[2] = local_counter[i] + 1 /\ local_counter[i] \in Nat
  BY DEF TypeOK
<1>2. q \in RequestId /\ handler[q].pc = "idle"
  BY FreshNumber
<1>3. /\ handler' = [handler EXCEPT ![q] = [pc |-> "numbered", md |-> @.md]]
      /\ local_counter' = [local_counter EXCEPT ![i] = @ + 1]
      /\ UNCHANGED <<pending_responses, all_requests, delivery_queue, net>>
  BY DEF NextLocalSeq, logVars, progressVars
<1> HIDE DEF q
<1>4. handler'[q].pc = "numbered" /\ \A r \in RequestId : r # q => handler'[r] = handler[r]
  BY <1>2, <1>3 DEF TypeOK
<1>5. FreshNumbers'
  <2> SUFFICES ASSUME NEW r \in RequestId, r[2] > local_counter'[r[1]]
               PROVE  handler'[r].pc = "idle"
    BY DEF FreshNumbers
  <2>1. r[1] \in Node /\ r[2] \in Nat /\ r = <<r[1], r[2]>>
    BY HandlerTypes
  <2>2. local_counter'[r[1]] = IF r[1] = i THEN local_counter[i] + 1 ELSE local_counter[r[1]]
    BY <1>3, <2>1 DEF TypeOK
  <2>3. local_counter[r[1]] \in Nat
    BY <2>1 DEF TypeOK
  <2>4. r[2] > local_counter[r[1]] /\ r # q
    BY <1>1, <2>1, <2>2, <2>3
  <2> QED BY <1>4, <2>4 DEF WaitInv, FreshNumbers
<1>6. Sent' = Sent
  BY <1>2, <1>4 DEF Sent
<1>7. OnlySent'
  BY <1>3, <1>6 DEF WaitInv, OnlySent, Asked
<1>8. StillWaits'
  BY <1>3, <1>4 DEF WaitInv, StillWaits, InQueue
<1>9. OwnWaits' /\ OwnEntries'
  BY <1>3 DEF WaitInv, OwnWaits, OwnEntries
<1> QED BY <1>5, <1>7, <1>8, <1>9 DEF WaitInv

LEMMA HandlerWait ==
    ASSUME TypeOK, WaitInv, NEW q \in RequestId, HandlerStep(q)
    PROVE  WaitInv'
<1>1. q[1] \in Node
  BY HandlerTypes
<1>2. UNCHANGED <<local_counter, all_requests, delivery_queue>>
  BY DEF HandlerStep, BuildRequest, RegisterPendingResponse, BroadcastRequest,
         logVars, progressVars
<1>3. handler[q].pc # "idle" /\ \A r \in RequestId : r # q => handler'[r] = handler[r]
  BY DEF HandlerStep, BuildRequest, RegisterPendingResponse, BroadcastRequest, TypeOK
<1>4. /\ handler'[q].pc \in {"registered", "sent"} =>
            q \in pending_responses'[q[1]] \/ InQueue(q[1], q)
      /\ handler[q].pc = "sent" => handler'[q].pc = "sent"
      /\ \A i \in Node : /\ pending_responses[i] \subseteq pending_responses'[i]
                         /\ \A r \in pending_responses'[i] \ pending_responses[i] : r = q /\ i = q[1]
  <2>1. CASE BuildRequest(q)
    BY <2>1 DEF BuildRequest, TypeOK
  <2>2. CASE RegisterPendingResponse(q)
    BY <1>1, <2>2 DEF RegisterPendingResponse, TypeOK
  <2>3. CASE BroadcastRequest(q)
    BY <2>3 DEF BroadcastRequest, TypeOK, WaitInv, StillWaits
  <2> QED BY <2>1, <2>2, <2>3 DEF HandlerStep
<1>5. FreshNumbers'
  BY <1>2, <1>3 DEF WaitInv, FreshNumbers
<1>6. OwnWaits'
  BY <1>4 DEF WaitInv, OwnWaits
<1>7. OwnEntries'
  BY <1>2 DEF WaitInv, OwnEntries
<1>8. StillWaits'
  <2> SUFFICES ASSUME NEW r \in RequestId, handler'[r].pc \in {"registered", "sent"}
               PROVE  r \in pending_responses'[r[1]] \/ InQueue(r[1], r)
    BY <1>2 DEF StillWaits, InQueue
  <2>1. CASE r = q
    BY <1>4, <2>1
  <2>2. CASE r # q
    <3>1. r \in pending_responses[r[1]] \/ InQueue(r[1], r)
      BY <1>3, <2>2 DEF WaitInv, StillWaits
    <3>2. r[1] \in Node
      BY HandlerTypes
    <3> QED BY <1>4, <3>1, <3>2
  <2> QED BY <2>1, <2>2
<1>9. OnlySent'
  <2>1. Sent \subseteq Sent'
    BY <1>3, <1>4 DEF Sent
  <2>2. Asked' \subseteq Asked \cup Sent'
    <3>1. CASE BroadcastRequest(q)
      <4>1. \A p \in net' : p \in net \/ p.msg.id = q
        BY <3>1 DEF BroadcastRequest, Broadcast, Packet, RequestMessage
      <4>2. q \in Sent'
        BY <3>1 DEF BroadcastRequest, Sent, TypeOK
      <4> QED BY <4>1, <4>2 DEF Asked
    <3>2. CASE BuildRequest(q) \/ RegisterPendingResponse(q)
      BY <3>2 DEF BuildRequest, RegisterPendingResponse, Asked
    <3> QED BY <3>1, <3>2 DEF HandlerStep
  <2> QED BY <1>2, <2>1, <2>2 DEF WaitInv, OnlySent
<1> QED BY <1>5, <1>6, <1>7, <1>8, <1>9 DEF WaitInv

LEMMA AsideWait ==
    ASSUME WaitInv, Aside
    PROVE  WaitInv'
<1>1. UNCHANGED <<local_counter, handler, pending_responses, all_requests, delivery_queue>>
  BY DEF Aside, rpcVars
<1>2. \A r \in Asked' : r \in Asked \/ \E i \in Node : r \in Ids(all_requests[i])
  BY DEF Aside
<1>3. OnlySent'
  BY <1>1, <1>2 DEF WaitInv, OnlySent, Sent
<1> QED BY <1>1, <1>3 DEF WaitInv, FreshNumbers, OwnWaits, StillWaits, InQueue, OwnEntries

\* a request that is delivered now has been sent, and is not in the queue yet
LEMMA FirstDelivery ==
    ASSUME TypeOK, OrderInv, OrderInv', QueueInv, WaitInv, NEW i \in Node,
           NEW pending \in SUBSET RequestId, NEW new \in SUBSET ServiceMessages,
           NEW heard \in [Node -> SeqNo], Taken(i, pending, new, heard),
           NEW gs \in last_delivered_seq[i] + 1 .. last_delivered_seq'[i],
           NEW m \in new, m.gs = gs, NEW q \in new, q.gs = gs, q.id \in pending
    PROVE  m.id \in Sent /\ ~ InQueue(i, m.id)
<1>1. received_service_msgs'[i] = new /\ received_service_msgs[i] \subseteq new
  BY DEF Taken, TypeOK
<1>2. m = q
  BY <1>1 DEF OrderInv, Ordered, OnePerSeq
<1>3. pending \subseteq Sent
  <2>1. pending_requests[i] \subseteq Ids(all_requests[i])
    BY DEF OrderInv, Ordered, PendingKnown, Known
  <2> QED BY <2>1 DEF Taken, WaitInv, OnlySent
<1>4. ASSUME NEW x \in 1 .. Len(delivery_queue[i]), delivery_queue[i][x].id = m.id
      PROVE  FALSE
  <2>1. PICK p \in received_service_msgs[i] : p.gs = x - 1 /\ p.id = m.id
    BY <1>4 DEF QueueInv
  <2>2. p \in received_service_msgs'[i] /\ m \in received_service_msgs'[i]
    BY <1>1, <2>1
  <2>3. p.gs = m.gs
    BY <2>1, <2>2 DEF OrderInv, Ordered, OnePerRequest
  <2>4. last_delivered_seq[i] \in SeqNo /\ last_delivered_seq'[i] \in SeqNo
    BY DEF Taken, Delivered
  <2>5. x \in 1 .. last_delivered_seq[i] + 1
    BY DEF QueueInv
  <2> QED BY <2>1, <2>3, <2>4, <2>5 DEF SeqNo
<1> QED BY <1>2, <1>3, <1>4 DEF InQueue

LEMMA TakenWait ==
    ASSUME TypeOK, TypeOK', OrderInv, OrderInv', QueueInv, WaitInv, TakenSomewhere
    PROVE  WaitInv'
<1>1. PICK i \in Node, pending \in SUBSET RequestId, new \in SUBSET ServiceMessages,
           heard \in [Node -> SeqNo] : Taken(i, pending, new, heard)
  BY DEF TakenSomewhere
<1> DEFINE last == last_delivered_seq[i]
           d == last_delivered_seq'[i]
           n == Len(delivery_queue[i])
           done == {SeqToRequest(new, gs) : gs \in last + 1 .. d}
<1>2. /\ UNCHANGED <<local_counter, handler>>
      /\ Delivered(i, pending, new, heard)
      /\ \A k \in Node : Ids(all_requests'[k]) \subseteq Ids(all_requests[k]) \cup Asked
      /\ Asked' \subseteq Asked
  BY <1>1 DEF Taken, rpcVars
<1>3. /\ pending_responses'[i] = pending_responses[i] \ done
      /\ \A j \in Node \ {i} : /\ pending_responses'[j] = pending_responses[j]
                               /\ delivery_queue'[j] = delivery_queue[j]
  BY <1>2 DEF Delivered, TypeOK
<1>4. FreshNumbers' /\ OnlySent'
  BY <1>2 DEF WaitInv, FreshNumbers, OnlySent, Sent
<1>5. OwnWaits'
  BY <1>3 DEF WaitInv, OwnWaits
<1>6. StillWaits'
  <2> SUFFICES ASSUME NEW r \in RequestId, handler[r].pc \in {"registered", "sent"}
               PROVE  r \in pending_responses'[r[1]] \/ InQueue(r[1], r)'
    BY <1>2 DEF StillWaits, InQueue
  <2>1. r \in pending_responses[r[1]] \/ InQueue(r[1], r)
    BY DEF WaitInv, StillWaits
  <2>2. r[1] \in Node
    BY HandlerTypes
  <2>3. CASE r[1] # i
    BY <1>3, <2>1, <2>2, <2>3 DEF InQueue
  <2>4. CASE r[1] = i /\ r \in pending_responses[i] \ done
    BY <1>3, <2>4
  <2>5. CASE r[1] = i /\ InQueue(i, r)
    <3>1. PICK x \in 1 .. n : delivery_queue[i][x].id = r
      BY <2>5 DEF InQueue
    <3>2. delivery_queue'[i][x] = delivery_queue[i][x] /\ x \in 1 .. Len(delivery_queue'[i])
      <4>1. Len(delivery_queue'[i]) = n + (d - last) /\ last \in SeqNo /\ d \in SeqNo /\ last <= d
        BY <1>2 DEF Delivered
      <4>2. n = last + 1
        BY DEF QueueInv
      <4>3. delivery_queue'[i][x] = delivery_queue[i][x]
        BY <1>2 DEF Delivered
      <4> HIDE DEF n, d, last
      <4> QED BY <4>1, <4>2, <4>3 DEF SeqNo
    <3> QED BY <2>5, <3>1, <3>2 DEF InQueue
  <2>6. CASE r[1] = i /\ r \in done
    <3>1. PICK gs \in last + 1 .. d : r = SeqToRequest(new, gs)
      BY <2>6
    <3>2. /\ gs - last \in 1 .. d - last /\ last + (gs - last) = gs
          /\ n + (gs - last) \in 1 .. Len(delivery_queue'[i])
      <4>1. Len(delivery_queue'[i]) = n + (d - last) /\ last \in SeqNo /\ d \in SeqNo /\ last <= d
        BY <1>2 DEF Delivered
      <4>2. n = last + 1
        BY DEF QueueInv
      <4> HIDE DEF n, d, last
      <4> QED BY <4>1, <4>2 DEF SeqNo
    <3>3. \A y \in 1 .. d - last :
             delivery_queue'[i][n + y] =
                 [id |-> SeqToRequest(new, last + y),
                  pending |-> SeqToRequest(new, last + y) \in pending_responses[i]]
      BY <1>2 DEF Delivered
    <3>4. delivery_queue'[i][n + (gs - last)] =
             [id |-> SeqToRequest(new, last + (gs - last)),
              pending |-> SeqToRequest(new, last + (gs - last)) \in pending_responses[i]]
      BY <3>2, <3>3
    <3>5. delivery_queue'[i][n + (gs - last)].id = r
      BY <3>1, <3>2, <3>4
    <3> QED BY <2>6, <3>2, <3>5 DEF InQueue
  <2> QED BY <2>1, <2>3, <2>4, <2>5, <2>6
<1>7. OwnEntries'
  <2>1. ASSUME NEW x \in 1 .. Len(delivery_queue'[i])
        PROVE  delivery_queue'[i][x].pending = (delivery_queue'[i][x].id[1] = i)
    <3>1. \/ /\ x \in 1 .. n
             /\ delivery_queue'[i][x] = delivery_queue[i][x]
          \/ /\ x - 1 \in last + 1 .. d
             /\ delivery_queue'[i][x] =
                   [id |-> SeqToRequest(new, x - 1),
                    pending |-> SeqToRequest(new, x - 1) \in pending_responses[i]]
             /\ \E m \in new : m.gs = x - 1 /\ m.id = SeqToRequest(new, x - 1)
             /\ \E m \in new : m.gs = x - 1 /\ m.id \in pending
      BY <1>2, NewEntries, Zenon
    <3>2. CASE x \in 1 .. n /\ delivery_queue'[i][x] = delivery_queue[i][x]
      BY <3>2 DEF WaitInv, OwnEntries
    <3>3. CASE /\ x - 1 \in last + 1 .. d
               /\ delivery_queue'[i][x] =
                     [id |-> SeqToRequest(new, x - 1),
                      pending |-> SeqToRequest(new, x - 1) \in pending_responses[i]]
               /\ \E m \in new : m.gs = x - 1 /\ m.id = SeqToRequest(new, x - 1)
               /\ \E m \in new : m.gs = x - 1 /\ m.id \in pending
      <4> DEFINE r == SeqToRequest(new, x - 1)
      <4>1. PICK m \in new : m.gs = x - 1 /\ m.id = r
        BY <3>3
      <4>2. PICK q \in new : q.gs = x - 1 /\ q.id \in pending
        BY <3>3
      <4>3. r \in Sent /\ ~ InQueue(i, r)
        BY <1>1, <3>3, <4>1, <4>2, FirstDelivery
      <4>4. r \in RequestId /\ (r[1] = i => r \in pending_responses[i])
        BY <4>3 DEF WaitInv, StillWaits, Sent
      <4>5. r \in pending_responses[i] => r[1] = i
        BY DEF WaitInv, OwnWaits
      <4>6. delivery_queue'[i][x].id = r /\ delivery_queue'[i][x].pending = (r \in pending_responses[i])
        BY <3>3
      <4> HIDE DEF r
      <4>7. (r[1] = i) = (r \in pending_responses[i])
        BY <4>4, <4>5
      <4> QED BY <4>6, <4>7
    <3> QED BY <3>1, <3>2, <3>3
  <2>2. \A j \in Node \ {i} : \A x \in 1 .. Len(delivery_queue'[j]) :
           delivery_queue'[j][x].pending = (delivery_queue'[j][x].id[1] = j)
    BY <1>3 DEF WaitInv, OwnEntries
  <2> QED BY <2>1, <2>2 DEF OwnEntries
<1> QED BY <1>4, <1>5, <1>6, <1>7 DEF WaitInv

LEMMA WaitStep ==
    ASSUME TypeOK, TypeOK', OrderInv, OrderInv', QueueInv, WaitInv, [Next]_vars
    PROVE  WaitInv'
BY StepShape, NumberWait, HandlerWait, TakenWait, AsideWait

LEMMA WaitInit == Init => WaitInv
<1> SUFFICES ASSUME Init PROVE WaitInv
  OBVIOUS
<1>1. FreshNumbers
  BY DEF Init, FreshNumbers
<1>2. OwnWaits /\ OnlySent
  BY DEF Init, OwnWaits, OnlySent, Asked, Ids
<1>3. StillWaits /\ OwnEntries
  BY DEF Init, StillWaits, OwnEntries
<1> QED BY <1>1, <1>2, <1>3 DEF WaitInv

LEMMA WaitInvariant == Spec => [](TypeOK /\ OrderInv /\ QueueInv /\ WaitInv)
<1>1. TypeOK /\ TypeOK' /\ OrderInv /\ OrderInv' /\ QueueInv /\ WaitInv /\ [Next]_vars => WaitInv'
  BY WaitStep
<1> QED BY <1>1, WaitInit, QueueInvariant, PTL DEF Spec

\* The node that serves a write finds the waiting handler when it delivers
\* the write, no other node does, and until then the event is registered.
THEOREM HandlerIsFound == Spec => []WaiterFound
<1>1. WaitInv => WaiterFound
  BY DEF WaitInv, OwnEntries, StillWaits, InQueue, WaiterFound
<1> QED BY <1>1, WaitInvariant, PTL

(***************************************************************************)
(* Refinement: the numbers in use are 0, 1, ... without a gap, so a step    *)
(* appends at most one request to the order, and a delivery queue is the    *)
(* prefix of the order that last_delivered_seq counts.                      *)
(***************************************************************************)
CountInv == \E n \in Nat : GlobalSeqs(AllServiceMsgs) = 0 .. n - 1

LEMMA CountFacts ==
    ASSUME CountInv
    PROVE  OrderedCount \in Nat /\ GlobalSeqs(AllServiceMsgs) = 0 .. OrderedCount - 1
<1>1. PICK n \in Nat : GlobalSeqs(AllServiceMsgs) = 0 .. n - 1
  BY DEF CountInv
<1>2. Cardinality(0 .. n - 1) = n
  BY FS_Interval
<1> QED BY <1>1, <1>2 DEF OrderedCount

\* a handler puts at most one request into the order: a sent one that is not
\* there, at the next number
Extended(m) ==
    /\ AllServiceMsgs' = AllServiceMsgs \cup {m}
    /\ m \in ServiceMessages
    /\ m.gs = OrderedCount
    /\ m.id \in Sent
    /\ m.id \notin SequencedIds(AllServiceMsgs)

LEMMA OrderGrowth ==
    ASSUME TypeOK, TypeOK', OrderInv, OrderInv', WaitInv, CountInv, TakenSomewhere
    PROVE  AllServiceMsgs' = AllServiceMsgs \/ \E m : Extended(m)
<1>1. PICK i \in Node, pending \in SUBSET RequestId, new \in SUBSET ServiceMessages,
           heard \in [Node -> SeqNo] : Taken(i, pending, new, heard)
  BY DEF TakenSomewhere
<1>2. /\ received_service_msgs'[i] = new /\ received_service_msgs[i] \subseteq new
      /\ \A j \in Node \ {i} : received_service_msgs'[j] = received_service_msgs[j]
  BY <1>1 DEF Taken, TypeOK
<1>3. AllServiceMsgs' = AllServiceMsgs \cup new
  BY <1>2 DEF AllServiceMsgs
<1>4. ServicesInFlight \subseteq AllServiceMsgs
  <2>1. \A m \in ServicesInFlight : m \in ServiceMessages /\ m.sender \in Node
    BY HandlerTypes DEF ServicesInFlight
  <2>2. \A m \in ServicesInFlight : m \in received_service_msgs[m.sender]
    BY DEF OrderInv, Ordered, SequencerHas
  <2> QED BY <2>1, <2>2 DEF AllServiceMsgs
<1>5. \/ AllServiceMsgs' = AllServiceMsgs
      \/ \E m \in new : AllServiceMsgs' = AllServiceMsgs \cup {m} /\ m.id \in pending
  BY <1>1, <1>3, <1>4 DEF Taken
<1>6. ASSUME NEW m \in new, AllServiceMsgs' = AllServiceMsgs \cup {m}, m.id \in pending,
             m \notin AllServiceMsgs
      PROVE  Extended(m)
  <2>1. m \in ServiceMessages /\ m.gs \in Nat
    BY HandlerTypes
  <2>2. m.id \in Sent
    <3>1. pending_requests[i] \subseteq Ids(all_requests[i])
      BY DEF OrderInv, Ordered, PendingKnown, Known
    <3> QED BY <1>1, <1>6, <3>1 DEF Taken, WaitInv, OnlySent
  <2>3. OrderedCount \in Nat /\ GlobalSeqs(AllServiceMsgs) = 0 .. OrderedCount - 1
    BY CountFacts
  <2>4. \A q \in AllServiceMsgs : \E j \in Node : q \in received_service_msgs'[j]
    BY <1>3 DEF AllServiceMsgs
  <2>5. \A q \in AllServiceMsgs : q.gs # m.gs
    <3>1. \A j \in Node : \A q \in received_service_msgs'[j] : q.gs = m.gs => q = m
      BY <1>2, SameMessage DEF OrderInv, Ordered, LogTypes
    <3> QED BY <1>6, <2>4, <3>1
  <2>6. \A q \in AllServiceMsgs : q.id # m.id
    <3>1. \A j \in Node : \A q \in received_service_msgs'[j] : q.id = m.id => q.gs = m.gs
      BY <1>2 DEF OrderInv, Ordered, OnePerRequest
    <3> QED BY <2>4, <2>5, <3>1
  <2>7. \A g \in 0 .. m.gs - 1 : g \in GlobalSeqs(AllServiceMsgs)
    <3> SUFFICES ASSUME NEW g \in 0 .. m.gs - 1 PROVE g \in GlobalSeqs(AllServiceMsgs)
      OBVIOUS
    <3>1. PICK j \in Node : \E q \in received_service_msgs'[j] : q.gs = g
      BY <1>2 DEF OrderInv, Ordered, NoGap
    <3>2. PICK q \in received_service_msgs'[j] : q.gs = g
      BY <3>1
    <3>3. q \in AllServiceMsgs' /\ q # m
      BY <2>1, <3>2 DEF AllServiceMsgs
    <3> QED BY <1>6, <3>2, <3>3 DEF GlobalSeqs
  <2>8. m.gs \notin 0 .. OrderedCount - 1
    BY <2>3, <2>5 DEF GlobalSeqs
  <2>9. m.gs = OrderedCount
    <3>1. m.gs >= OrderedCount
      BY <2>1, <2>3, <2>8
    <3>2. m.gs > OrderedCount => OrderedCount \in 0 .. m.gs - 1
      BY <2>1, <2>3
    <3>3. OrderedCount \notin 0 .. OrderedCount - 1
      BY <2>3
    <3> QED BY <2>1, <2>3, <2>7, <3>1, <3>2, <3>3
  <2> QED BY <1>6, <2>1, <2>2, <2>6, <2>9 DEF Extended, SequencedIds
<1> QED BY <1>5, <1>6

LEMMA ExtendedCount ==
    ASSUME CountInv, NEW m, Extended(m)
    PROVE  CountInv' /\ OrderedCount' = OrderedCount + 1
<1>1. OrderedCount \in Nat /\ GlobalSeqs(AllServiceMsgs) = 0 .. OrderedCount - 1
  BY CountFacts
<1>2. GlobalSeqs(AllServiceMsgs') = GlobalSeqs(AllServiceMsgs) \cup {m.gs}
  BY DEF Extended, GlobalSeqs
<1>3. GlobalSeqs(AllServiceMsgs') = 0 .. OrderedCount /\ m.gs = OrderedCount
  <2>1. m.gs = OrderedCount
    BY DEF Extended
  <2>2. (0 .. OrderedCount - 1) \cup {OrderedCount} = 0 .. OrderedCount
    BY <1>1
  <2> QED BY <1>1, <1>2, <2>1, <2>2
<1>4. Cardinality(0 .. OrderedCount) = OrderedCount + 1
  BY <1>1, FS_Interval
<1>5. OrderedCount + 1 \in Nat /\ 0 .. OrderedCount = 0 .. (OrderedCount + 1) - 1
  BY <1>1
<1>6. \E n \in Nat : GlobalSeqs(AllServiceMsgs') = 0 .. n - 1
  BY <1>3, <1>5
<1>7. CountInv'
  BY <1>6 DEF CountInv
<1>8. OrderedCount' = Cardinality(GlobalSeqs(AllServiceMsgs'))
  BY DEF OrderedCount
<1> QED BY <1>3, <1>4, <1>7, <1>8

LEMMA CountStep ==
    ASSUME TypeOK, TypeOK', OrderInv, OrderInv', WaitInv, CountInv, [Next]_vars
    PROVE  CountInv'
<1>1. CASE AllServiceMsgs' = AllServiceMsgs
  BY <1>1 DEF CountInv
<1>2. CASE \E m : Extended(m)
  BY <1>2, ExtendedCount
<1>3. \/ UNCHANGED received_service_msgs
      \/ TakenSomewhere
  <2>1. CASE \E i \in Node : NextLocalSeq(i)
    BY <2>1 DEF NextLocalSeq, logVars
  <2>2. CASE \E r \in RequestId : HandlerStep(r)
    BY <2>2 DEF HandlerStep, BuildRequest, RegisterPendingResponse, BroadcastRequest, logVars
  <2> QED BY <2>1, <2>2, StepShape DEF Aside
<1>4. CASE UNCHANGED received_service_msgs
  BY <1>1, <1>4 DEF AllServiceMsgs
<1> QED BY <1>1, <1>2, <1>3, <1>4, OrderGrowth

LEMMA CountInit == Init => CountInv
<1> SUFFICES ASSUME Init PROVE CountInv
  OBVIOUS
<1>1. GlobalSeqs(AllServiceMsgs) = {}
  BY DEF Init, AllServiceMsgs, GlobalSeqs
<1>2. 0 \in Nat /\ 0 .. 0 - 1 = {}
  OBVIOUS
<1> QED BY <1>1, <1>2 DEF CountInv

AllInv == TypeOK /\ OrderInv /\ QueueInv /\ WaitInv /\ CountInv

LEMMA AllInvariant == Spec => []AllInv
<1>1. TypeOK /\ TypeOK' /\ OrderInv /\ OrderInv' /\ WaitInv /\ CountInv /\ [Next]_vars => CountInv'
  BY CountStep
<1>2. TypeOK /\ OrderInv /\ QueueInv /\ WaitInv /\ CountInv => AllInv
  BY DEF AllInv
<1> QED BY <1>1, <1>2, CountInit, WaitInvariant, PTL DEF Spec

\* the global order that TotalOrder sees, and what it sees of a node
GlobalOrder == [x \in 1 .. OrderedCount |-> SeqToRequest(AllServiceMsgs, x - 1)]
DeliveredIds(i) == [x \in 1 .. Len(delivery_queue[i]) |-> delivery_queue[i][x].id]

\* the order spells out the service messages, each at its number
OrderSpelled ==
    /\ OrderedCount \in Nat
    /\ GlobalOrder \in Seq(RequestId) /\ Len(GlobalOrder) = OrderedCount
    /\ \A m \in AllServiceMsgs : m.gs + 1 \in 1 .. OrderedCount /\ GlobalOrder[m.gs + 1] = m.id
    /\ \A x \in 1 .. OrderedCount :
          \E m \in AllServiceMsgs : m.gs = x - 1 /\ m.id = GlobalOrder[x]

LEMMA OrderFacts == AllInv => OrderSpelled
<1> SUFFICES ASSUME AllInv PROVE OrderSpelled
  OBVIOUS
<1>1. OrderedCount \in Nat /\ GlobalSeqs(AllServiceMsgs) = 0 .. OrderedCount - 1
  BY CountFacts DEF AllInv
<1>2. AllServiceMsgs \in SUBSET ServiceMessages
  BY DEF AllInv, TypeOK, AllServiceMsgs
<1>3. \A x \in 1 .. OrderedCount :
         /\ SeqToRequest(AllServiceMsgs, x - 1) \in RequestId
         /\ \E m \in AllServiceMsgs : m.gs = x - 1 /\ m.id = SeqToRequest(AllServiceMsgs, x - 1)
  <2> SUFFICES ASSUME NEW x \in 1 .. OrderedCount
               PROVE  /\ SeqToRequest(AllServiceMsgs, x - 1) \in RequestId
                      /\ \E m \in AllServiceMsgs :
                            m.gs = x - 1 /\ m.id = SeqToRequest(AllServiceMsgs, x - 1)
    OBVIOUS
  <2>1. x - 1 \in GlobalSeqs(AllServiceMsgs)
    BY <1>1
  <2>2. PICK m \in AllServiceMsgs : m.gs = x - 1
    BY <2>1 DEF GlobalSeqs
  <2> QED BY <1>2, <2>2, SeqToRequestFacts
<1>4. GlobalOrder \in Seq(RequestId) /\ Len(GlobalOrder) = OrderedCount
  <2> DEFINE c == OrderedCount
             f(x) == SeqToRequest(AllServiceMsgs, x - 1)
  <2>1. c \in Nat /\ \A x \in 1 .. c : f(x) \in RequestId
    BY <1>1, <1>3
  <2>2. GlobalOrder = [x \in 1 .. c |-> f(x)]
    BY DEF GlobalOrder
  <2> HIDE DEF c, f
  <2>3. GlobalOrder \in Seq(RequestId) /\ Len(GlobalOrder) = c
    BY <2>1, <2>2
  <2> QED BY <2>3 DEF c
<1>5. \A x \in 1 .. OrderedCount : GlobalOrder[x] = SeqToRequest(AllServiceMsgs, x - 1)
  BY DEF GlobalOrder
<1>6. ASSUME NEW m \in AllServiceMsgs
      PROVE  m.gs + 1 \in 1 .. OrderedCount /\ GlobalOrder[m.gs + 1] = m.id
  <2>1. m.gs \in GlobalSeqs(AllServiceMsgs) /\ m.gs \in Nat
    BY <1>2 DEF GlobalSeqs, ServiceMessages
  <2>2. m.gs + 1 \in 1 .. OrderedCount /\ (m.gs + 1) - 1 = m.gs
    BY <1>1, <2>1
  <2>3. PICK q \in AllServiceMsgs : q.gs = m.gs /\ q.id = GlobalOrder[m.gs + 1]
    BY <1>3, <1>5, <2>2
  <2>4. PICK i \in Node : m \in received_service_msgs[i]
    BY DEF AllServiceMsgs
  <2>5. PICK j \in Node : q \in received_service_msgs[j]
    BY DEF AllServiceMsgs
  <2>6. m = q
    BY <2>3, <2>4, <2>5, SameMessage DEF AllInv, OrderInv, Ordered, LogTypes
  <2> QED BY <2>2, <2>3, <2>6
<1> QED BY <1>1, <1>3, <1>4, <1>5, <1>6 DEF OrderSpelled

\* a delivery queue is a prefix of the global order
QueuePrefix ==
    \A i \in Node :
        /\ Len(delivery_queue[i]) \in 0 .. OrderedCount
        /\ DeliveredIds(i) = SubSeq(GlobalOrder, 1, Len(delivery_queue[i]))
        /\ Len(DeliveredIds(i)) = Len(delivery_queue[i])

LEMMA PrefixFacts == AllInv => QueuePrefix
<1> SUFFICES ASSUME AllInv, NEW i \in Node
             PROVE  /\ Len(delivery_queue[i]) \in 0 .. OrderedCount
                    /\ DeliveredIds(i) = SubSeq(GlobalOrder, 1, Len(delivery_queue[i]))
                    /\ Len(DeliveredIds(i)) = Len(delivery_queue[i])
  BY DEF QueuePrefix
<1> DEFINE n == Len(delivery_queue[i])
<1>1. n \in Nat
  BY DEF AllInv, TypeOK
<1>2. \A x \in 1 .. n : x \in 1 .. OrderedCount /\ GlobalOrder[x] = delivery_queue[i][x].id
  <2> SUFFICES ASSUME NEW x \in 1 .. n
               PROVE  x \in 1 .. OrderedCount /\ GlobalOrder[x] = delivery_queue[i][x].id
    OBVIOUS
  <2>1. PICK m \in received_service_msgs[i] : m.gs = x - 1 /\ m.id = delivery_queue[i][x].id
    BY DEF AllInv, QueueInv
  <2>2. m \in AllServiceMsgs
    BY DEF AllServiceMsgs
  <2>3. m.gs + 1 = x
    BY <1>1, <2>1
  <2> QED BY <2>1, <2>2, <2>3, OrderFacts DEF OrderSpelled
<1>3. n \in 0 .. OrderedCount
  <2>1. OrderedCount \in Nat
    BY OrderFacts DEF OrderSpelled
  <2>2. n > 0 => n \in 1 .. n
    BY <1>1
  <2> HIDE DEF n
  <2> QED BY <1>1, <1>2, <2>1, <2>2
<1>4. DeliveredIds(i) = [x \in 1 .. n |-> delivery_queue[i][x].id]
  BY DEF DeliveredIds
<1> HIDE DEF n
<1>5. DeliveredIds(i) = [x \in 1 .. n |-> GlobalOrder[x]]
  BY <1>2, <1>4
<1>6. /\ GlobalOrder \in Seq(RequestId) /\ Len(GlobalOrder) = OrderedCount
      /\ OrderedCount \in Nat
  BY OrderFacts DEF OrderSpelled
<1>7. SubSeq(GlobalOrder, 1, n) = [x \in 1 .. n |-> GlobalOrder[x]]
  <2> DEFINE s == GlobalOrder
  <2>1. s \in Seq(RequestId) /\ Len(s) \in Nat /\ n <= Len(s)
    BY <1>3, <1>6
  <2> HIDE DEF s
  <2>2. /\ SubSeq(s, 1, n) \in Seq(RequestId)
        /\ Len(SubSeq(s, 1, n)) = n
        /\ \A x \in 1 .. n : SubSeq(s, 1, n)[x] = s[x]
    BY <1>1, <2>1
  <2> QED BY <1>1, <2>2 DEF s
<1>8. Len(DeliveredIds(i)) = n
  BY <1>1, <1>5
<1> QED BY <1>3, <1>5, <1>7, <1>8 DEF n

\* what a sequenced request may follow, and that the order only grows at its end
LEMMA GrowthFacts ==
    ASSUME AllInv, AllInv', NEW m, Extended(m)
    PROVE  /\ GlobalOrder' = Append(GlobalOrder, m.id)
           /\ m.id \in Sent
           /\ m.id \notin {GlobalOrder[x] : x \in 1 .. Len(GlobalOrder)}
           /\ \A q \in RequestId : q[1] = m.id[1] /\ q[2] < m.id[2] =>
                 q \in {GlobalOrder[x] : x \in 1 .. Len(GlobalOrder)}
<1> DEFINE c == OrderedCount
           ids == {GlobalOrder[x] : x \in 1 .. Len(GlobalOrder)}
<1>1. /\ c \in Nat /\ GlobalOrder \in Seq(RequestId) /\ Len(GlobalOrder) = c
      /\ \A x \in 1 .. c : \E q \in AllServiceMsgs : q.gs = x - 1 /\ q.id = GlobalOrder[x]
      /\ \A q \in AllServiceMsgs : q.gs + 1 \in 1 .. c /\ GlobalOrder[q.gs + 1] = q.id
  BY OrderFacts DEF OrderSpelled
<1>2. /\ GlobalOrder' \in Seq(RequestId) /\ Len(GlobalOrder') = OrderedCount'
      /\ \A q \in AllServiceMsgs' : /\ q.gs + 1 \in 1 .. OrderedCount'
                                    /\ GlobalOrder'[q.gs + 1] = q.id
  <2>1. OrderSpelled'
    BY OrderFacts, PTL
  <2> QED BY <2>1 DEF OrderSpelled
<1>3. OrderedCount' = c + 1
  BY ExtendedCount DEF AllInv
<1>4. /\ AllServiceMsgs' = AllServiceMsgs \cup {m} /\ m.gs = c /\ m \in ServiceMessages
      /\ m.id \in Sent /\ m.id \notin SequencedIds(AllServiceMsgs)
  BY DEF Extended
<1> HIDE DEF c
<1>5. ids = SequencedIds(AllServiceMsgs)
  <2>1. ids \subseteq SequencedIds(AllServiceMsgs)
    BY <1>1 DEF SequencedIds
  <2>2. \A q \in AllServiceMsgs : q.id \in ids
    BY <1>1
  <2> QED BY <2>1, <2>2 DEF SequencedIds
<1>6. GlobalOrder' = Append(GlobalOrder, m.id)
  <2> DEFINE s == GlobalOrder
             t == GlobalOrder'
  <2>1. \A x \in 1 .. c : t[x] = s[x]
    <3> SUFFICES ASSUME NEW x \in 1 .. c PROVE t[x] = s[x]
      OBVIOUS
    <3>1. PICK q \in AllServiceMsgs : q.gs = x - 1 /\ q.id = s[x]
      BY <1>1
    <3>2. q \in AllServiceMsgs' /\ q.gs + 1 = x
      BY <1>1, <1>4, <3>1
    <3> QED BY <1>2, <3>1, <3>2
  <2>2. t[c + 1] = m.id
    <3>1. m \in AllServiceMsgs'
      BY <1>4
    <3> QED BY <1>2, <1>4, <3>1
  <2>3. s \in Seq(RequestId) /\ t \in Seq(RequestId) /\ Len(s) = c /\ Len(t) = c + 1
    BY <1>1, <1>2, <1>3
  <2>4. m.id \in RequestId
    BY <1>4 DEF ServiceMessages
  <2> HIDE DEF s, t
  <2>5. /\ Append(s, m.id) \in Seq(RequestId) /\ Len(Append(s, m.id)) = c + 1
        /\ \A x \in 1 .. c + 1 : Append(s, m.id)[x] = t[x]
    BY <1>1, <2>1, <2>2, <2>3, <2>4
  <2>6. t = Append(s, m.id)
    BY <2>3, <2>5, SeqEqual
  <2> QED BY <2>6 DEF s, t
<1>7. ASSUME NEW q \in RequestId, q[1] = m.id[1], q[2] < m.id[2]
      PROVE  q \in ids
  <2>1. m.id \in RequestId /\ q = <<m.id[1], q[2]>> /\ q[2] \in 1 .. m.id[2] - 1
    <3>1. m.id \in RequestId
      BY <1>4 DEF ServiceMessages
    <3>2. q = <<q[1], q[2]>> /\ q[2] \in 1 .. MaxWrites[q[1]] /\ MaxWrites[q[1]] \in Nat
      BY RequestIdParts, WritesAssumption
    <3>3. m.id[2] \in Nat
      BY <3>1, RequestIdParts, WritesAssumption
    <3> QED BY <1>7, <3>1, <3>2, <3>3
  <2>2. PICK i \in Node : m \in received_service_msgs'[i]
    BY <1>4 DEF AllServiceMsgs
  <2>3. PICK j \in Node : \E p \in received_service_msgs'[j] : p.id = <<m.id[1], q[2]>> /\ p.gs < m.gs
    BY <2>1, <2>2 DEF AllInv, OrderInv, Ordered, SenderOrder
  <2>4. PICK p \in received_service_msgs'[j] : p.id = q /\ p.gs < m.gs
    BY <2>1, <2>3
  <2>5. p \in AllServiceMsgs' /\ p # m
    BY <1>1, <1>4, <2>4 DEF AllServiceMsgs
  <2>6. p \in AllServiceMsgs
    BY <1>4, <2>5
  <2> QED BY <1>5, <2>4, <2>6 DEF SequencedIds
<1> QED BY <1>4, <1>5, <1>6, <1>7

\* a step that leaves the order and the queues alone submits at most one write
LEMMA SubmitStep ==
    ASSUME AllInv, UNCHANGED <<received_service_msgs, delivery_queue>>,
           Sent' = Sent \/ \E r \in RequestId \ Sent : Sent' = Sent \cup {r}
    PROVE  [TO!Next]_(TO!tvars)
<1>1. AllServiceMsgs' = AllServiceMsgs
  BY DEF AllServiceMsgs
<1>2. OrderedCount' = OrderedCount
  BY <1>1 DEF OrderedCount
<1>3. CASE Sent' = Sent
  <2>1. UNCHANGED TO!tvars
    BY <1>1, <1>2, <1>3 DEF TO!tvars, Sent
  <2> QED BY <2>1
<1>4. CASE \E r \in RequestId \ Sent : Sent' = Sent \cup {r}
  <2>1. TO!Submit
    BY <1>1, <1>2, <1>4 DEF TO!Submit, Sent
  <2> QED BY <2>1 DEF TO!Next
<1> QED BY <1>3, <1>4

LEMMA HandlerRefines ==
    ASSUME AllInv, NEW q \in RequestId, HandlerStep(q)
    PROVE  [TO!Next]_(TO!tvars)
<1>1. UNCHANGED <<received_service_msgs, delivery_queue>>
  BY DEF HandlerStep, BuildRequest, RegisterPendingResponse, BroadcastRequest,
         logVars, progressVars
<1>2. handler \in [RequestId -> [pc : HandlerPC, md : SeqNo]]
  BY DEF AllInv, TypeOK
<1>3. Sent' = Sent \/ \E r \in RequestId \ Sent : Sent' = Sent \cup {r}
  <2>1. CASE BuildRequest(q)
    BY <1>2, <2>1 DEF BuildRequest, Sent
  <2>2. CASE RegisterPendingResponse(q)
    BY <1>2, <2>2 DEF RegisterPendingResponse, Sent
  <2>3. CASE BroadcastRequest(q)
    <3>1. q \in RequestId \ Sent /\ Sent' = Sent \cup {q}
      BY <1>2, <2>3 DEF BroadcastRequest, Sent
    <3> QED BY <3>1
  <2> QED BY <2>1, <2>2, <2>3 DEF HandlerStep
<1> QED BY <1>1, <1>3, SubmitStep

LEMMA TakenRefines ==
    ASSUME AllInv, AllInv', TakenSomewhere
    PROVE  [TO!Next]_(TO!tvars)
<1>1. PICK i \in Node, pending \in SUBSET RequestId, new \in SUBSET ServiceMessages,
           heard \in [Node -> SeqNo] : Taken(i, pending, new, heard)
  BY DEF TakenSomewhere
<1> DEFINE queues == [j \in Node |-> DeliveredIds(j)]
           d == Len(delivery_queue'[i])
<1>2. Sent' = Sent
  BY <1>1 DEF Taken, rpcVars, Sent
<1>3. /\ \A j \in Node \ {i} : delivery_queue'[j] = delivery_queue[j]
      /\ Len(delivery_queue[i]) <= d /\ Len(delivery_queue[i]) \in Nat /\ d \in Nat
  <2>1. Delivered(i, pending, new, heard)
    BY <1>1 DEF Taken
  <2>2. Len(delivery_queue[i]) \in Nat /\ d \in Nat
    BY DEF AllInv, TypeOK
  <2> QED BY <2>1, <2>2 DEF Delivered, SeqNo
<1>4. /\ Len(GlobalOrder') = OrderedCount' /\ OrderedCount' \in Nat
      /\ d \in 0 .. OrderedCount'
      /\ DeliveredIds(i)' = SubSeq(GlobalOrder', 1, d)
  <2>1. OrderSpelled' /\ QueuePrefix'
    BY OrderFacts, PrefixFacts, PTL
  <2> QED BY <2>1 DEF OrderSpelled, QueuePrefix
<1>5. Len(DeliveredIds(i)) = Len(delivery_queue[i])
  BY PrefixFacts DEF QueuePrefix
<1>6. \A j \in Node \ {i} : DeliveredIds(j)' = DeliveredIds(j)
  BY <1>3 DEF DeliveredIds
<1>7. queues' = [queues EXCEPT ![i] = SubSeq(GlobalOrder', 1, d)]
  BY <1>4, <1>6
<1>8. d \in Len(queues[i]) .. Len(GlobalOrder')
  <2>1. Len(queues[i]) = Len(delivery_queue[i])
    BY <1>5
  <2> QED BY <1>3, <1>4, <2>1
<1>9. TO!Extend
  <2>1. CASE AllServiceMsgs' = AllServiceMsgs
    <3>1. OrderedCount' = OrderedCount
      BY <2>1 DEF OrderedCount
    <3> QED BY <2>1, <3>1 DEF TO!Extend
  <2>2. CASE \E m : Extended(m)
    <3>1. PICK m : Extended(m)
      BY <2>2
    <3>2. /\ GlobalOrder' = Append(GlobalOrder, m.id)
          /\ m.id \in Sent
          /\ m.id \notin {GlobalOrder[x] : x \in 1 .. Len(GlobalOrder)}
          /\ \A q \in RequestId : q[1] = m.id[1] /\ q[2] < m.id[2] =>
                q \in {GlobalOrder[x] : x \in 1 .. Len(GlobalOrder)}
      BY <3>1, GrowthFacts
    <3>3. TO!Ordered = {GlobalOrder[x] : x \in 1 .. Len(GlobalOrder)}
      BY DEF TO!Ordered, GlobalOrder
    <3> QED BY <3>2, <3>3 DEF TO!Extend, GlobalOrder, Sent
  <2> QED BY <2>1, <2>2, OrderGrowth DEF AllInv
<1>10. TO!Progress(i)
  BY <1>2, <1>7, <1>8, <1>9 DEF TO!Progress, GlobalOrder, DeliveredIds, Sent
<1> QED BY <1>10 DEF TO!Next

LEMMA RefineStep ==
    ASSUME AllInv, AllInv', [Next]_vars
    PROVE  [TO!Next]_(TO!tvars)
<1>1. TypeOK /\ WaitInv
  BY DEF AllInv
<1>2. CASE \E i \in Node : NextLocalSeq(i)
  <2>1. PICK i \in Node : NextLocalSeq(i)
    BY <1>2
  <2>2. Sent' = Sent
    <3> DEFINE q == <<i, local_counter[i] + 1>>
    <3>1. /\ q \in RequestId /\ handler[q].pc = "idle"
          /\ handler' = [handler EXCEPT ![q] = [pc |-> "numbered", md |-> @.md]]
      BY <1>1, <2>1, FreshNumber
    <3>2. DOMAIN handler = RequestId
      BY <1>1 DEF TypeOK
    <3> HIDE DEF q
    <3>3. handler'[q].pc = "numbered" /\ \A r \in RequestId : r # q => handler'[r] = handler[r]
      BY <3>1, <3>2
    <3> QED BY <3>1, <3>3 DEF Sent
  <2> QED BY <2>1, <2>2, SubmitStep DEF NextLocalSeq, logVars, progressVars
<1>3. CASE Aside
  BY <1>3, SubmitStep DEF Aside, rpcVars, Sent
<1> QED BY <1>1, <1>2, <1>3, StepShape, HandlerRefines, TakenRefines

\* Every run of the broadcast is a run of TotalOrder, for every group,
\* workload and number of lost or duplicated packets.
THEOREM BroadcastIsTotalOrder == Spec => ImplementsTotalOrder
<1>1. Init => TO!Init
  <2> SUFFICES ASSUME Init PROVE TO!Init
    OBVIOUS
  <2>1. AllServiceMsgs = {}
    BY DEF Init, AllServiceMsgs
  <2>2. OrderedCount = 0
    BY <2>1, FS_EmptySet DEF OrderedCount, GlobalSeqs
  <2>3. GlobalOrder = <<>>
    BY <2>2 DEF GlobalOrder
  <2>4. Sent = {}
    BY DEF Init, Sent
  <2>5. [i \in Node |-> DeliveredIds(i)] = [i \in Node |-> <<>>]
    BY DEF Init, DeliveredIds
  <2> QED BY <2>3, <2>4, <2>5 DEF TO!Init, GlobalOrder, DeliveredIds, Sent
<1>2. AllInv /\ AllInv' /\ [Next]_vars => [TO!Next]_(TO!tvars)
  BY RefineStep
<1> QED BY <1>1, <1>2, AllInvariant, PTL DEF Spec, ImplementsTotalOrder, TO!Spec
==============================================================================
