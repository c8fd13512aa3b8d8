-------------------------- MODULE CustomerDbProofs --------------------------
(***************************************************************************)
(* CustomerDb for every number of replicas, workload, clock and number of  *)
(* database errors: type correctness, that each replica is the server of   *)
(* CustomerServer, and that replicas agree.  The second needs to know that *)
(* the id of a request is not in the tables before the request is          *)
(* executed: nothing is delivered twice, and what is in the tables was     *)
(* delivered.                                                              *)
(***************************************************************************)
EXTENDS CustomerDb, TLAPS, FiniteSetTheorems

(***************************************************************************)
(* Type correctness.                                                       *)
(***************************************************************************)

\* What is submitted was asked for by a client, once.
AskedInv ==
    /\ submitted \subseteq RequestId
    /\ \A r \in submitted : call[r].state # "idle" /\ call[r].body \in Body

\* The order repeats nothing; a node has delivered a prefix of it and executed a
\* prefix of that.
DeliveryInv ==
    /\ order \in Seq(submitted)
    /\ \A x, y \in 1 .. Len(order) : order[x] = order[y] => x = y
    /\ delivered \in [Node -> Seq(submitted)]
    /\ \A i \in Node :
          /\ Len(delivered[i]) <= Len(order)
          /\ \A x \in 1 .. Len(delivered[i]) : delivered[i][x] = order[x]
          /\ executed[i] \in 0 .. Len(delivered[i])

LEMMA BodyFacts ==
    ASSUME NEW b \in Body
    PROVE  \/ b.op = "create_account" /\ b.kind \in Kind /\ b.name \in Names
           \/ /\ b.op = "update_account" /\ b.kind \in Kind /\ b.id \in RequestId
              /\ b.counters \in Counters
           \/ b.op = "create_session" /\ b.kind \in Kind
           \/ b.op = "delete_session" /\ b.session \in RequestId
           \/ b.op = "reset_all"
BY BodiesAssumption DEF Body, Names, Counters

LEMMA ResultType ==
    ASSUME NEW t \in Tables, NEW r \in RequestId, NEW b \in Body, NEW now \in Nat
    PROVE  Result(t, r, b, now) \in Tables
<1>1. CASE b.op = "create_account" /\ b.kind \in Kind /\ b.name \in Names
  <2>1. [kind |-> b.kind, id |-> r, name |-> b.name, counters |-> 0] \in Accounts
    BY <1>1 DEF Accounts, Counters
  <2> QED BY <1>1, <2>1 DEF Result, CreateAccount, Tables
<1>2. CASE /\ b.op = "update_account" /\ b.kind \in Kind /\ b.id \in RequestId
           /\ b.counters \in Counters
  BY <1>2 DEF Result, UpdateAccount, Tables, Accounts
<1>3. CASE b.op = "delete_session"
  BY <1>3 DEF Result, DeleteSession, Tables
<1>4. CASE b.op = "create_session" /\ b.kind \in Kind
  <2>1. [id |-> r, kind |-> b.kind, expiration |-> now + SESSION_TTL] \in Sessions
    BY <1>4, TimesAssumption DEF Sessions
  <2> QED BY <1>4, <2>1 DEF Result, CreateSession, Expiration, Tables
<1>5. CASE b.op = "reset_all"
  BY <1>5 DEF Result, Empty, Tables
<1> QED BY <1>1, <1>2, <1>3, <1>4, <1>5, BodyFacts

LEMMA InitType == Init => TypeOK /\ AskedInv /\ DeliveryInv
<1> SUFFICES ASSUME Init PROVE TypeOK /\ AskedInv /\ DeliveryInv
  OBVIOUS
<1> USE DEF Init, TO!Init
<1>1. TypeOK
  <2>1. Empty \in Tables
    BY DEF Empty, Tables
  <2>2. \A i \in Node : Cardinality(view[i]) <= 1
    BY FS_EmptySet
  <2> QED BY <2>1, <2>2, TimesAssumption DEF TypeOK, CallState
<1>2. AskedInv
  BY DEF AskedInv
<1>3. DeliveryInv
  <2>1. <<>> \in Seq({}) /\ Len(<<>>) = 0
    OBVIOUS
  <2> QED BY <2>1 DEF DeliveryInv
<1> QED BY <1>1, <1>2, <1>3

\* What the executor takes off the queue was asked for.
LEMMA TakenWasAsked ==
    ASSUME AskedInv, DeliveryInv, NEW i \in Node, NEW r \in RequestId, Take(i, r)
    PROVE  r \in submitted /\ call[r].body \in Body /\ executed[i] + 1 \in 1 .. Len(delivered[i])
<1>1. executed[i] + 1 \in 1 .. Len(delivered[i])
  BY DEF Take, DeliveryInv
<1>2. delivered[i] \in Seq(submitted)
  BY DEF DeliveryInv
<1> QED BY <1>1, <1>2 DEF Take, AskedInv

LEMMA RespondType ==
    ASSUME TypeOK, NEW i \in Node, NEW r \in RequestId, NEW state \in CallState \ {"idle"}, Respond(i, r, state)
    PROVE  /\ call' \in [RequestId -> [state : CallState, body : Body \cup {NoBody}]]
           /\ \A q \in RequestId :
                 call'[q].body = call[q].body /\ (call[q].state # "idle" => call'[q].state # "idle")
BY DEF TypeOK, Respond

LEMMA TakeType ==
    ASSUME TypeOK, DeliveryInv, AskedInv, NEW i \in Node, NEW r \in RequestId, Take(i, r)
    PROVE  /\ executed' \in [Node -> Nat]
           /\ \A j \in Node : executed'[j] \in 0 .. Len(delivered[j])
BY TakenWasAsked DEF TypeOK, Take, DeliveryInv

LEMMA SeenType ==
    ASSUME TypeOK, NEW i \in Node
    PROVE  Seen(i) \in Tables
BY DEF TypeOK, Seen

\* A snapshot taken, or ended, on one read connection.
LEMMA ViewType ==
    ASSUME TypeOK, NEW i \in Node, NEW v, v = {} \/ v = {Seen(i)}, view' = [view EXCEPT ![i] = v]
    PROVE  view' \in [Node -> SUBSET Tables] /\ \A j \in Node : Cardinality(view'[j]) <= 1
<1>1. v \in SUBSET Tables
  BY SeenType
<1>2. Cardinality(v) <= 1
  <2>1. Cardinality({}) = 0 /\ Cardinality({Seen(i)}) = 1
    BY FS_EmptySet, FS_Singleton, Zenon
  <2> QED BY <2>1
<1> QED BY <1>1, <1>2 DEF TypeOK

\* What a request did is committed.
LEMMA CommitType ==
    ASSUME TypeOK, AskedInv, DeliveryInv, NEW i \in Node, NEW r \in RequestId, Take(i, r), Commit(i, r)
    PROVE  db' \in [Node -> Tables] /\ issued' \in [Node -> SUBSET Sessions]
<1>1. Result(db[i], r, call[r].body, clock[i]) \in Tables
  BY TakenWasAsked, ResultType, TimesAssumption DEF TypeOK
<1>2. Result(db[i], r, call[r].body, clock[i]).sessions \subseteq Sessions
  BY <1>1 DEF Tables
<1> QED BY <1>1, <1>2 DEF Commit, TypeOK

LEMMA TypeStep ==
    TypeOK /\ AskedInv /\ DeliveryInv /\ [Next]_vars => TypeOK'
<1> SUFFICES ASSUME TypeOK, AskedInv, DeliveryInv, [Next]_vars PROVE TypeOK'
  OBVIOUS
<1>1. ASSUME NEW r \in RequestId, TimeOut(r) PROVE TypeOK'
  BY <1>1 DEF TypeOK, TimeOut, CallState, execVars, bcVars
<1>2. ASSUME NEW r \in RequestId, NEW b \in Bodies[r], Write(r, b) PROVE TypeOK'
  <2>1. b \in Body
    BY DEF Body
  <2> QED BY <1>2, <2>1 DEF TypeOK, Write, CallState, execVars
<1>3. ASSUME NEW i \in Node, Broadcast(i) PROVE TypeOK'
  BY <1>3 DEF TypeOK, Broadcast, execVars
<1>4. ASSUME NEW i \in Node, Execute(i) PROVE TypeOK'
  <2>1. PICK r \in RequestId :
           /\ Take(i, r)
           /\ Commit(i, r)
           /\ Respond(i, r, "ok")
           /\ UNCHANGED <<bcVars, failed, running, view, clock>>
    BY <1>4 DEF Execute
  <2>3. db' \in [Node -> Tables] /\ issued' \in [Node -> SUBSET Sessions]
    BY <2>1, CommitType
  <2>4. call' \in [RequestId -> [state : CallState, body : Body \cup {NoBody}]]
    BY <2>1, RespondType DEF CallState
  <2>5. executed' \in [Node -> Nat]
    BY <2>1, TakeType
  <2> QED BY <2>1, <2>3, <2>4, <2>5 DEF TypeOK
<1>5. ASSUME NEW i \in Node, ExecuteFails(i) PROVE TypeOK'
  <2>1. PICK r \in RequestId :
           /\ Take(i, r)
           /\ failed' = [failed EXCEPT ![i] = @ \cup {r}]
           /\ Respond(i, r, "failed")
           /\ UNCHANGED <<bcVars, running, db, view, clock, issued>>
    BY <1>5 DEF ExecuteFails
  <2>2. call' \in [RequestId -> [state : CallState, body : Body \cup {NoBody}]]
    BY <2>1, RespondType DEF CallState
  <2>3. executed' \in [Node -> Nat]
    BY <2>1, TakeType
  <2> QED BY <2>1, <2>2, <2>3 DEF TypeOK
<1>6. ASSUME NEW i \in Node, ExecutorDies(i) PROVE TypeOK'
  <2>1. PICK r \in RequestId :
           /\ Take(i, r)
           /\ running' = [running EXCEPT ![i] = FALSE]
           /\ \/ /\ Commit(i, r)
                 /\ UNCHANGED failed
              \/ /\ failed' = [failed EXCEPT ![i] = @ \cup {r}]
                 /\ UNCHANGED <<db, issued>>
           /\ UNCHANGED <<bcVars, call, view, clock>>
    BY <1>6 DEF ExecutorDies
  <2>3. /\ db' \in [Node -> Tables] /\ issued' \in [Node -> SUBSET Sessions]
        /\ failed' \in [Node -> SUBSET RequestId]
    BY <2>1, CommitType DEF TypeOK
  <2>4. executed' \in [Node -> Nat]
    BY <2>1, TakeType
  <2> QED BY <2>1, <2>3, <2>4 DEF TypeOK
<1>7. ASSUME NEW i \in Node, GetAccount(i) PROVE TypeOK'
  <2>1. view' \in [Node -> SUBSET Tables] /\ \A j \in Node : Cardinality(view'[j]) <= 1
    BY <1>7, ViewType DEF GetAccount
  <2> QED BY <1>7, <2>1 DEF TypeOK, GetAccount, execVars
<1>8. ASSUME NEW i \in Node, NEW r \in RequestId, GetSession(i, r) PROVE TypeOK'
  <2>1. view' \in [Node -> SUBSET Tables] /\ \A j \in Node : Cardinality(view'[j]) <= 1
    BY <1>8, ViewType DEF GetSession
  <2>2. db' \in [Node -> Tables]
    BY <1>8 DEF TypeOK, GetSession, DeleteSession, Tables
  <2> QED BY <1>8, <2>1, <2>2 DEF TypeOK, GetSession, execVars
<1>9. ASSUME NEW i \in Node, Tick(i) PROVE TypeOK'
  BY <1>9, TimesAssumption DEF TypeOK, Tick, execVars
<1>10. CASE UNCHANGED vars
  BY <1>10 DEF TypeOK, vars, execVars
<1> QED
  BY <1>1, <1>2, <1>3, <1>4, <1>5, <1>6, <1>7, <1>8, <1>9, <1>10 DEF Next, ExecutorStep

LEMMA AskedStep ==
    TypeOK /\ AskedInv /\ DeliveryInv /\ [Next]_vars => AskedInv'
<1> SUFFICES ASSUME TypeOK, AskedInv, DeliveryInv, [Next]_vars PROVE AskedInv'
  OBVIOUS
<1>1. ASSUME NEW r \in RequestId, NEW b \in Bodies[r], Write(r, b) PROVE AskedInv'
  <2>1. b \in Body
    BY DEF Body
  <2> QED BY <1>1, <2>1 DEF TypeOK, AskedInv, Write
<1>2. CASE /\ submitted' = submitted
           /\ \A q \in RequestId :
                 call'[q].body = call[q].body /\ (call[q].state # "idle" => call'[q].state # "idle")
  BY <1>2 DEF AskedInv
<1>3. ASSUME NEW r \in RequestId, TimeOut(r) PROVE AskedInv'
  BY <1>2, <1>3 DEF TypeOK, TimeOut, bcVars
<1>4. ASSUME NEW i \in Node, Broadcast(i) PROVE AskedInv'
  BY <1>2, <1>4 DEF Broadcast, TO!Progress
<1>5. ASSUME NEW i \in Node, ExecutorStep(i) PROVE AskedInv'
  <2>1. CASE Execute(i)
    BY <1>2, <2>1, RespondType DEF Execute, bcVars, CallState
  <2>2. CASE ExecuteFails(i)
    BY <1>2, <2>2, RespondType DEF ExecuteFails, bcVars, CallState
  <2>3. CASE ExecutorDies(i)
    BY <1>2, <2>3 DEF ExecutorDies, bcVars
  <2> QED BY <1>5, <2>1, <2>2, <2>3 DEF ExecutorStep
<1>6. ASSUME NEW i \in Node, GetAccount(i) PROVE AskedInv'
  BY <1>2, <1>6 DEF GetAccount, bcVars
<1>7. ASSUME NEW i \in Node, NEW r \in RequestId, GetSession(i, r) PROVE AskedInv'
  BY <1>2, <1>7 DEF GetSession, bcVars
<1>8. ASSUME NEW i \in Node, Tick(i) PROVE AskedInv'
  BY <1>2, <1>8 DEF Tick, bcVars
<1>9. CASE UNCHANGED vars
  BY <1>2, <1>9 DEF vars, bcVars
<1> QED BY <1>1, <1>3, <1>4, <1>5, <1>6, <1>7, <1>8, <1>9 DEF Next

\* The abstract broadcast: what a node's step does to the order and to what it delivered.
LEMMA BroadcastStep ==
    ASSUME AskedInv, DeliveryInv, NEW i \in Node, Broadcast(i)
    PROVE  DeliveryInv'
<1>1. PICK d \in Len(delivered[i]) .. Len(order') :
         delivered' = [delivered EXCEPT ![i] = SubSeq(order', 1, d)]
  BY DEF Broadcast, TO!Progress
<1>2. /\ submitted' = submitted /\ executed' = executed
      /\ order \in Seq(submitted) /\ TO!Extend
  BY DEF Broadcast, TO!Progress, execVars, DeliveryInv
<1> DEFINE Grown == /\ order' \in Seq(submitted)
                    /\ Len(order) <= Len(order')
                    /\ \A x \in 1 .. Len(order) : order'[x] = order[x]
                    /\ \A x, y \in 1 .. Len(order') : order'[x] = order'[y] => x = y
<1>3. Grown
  <2>1. CASE order' = order
    BY <1>2, <2>1 DEF DeliveryInv
  <2>2. ASSUME NEW r \in submitted \ TO!Ordered, order' = Append(order, r)
        PROVE  Grown
    <3>1. order' \in Seq(submitted) /\ Len(order') = Len(order) + 1
      BY <1>2, <2>2
    <3>2. \A x \in 1 .. Len(order) : order'[x] = order[x] /\ order'[x] # r
      BY <1>2, <2>2 DEF TO!Ordered
    <3>3. order'[Len(order')] = r
      BY <1>2, <2>2
    <3>4. \A x \in 1 .. Len(order') : x \in 1 .. Len(order) \/ x = Len(order')
      BY <1>2, <3>1
    <3> QED BY <1>2, <3>1, <3>2, <3>3, <3>4 DEF DeliveryInv
  <2> QED BY <1>2, <2>1, <2>2 DEF TO!Extend
<1>4. /\ SubSeq(order', 1, d) \in Seq(submitted)
      /\ Len(SubSeq(order', 1, d)) = d
      /\ \A x \in 1 .. d : SubSeq(order', 1, d)[x] = order'[x]
  BY <1>2, <1>3 DEF DeliveryInv
<1>5. delivered' \in [Node -> Seq(submitted)]
  BY <1>1, <1>4 DEF DeliveryInv
<1>6. ASSUME NEW j \in Node
      PROVE  /\ Len(delivered'[j]) <= Len(order')
             /\ \A x \in 1 .. Len(delivered'[j]) : delivered'[j][x] = order'[x]
             /\ executed[j] \in 0 .. Len(delivered'[j])
  <2>1. CASE j = i
    BY <1>1, <1>2, <1>3, <1>4, <2>1 DEF DeliveryInv
  <2>2. CASE j # i
    <3>1. delivered'[j] = delivered[j] /\ Len(delivered[j]) \in Nat
      BY <1>1, <2>2 DEF DeliveryInv
    <3> QED BY <1>2, <1>3, <3>1 DEF DeliveryInv
  <2> QED BY <2>1, <2>2
<1> QED BY <1>2, <1>3, <1>5, <1>6 DEF DeliveryInv

\* Nothing is said of what has only been asked for.
LEMMA SubmitKeepsDelivery ==
    ASSUME DeliveryInv, submitted \subseteq submitted',
           UNCHANGED <<order, delivered>>,
           \A i \in Node : executed'[i] \in 0 .. Len(delivered[i])
    PROVE  DeliveryInv'
<1>1. \A s \in Seq(submitted) : s \in Seq(submitted')
  OBVIOUS
<1> QED BY <1>1 DEF DeliveryInv

LEMMA DeliveryStep ==
    TypeOK /\ AskedInv /\ DeliveryInv /\ [Next]_vars => DeliveryInv'
<1> SUFFICES ASSUME TypeOK, AskedInv, DeliveryInv, [Next]_vars PROVE DeliveryInv'
  OBVIOUS
<1>1. CASE /\ submitted \subseteq submitted' /\ UNCHANGED <<order, delivered>>
           /\ executed' = executed
  BY <1>1, SubmitKeepsDelivery DEF DeliveryInv
<1>2. ASSUME NEW i \in Node, ExecutorStep(i) PROVE DeliveryInv'
  <2>1. PICK r \in RequestId : Take(i, r)
    BY <1>2 DEF ExecutorStep, Execute, ExecuteFails, ExecutorDies
  <2>2. UNCHANGED bcVars
    BY <1>2 DEF ExecutorStep, Execute, ExecuteFails, ExecutorDies
  <2> QED BY <2>1, <2>2, TakeType, SubmitKeepsDelivery DEF bcVars
<1>3. ASSUME NEW i \in Node, Broadcast(i) PROVE DeliveryInv'
  BY <1>3, BroadcastStep
<1>4. ASSUME NEW r \in RequestId, TimeOut(r) \/ \E b \in Bodies[r] : Write(r, b)
      PROVE  DeliveryInv'
  BY <1>1, <1>4 DEF TimeOut, Write, bcVars, execVars
<1>5. ASSUME NEW i \in Node,
             GetAccount(i) \/ (\E r \in RequestId : GetSession(i, r)) \/ Tick(i)
      PROVE  DeliveryInv'
  BY <1>1, <1>5 DEF GetAccount, GetSession, Tick, bcVars, execVars
<1>6. CASE UNCHANGED vars
  BY <1>1, <1>6 DEF vars, bcVars, execVars
<1> QED BY <1>2, <1>3, <1>4, <1>5, <1>6 DEF Next

Inv == TypeOK /\ AskedInv /\ DeliveryInv

LEMMA Invariance == Spec => []Inv
BY InitType, TypeStep, AskedStep, DeliveryStep, PTL DEF Inv, Spec

\* Every variable keeps its type, however many replicas, requests, errors and
\* seconds there are.
THEOREM TypeCorrect == Spec => []TypeOK
<1>1. Inv => TypeOK
  BY DEF Inv
<1> QED BY <1>1, Invariance, PTL

(***************************************************************************)
(* Each replica is the single server.                                      *)
(***************************************************************************)

\* An account has the id of a request that was executed at its replica.
FreshInv == \A i \in Node : \A a \in db[i].accounts :
    \E x \in 1 .. executed[i] : delivered[i][x] = a.id

LEMMA ResultIds ==
    ASSUME NEW t \in Tables, NEW r \in RequestId, NEW b \in Body, NEW now \in Nat,
           NEW a \in Result(t, r, b, now).accounts
    PROVE  a.id = r \/ \E c \in t.accounts : a.id = c.id
<1>1. CASE b.op = "create_account"
  BY <1>1 DEF Result, CreateAccount
<1>2. CASE b.op = "update_account"
  <2>1. PICK c \in t.accounts :
           a = IF c.kind = b.kind /\ c.id = b.id
               THEN [kind |-> c.kind, id |-> c.id, name |-> c.name, counters |-> b.counters] ELSE c
    BY <1>2 DEF Result, UpdateAccount
  <2>2. a.id = c.id
    BY <2>1
  <2> QED BY <2>2
<1>3. CASE b.op = "delete_session"
  BY <1>3 DEF Result, DeleteSession
<1>4. CASE b.op = "create_session"
  BY <1>4 DEF Result, CreateSession
<1>5. CASE b.op = "reset_all"
  BY <1>5 DEF Result, Empty
<1> QED BY <1>1, <1>2, <1>3, <1>4, <1>5, BodyFacts

\* What has been executed and delivered stays.
LEMMA DeliveredStays ==
    ASSUME Inv, [Next]_vars, NEW i \in Node
    PROVE  /\ executed[i] <= executed'[i]
           /\ \A x \in 1 .. executed[i] : delivered'[i][x] = delivered[i][x]
<1>1. CASE delivered' = delivered /\ executed' = executed
  BY <1>1 DEF Inv, DeliveryInv
<1>2. ASSUME NEW j \in Node, Broadcast(j)
      PROVE  /\ executed[i] <= executed'[i]
             /\ \A x \in 1 .. executed[i] : delivered'[i][x] = delivered[i][x]
  <2>1. PICK d \in Len(delivered[j]) .. Len(order') :
           delivered' = [delivered EXCEPT ![j] = SubSeq(order', 1, d)]
    BY <1>2 DEF Broadcast, TO!Progress
  <2>2. executed' = executed /\ order \in Seq(submitted) /\ TO!Extend
    BY <1>2 DEF Broadcast, TO!Progress, execVars, Inv, DeliveryInv
  <2>3. \A x \in 1 .. Len(order) : order'[x] = order[x]
    BY <2>2 DEF TO!Extend
  <2>4. order' \in Seq(submitted)
    BY <2>2 DEF TO!Extend
  <2>5. \A x \in 1 .. executed[j] : SubSeq(order', 1, d)[x] = delivered[j][x]
    BY <2>3, <2>4 DEF Inv, DeliveryInv
  <2> QED BY <2>1, <2>2, <2>5 DEF Inv, DeliveryInv
<1>3. ASSUME NEW j \in Node, ExecutorStep(j)
      PROVE  executed[i] <= executed'[i] /\ delivered' = delivered
  <2>1. PICK r \in RequestId : Take(j, r)
    BY <1>3 DEF ExecutorStep, Execute, ExecuteFails, ExecutorDies
  <2>2. delivered' = delivered
    BY <1>3 DEF ExecutorStep, Execute, ExecuteFails, ExecutorDies, bcVars
  <2> QED BY <2>1, <2>2 DEF Take, Inv, TypeOK
<1>4. ASSUME NEW r \in RequestId, TimeOut(r) \/ \E b \in Bodies[r] : Write(r, b)
      PROVE  delivered' = delivered /\ executed' = executed
  BY <1>4 DEF TimeOut, Write, bcVars, execVars
<1>5. ASSUME NEW j \in Node,
             GetAccount(j) \/ (\E r \in RequestId : GetSession(j, r)) \/ Tick(j)
      PROVE  delivered' = delivered /\ executed' = executed
  BY <1>5 DEF GetAccount, GetSession, Tick, bcVars, execVars
<1>6. CASE UNCHANGED vars
  BY <1>1, <1>6 DEF vars, bcVars, execVars
<1> QED BY <1>1, <1>2, <1>3, <1>4, <1>5, <1>6 DEF Next

\* What a step does to the accounts of a replica: nothing new, or what executing
\* one request that was never executed there before does.
Executes(i, r) ==
    /\ Take(i, r)
    /\ db' = [db EXCEPT ![i] = Result(@, r, call[r].body, clock[i])]
    /\ UNCHANGED <<delivered, clock>>

Reads(i) ==
    /\ db' = db \/ \E r \in RequestId : db' = [db EXCEPT ![i] = DeleteSession(@, r)]
    /\ UNCHANGED clock

LEMMA StepOnTables ==
    ASSUME [Next]_vars
    PROVE  \/ \E i \in Node, r \in RequestId : Executes(i, r)
           \/ \E i \in Node : Reads(i)
           \/ \E i \in Node : Tick(i)
           \/ UNCHANGED <<db, clock>>
<1>1. ASSUME NEW i \in Node, ExecutorStep(i)
      PROVE  (\E r \in RequestId : Executes(i, r)) \/ UNCHANGED <<db, clock>>
  BY <1>1 DEF ExecutorStep, Execute, ExecuteFails, ExecutorDies, Executes, Commit, bcVars
<1>2. ASSUME NEW i \in Node, NEW r \in RequestId, GetSession(i, r)
      PROVE  Reads(i)
  BY <1>2 DEF GetSession, Reads
<1>3. ASSUME NEW i \in Node, Broadcast(i) \/ GetAccount(i)
      PROVE  UNCHANGED <<db, clock>>
  BY <1>3 DEF Broadcast, GetAccount
<1>4. ASSUME NEW r \in RequestId, TimeOut(r) \/ \E b \in Bodies[r] : Write(r, b)
      PROVE  UNCHANGED <<db, clock>>
  BY <1>4 DEF TimeOut, Write
<1>5. CASE UNCHANGED vars
  BY <1>5 DEF vars
<1> QED BY <1>1, <1>2, <1>3, <1>4, <1>5 DEF Next

LEMMA FreshStep == Inv /\ FreshInv /\ [Next]_vars => FreshInv'
<1> SUFFICES ASSUME Inv, FreshInv, [Next]_vars, NEW i \in Node, NEW a \in db'[i].accounts
             PROVE  \E x \in 1 .. executed'[i] : delivered'[i][x] = a.id
  BY DEF FreshInv
<1>1. ASSUME NEW c \in db[i].accounts, a.id = c.id
      PROVE  \E x \in 1 .. executed'[i] : delivered'[i][x] = a.id
  <2>1. PICK x \in 1 .. executed[i] : delivered[i][x] = c.id
    BY DEF FreshInv
  <2>2. executed'[i] \in Nat /\ executed[i] \in Nat
    BY TypeStep DEF Inv, TypeOK
  <2> QED BY <1>1, <2>1, <2>2, DeliveredStays
<1>2. ASSUME NEW j \in Node, NEW r \in RequestId, Executes(j, r)
      PROVE  \E x \in 1 .. executed'[i] : delivered'[i][x] = a.id
  <2>1. CASE i # j
    BY <1>1, <1>2, <2>1 DEF Executes, Inv, TypeOK
  <2>2. CASE i = j
    <3>1. call[r].body \in Body
      BY <1>2, TakenWasAsked DEF Executes, Inv
    <3>2. a \in Result(db[i], r, call[r].body, clock[i]).accounts
      BY <1>2, <2>2 DEF Executes, Inv, TypeOK
    <3>3. db[i] \in Tables /\ clock[i] \in Nat
      BY TimesAssumption DEF Inv, TypeOK
    <3>4. CASE a.id = r
      <4>1. executed'[i] = executed[i] + 1 /\ delivered' = delivered
        BY <1>2, <2>2 DEF Executes, Take, Inv, TypeOK
      <4>2. executed[i] \in Nat /\ delivered[i][executed[i] + 1] = r
        BY <1>2, <2>2 DEF Executes, Take, Inv, TypeOK
      <4> QED BY <3>4, <4>1, <4>2
    <3> QED BY <1>1, <3>1, <3>2, <3>3, <3>4, ResultIds
  <2> QED BY <2>1, <2>2
<1>3. ASSUME NEW j \in Node, Reads(j)
      PROVE  \E x \in 1 .. executed'[i] : delivered'[i][x] = a.id
  <2>1. a \in db[i].accounts
    BY <1>3 DEF Reads, DeleteSession, Inv, TypeOK
  <2> QED BY <1>1, <2>1
<1>4. CASE db' = db
  BY <1>1, <1>4
<1> QED BY <1>2, <1>3, <1>4, StepOnTables DEF Tick

LEMMA FreshInvariance == Spec => []FreshInv
<1>1. Init => FreshInv
  BY DEF Init, FreshInv, Empty
<1> QED BY <1>1, FreshStep, Invariance, PTL DEF Spec

\* A request that is about to be executed has no account.
LEMMA IdIsFresh ==
    ASSUME Inv, FreshInv, NEW i \in Node, NEW r \in RequestId, Take(i, r), NEW a \in db[i].accounts
    PROVE  a.id # r
<1>1. PICK x \in 1 .. executed[i] : delivered[i][x] = a.id
  BY DEF FreshInv
<1>2. executed[i] + 1 \in 1 .. Len(delivered[i]) /\ delivered[i][executed[i] + 1] = r
  BY TakenWasAsked DEF Inv, Take
<1>3. x \in 1 .. Len(order) /\ executed[i] + 1 \in 1 .. Len(order) /\ x # executed[i] + 1
  BY <1>2 DEF Inv, DeliveryInv
<1>4. order[x] = a.id /\ order[executed[i] + 1] = r
  <2>1. x \in 1 .. Len(delivered[i])
    BY <1>2 DEF Inv, DeliveryInv
  <2> QED BY <1>1, <1>2, <2>1 DEF Inv, DeliveryInv
<1>5. order[x] # order[executed[i] + 1]
  BY <1>3 DEF Inv, DeliveryInv
<1> QED BY <1>4, <1>5

\* One request at one replica is one step of the server, or none.
LEMMA ResultIsServerStep ==
    ASSUME Inv, FreshInv, NEW i \in Node, NEW r \in RequestId, Executes(i, r)
    PROVE  [Server(i)!Next]_(Server(i)!vars)
<1> DEFINE t == db[i]
           b == call[r].body
<1>1. /\ t \in Tables /\ b \in Body /\ clock[i] \in Nat
      /\ db'[i] = Result(t, r, b, clock[i]) /\ clock'[i] = clock[i]
  BY TakenWasAsked, TimesAssumption DEF Executes, Inv, TypeOK
<1>2. \A a \in t.accounts : a.id # r
  BY IdIsFresh DEF Executes
<1>3. CASE b.op = "create_account" /\ b.kind \in Kind /\ b.name \in Names
  <2>1. CASE NameTaken(t, b)
    BY <1>1, <1>3, <2>1 DEF Result, CreateAccount, Server!vars
  <2>2. CASE ~ NameTaken(t, b)
    <3>1. Server(i)!CreateAccount(b.kind, r, b.name)
      BY <1>1, <1>2, <1>3, <2>2
         DEF Result, CreateAccount, NameTaken, Server!CreateAccount, Server!AccountsWithId,
             Server!AccountsNamed, Tables
    <3> QED BY <1>3, <3>1 DEF Server!Next, Server!Kind, Kind
  <2> QED BY <2>1, <2>2
<1>4. CASE /\ b.op = "update_account" /\ b.kind \in Kind /\ b.id \in RequestId
           /\ b.counters \in Counters
  <2>1. Server(i)!UpdateAccount(b.kind, b.id, b.counters)
    BY <1>1, <1>4
       DEF Result, UpdateAccount, Server!UpdateAccount, Server!AccountsWithId, Tables, Accounts
  <2> QED BY <1>4, <2>1 DEF Server!Next, Server!Kind, Kind
<1>5. CASE b.op = "delete_session" /\ b.session \in RequestId
  <2>1. Server(i)!DeleteSession(b.session)
    BY <1>1, <1>5 DEF Result, DeleteSession, Server!DeleteSession, Tables
  <2> QED BY <1>5, <2>1 DEF Server!Next
<1>6. CASE b.op = "create_session" /\ b.kind \in Kind
  <2>1. CASE \E s \in t.sessions : s.id = r
    BY <1>1, <1>6, <2>1 DEF Result, CreateSession, Server!vars
  <2>2. CASE ~ \E s \in t.sessions : s.id = r
    <3>1. Server(i)!CreateSession(b.kind, r)
      BY <1>1, <1>6, <2>2 DEF Result, CreateSession, Expiration, Server!CreateSession, Tables
    <3> QED BY <1>6, <3>1 DEF Server!Next, Server!Kind, Kind
  <2> QED BY <2>1, <2>2
<1>7. CASE b.op = "reset_all"
  <2>1. Server(i)!ResetAll
    BY <1>1, <1>7 DEF Result, Empty, Server!ResetAll
  <2> QED BY <2>1 DEF Server!Next
<1> QED BY <1>1, <1>3, <1>4, <1>5, <1>6, <1>7, BodyFacts

LEMMA EveryStepIsServerStep ==
    Inv /\ FreshInv /\ [Next]_vars => \A i \in Node : [Server(i)!Next]_(Server(i)!vars)
<1> SUFFICES ASSUME Inv, FreshInv, [Next]_vars, NEW i \in Node
             PROVE  [Server(i)!Next]_(Server(i)!vars)
  OBVIOUS
<1>1. CASE db'[i] = db[i] /\ clock'[i] = clock[i]
  BY <1>1 DEF Server!vars
<1>2. ASSUME NEW j \in Node, NEW r \in RequestId, Executes(j, r)
      PROVE  [Server(i)!Next]_(Server(i)!vars)
  <2>1. CASE i = j
    BY <1>2, <2>1, ResultIsServerStep
  <2>2. CASE i # j
    BY <1>1, <1>2, <2>2 DEF Executes, Inv, TypeOK
  <2> QED BY <2>1, <2>2
<1>3. ASSUME NEW j \in Node, Reads(j)
      PROVE  [Server(i)!Next]_(Server(i)!vars)
  <2>1. CASE i # j \/ db' = db
    BY <1>1, <1>3, <2>1 DEF Reads, Inv, TypeOK
  <2>2. ASSUME NEW r \in RequestId, db' = [db EXCEPT ![i] = DeleteSession(@, r)], i = j
        PROVE  [Server(i)!Next]_(Server(i)!vars)
    <3>1. Server(i)!DeleteSession(r)
      BY <1>3, <2>2 DEF Reads, DeleteSession, Server!DeleteSession, Inv, TypeOK
    <3> QED BY <3>1 DEF Server!Next
  <2> QED BY <1>3, <2>1, <2>2 DEF Reads
<1>4. ASSUME NEW j \in Node, Tick(j)
      PROVE  [Server(i)!Next]_(Server(i)!vars)
  <2>1. CASE i # j
    BY <1>1, <1>4, <2>1 DEF Tick, Inv, TypeOK
  <2>2. CASE i = j
    <3>1. Server(i)!Tick
      BY <1>4, <2>2 DEF Tick, Server!Tick, Inv, TypeOK
    <3> QED BY <3>1 DEF Server!Next
  <2> QED BY <2>1, <2>2
<1> QED BY <1>1, <1>2, <1>3, <1>4, StepOnTables

\* Each replica is the single server that customer_db was, with a clock of its own:
\* its tables go only through what that server's RPCs can do, however requests are
\* ordered, answered late, rolled back or cut short.
THEOREM ReplicaIsServer == Spec => EachReplicaIsAServer
<1>1. Init => \A i \in Node : Server(i)!Init
  BY DEF Init, Empty, Server!Init
<1>2. /\ Inv /\ FreshInv /\ [Next]_vars
      => [\A i \in Node : [Server(i)!Next]_(Server(i)!vars)]_vars
  BY EveryStepIsServerStep
<1> QED BY <1>1, <1>2, Invariance, FreshInvariance, PTL DEF Spec, EachReplicaIsAServer

(***************************************************************************)
(* The replicas agree.                                                     *)
(*                                                                         *)
(* The tables of a replica are said by its history: the requests that took *)
(* effect there, each at its place in the global order.  An account is     *)
(* there if its request is the first of its name since the last reset; its *)
(* counters are those of the last update.  None of this mentions the       *)
(* replica, so two replicas with one history have one table.               *)
(***************************************************************************)
Entry == [id : RequestId, body : Body]

\* A history: entries at places of the order, and what can be read off it.
Creation(b) == b.op = "create_account"
SameName(b, c) == b.kind = c.kind /\ b.name = c.name
Live(h) == {x \in DOMAIN h : \A y \in DOMAIN h : y > x => h[y].body.op # "reset_all"}
Creates(h, x) ==
    /\ x \in Live(h)
    /\ Creation(h[x].body)
    /\ \A y \in Live(h) : (y < x /\ Creation(h[y].body)) => ~ SameName(h[y].body, h[x].body)
Updates(h, x) ==
    {y \in Live(h) : /\ y > x /\ h[y].body.op = "update_account"
                     /\ h[y].body.kind = h[x].body.kind /\ h[y].body.id = h[x].id}
HasCounters(h, x, c) ==
    \/ Updates(h, x) = {} /\ c = 0
    \/ \E y \in Updates(h, x) : c = h[y].body.counters /\ \A z \in Updates(h, x) : z <= y
\* the row of an account is what the creation at x and the later updates made it
Written(h, x, a) ==
    /\ Creates(h, x)
    /\ a.id = h[x].id /\ SameName(a, h[x].body)
    /\ HasCounters(h, x, a.counters)
\* a session was created, of that kind, and not deleted by a request
Opened(h, id, kind) == \E x \in Live(h) :
    /\ h[x].body.op = "create_session" /\ h[x].id = id /\ h[x].body.kind = kind
    /\ \A y \in Live(h) : (y > x /\ h[y].body.op = "delete_session") => h[y].body.session # id

\* The tables that belong to a history, at a replica that may have deleted the
\* sessions that are gone.
AccountsBelong(t, h) ==
    /\ \A a \in t.accounts : \E x \in DOMAIN h : Written(h, x, a)
    /\ \A a \in Accounts : (\E x \in DOMAIN h : Written(h, x, a)) => a \in t.accounts
    /\ \A x \in DOMAIN h : Creates(h, x) => \E a \in t.accounts : a.id = h[x].id
    /\ \A x \in Live(h) : Creation(h[x].body) => NameTaken(t, h[x].body)
SessionsBelong(t, h, gone) ==
    /\ \A s \in t.sessions : Opened(h, s.id, s.kind)
    /\ \A id \in RequestId, kind \in Kind :
          Opened(h, id, kind) => (\E s \in t.sessions : s.id = id /\ s.kind = kind) \/ id \in gone

(***************************************************************************)
(* One more request takes effect.                                          *)
(***************************************************************************)
\* g is h, whose places are D, and then e at n; said with the comparisons of places
\* that the proofs need
Longer(g, h, D, n, e) ==
    /\ h \in [D -> Entry] /\ e \in Entry
    /\ g \in [D \cup {n} -> Entry] /\ g[n] = e
    /\ ~ n > n /\ ~ n < n /\ n <= n
    /\ \A x \in D : /\ g[x] = h[x] /\ x # n
                    /\ n > x /\ x < n /\ x <= n /\ ~ x > n /\ ~ n < x /\ ~ n <= x

LEMMA LiveAfter ==
    ASSUME NEW g, NEW h, NEW D, NEW n, NEW e, Longer(g, h, D, n, e)
    PROVE  /\ Live(g) = IF e.body.op = "reset_all" THEN {n} ELSE Live(h) \cup {n}
           /\ Live(h) \subseteq D
<1>1. DOMAIN g = D \cup {n} /\ DOMAIN h = D
  BY DEF Longer
<1>2. CASE e.body.op = "reset_all"
  BY <1>1, <1>2 DEF Live, Longer
<1>3. CASE e.body.op # "reset_all"
  BY <1>1, <1>3 DEF Live, Longer
<1> QED BY <1>1, <1>2, <1>3 DEF Live

LEMMA CreatesAfter ==
    ASSUME NEW g, NEW h, NEW D, NEW n, NEW e, Longer(g, h, D, n, e), e.body.op # "reset_all"
    PROVE  /\ \A x \in D : Creates(g, x) <=> Creates(h, x)
           /\ Creates(g, n) <=>
                 /\ Creation(e.body)
                 /\ \A y \in Live(h) : Creation(h[y].body) => ~ SameName(h[y].body, e.body)
<1>1. Live(g) = Live(h) \cup {n} /\ Live(h) \subseteq D
  BY LiveAfter
<1>2. ASSUME NEW x \in D PROVE Creates(g, x) <=> Creates(h, x)
  BY <1>1 DEF Longer, Creates
<1>3. Creates(g, n) <=>
         /\ Creation(e.body)
         /\ \A y \in Live(h) : Creation(h[y].body) => ~ SameName(h[y].body, e.body)
  BY <1>1 DEF Longer, Creates
<1> QED BY <1>2, <1>3

\* the request e updates the account created at x
Touches(e, h, x) == e.body.op = "update_account" /\ e.body.kind = h[x].body.kind /\ e.body.id = h[x].id

LEMMA UpdatesAfter ==
    ASSUME NEW g, NEW h, NEW D, NEW n, NEW e, Longer(g, h, D, n, e), e.body.op # "reset_all"
    PROVE  /\ \A x \in D : Updates(g, x) = IF Touches(e, h, x) THEN Updates(h, x) \cup {n} ELSE Updates(h, x)
           /\ Updates(g, n) = {}
<1>1. Live(g) = Live(h) \cup {n} /\ Live(h) \subseteq D
  BY LiveAfter
<1>2. ASSUME NEW x \in D
      PROVE  Updates(g, x) = IF Touches(e, h, x) THEN Updates(h, x) \cup {n} ELSE Updates(h, x)
  BY <1>1 DEF Longer, Updates, Touches
<1>3. Updates(g, n) = {}
  BY <1>1 DEF Longer, Updates
<1> QED BY <1>2, <1>3

\* Counters change only with an update of the account.
LEMMA CountersAfter ==
    ASSUME NEW g, NEW h, NEW D, NEW n, NEW e, Longer(g, h, D, n, e), e.body.op # "reset_all",
           NEW x \in D, NEW c
    PROVE  HasCounters(g, x, c) <=> IF Touches(e, h, x) THEN c = e.body.counters ELSE HasCounters(h, x, c)
<1>1. Updates(h, x) \subseteq D
  BY LiveAfter DEF Updates
<1>2. CASE Touches(e, h, x)
  <2>1. Updates(g, x) = Updates(h, x) \cup {n}
    BY <1>2, UpdatesAfter
  <2> QED BY <1>1, <1>2, <2>1 DEF Longer, HasCounters
<1>3. CASE ~ Touches(e, h, x)
  <2>1. Updates(g, x) = Updates(h, x)
    BY <1>3, UpdatesAfter
  <2> QED BY <1>1, <1>3, <2>1 DEF Longer, HasCounters
<1> QED BY <1>2, <1>3

\* A request that neither resets nor updates leaves the rows that were written.
LEMMA WrittenAfter ==
    ASSUME NEW g, NEW h, NEW D, NEW n, NEW e, Longer(g, h, D, n, e), e.body.op # "reset_all"
    PROVE  /\ \A x \in D : \A a : (~ Touches(e, h, x)) => (Written(g, x, a) <=> Written(h, x, a))
           /\ \A x \in D : \A a : Touches(e, h, x) =>
                 (Written(g, x, a) <=> /\ Creates(h, x) /\ a.id = h[x].id
                                       /\ SameName(a, h[x].body) /\ a.counters = e.body.counters)
<1> SUFFICES ASSUME NEW x \in D, NEW a
             PROVE  /\ (~ Touches(e, h, x)) => (Written(g, x, a) <=> Written(h, x, a))
                    /\ Touches(e, h, x) =>
                          (Written(g, x, a) <=> /\ Creates(h, x) /\ a.id = h[x].id
                                                /\ SameName(a, h[x].body) /\ a.counters = e.body.counters)
  OBVIOUS
<1>1. g[x] = h[x] /\ (Creates(g, x) <=> Creates(h, x))
  BY CreatesAfter DEF Longer
<1>2. HasCounters(g, x, a.counters) <=>
         IF Touches(e, h, x) THEN a.counters = e.body.counters ELSE HasCounters(h, x, a.counters)
  BY CountersAfter
<1> QED BY <1>1, <1>2 DEF Written

LEMMA AccountsAfterReset ==
    ASSUME NEW g, NEW h, NEW D, NEW n, NEW e, Longer(g, h, D, n, e), e.body.op = "reset_all"
    PROVE  AccountsBelong(Empty, g)
<1>1. Live(g) = {n} /\ g[n] = e
  BY LiveAfter DEF Longer
<1>2. \A x : ~ Creates(g, x)
  BY <1>1 DEF Creates, Creation
<1>3. \A x \in Live(g) : ~ Creation(g[x].body)
  BY <1>1 DEF Creation
<1> QED BY <1>2, <1>3 DEF AccountsBelong, Written, Empty

\* Logins and logouts.
LEMMA AccountsAfterSession ==
    ASSUME NEW g, NEW h, NEW D, NEW n, NEW e, Longer(g, h, D, n, e),
           e.body.op \in {"create_session", "delete_session"},
           NEW t, NEW u, AccountsBelong(t, h), u.accounts = t.accounts
    PROVE  AccountsBelong(u, g)
<1>1. /\ Live(g) = Live(h) \cup {n} /\ Live(h) \subseteq D /\ g[n] = e
      /\ DOMAIN g = D \cup {n} /\ DOMAIN h = D /\ \A x \in D : g[x] = h[x]
  BY LiveAfter DEF Longer
<1>2. ~ Creation(e.body) /\ ~ Creates(g, n) /\ \A x \in D : Creates(g, x) <=> Creates(h, x)
  BY CreatesAfter DEF Creation
<1>3. \A x \in D : \A a : Written(g, x, a) <=> Written(h, x, a)
  BY WrittenAfter DEF Touches
<1>4. \A a : ~ Written(g, n, a)
  BY <1>2 DEF Written
<1>5. \A b : NameTaken(u, b) <=> NameTaken(t, b)
  BY DEF NameTaken
<1> QED BY <1>1, <1>2, <1>3, <1>4, <1>5 DEF AccountsBelong

LEMMA AccountsAfterUpdate ==
    ASSUME NEW g, NEW h, NEW D, NEW n, NEW e, Longer(g, h, D, n, e),
           e.body.op = "update_account", e.body.counters \in Counters,
           NEW t \in Tables, AccountsBelong(t, h),
           \A x, y \in D : h[x].id = h[y].id => x = y
    PROVE  AccountsBelong(UpdateAccount(t, e.body), g)
<1> DEFINE u == UpdateAccount(t, e.body)
           Touched(a) == a.kind = e.body.kind /\ a.id = e.body.id
           After(a) == [kind |-> a.kind, id |-> a.id, name |-> a.name, counters |-> e.body.counters]
<1>1. /\ Live(g) = Live(h) \cup {n} /\ Live(h) \subseteq D /\ g[n] = e
      /\ DOMAIN g = D \cup {n} /\ DOMAIN h = D /\ \A x \in D : g[x] = h[x]
  BY LiveAfter DEF Longer
<1>2. ~ Creation(e.body) /\ ~ Creates(g, n) /\ \A x \in D : Creates(g, x) <=> Creates(h, x)
  BY CreatesAfter DEF Creation
<1>3. \A a : ~ Written(g, n, a)
  BY <1>2 DEF Written
<1>4. u.accounts = {IF Touched(a) THEN After(a) ELSE a : a \in t.accounts}
  BY DEF UpdateAccount
<1>5. t.accounts \subseteq Accounts
  BY DEF Tables
<1>6. \A x \in D : \A a : Written(h, x, a) => (Touches(e, h, x) <=> Touched(a))
  BY DEF Written, Touches, SameName
<1>7. ASSUME NEW a \in u.accounts PROVE \E x \in DOMAIN g : Written(g, x, a)
  <2>1. PICK c \in t.accounts : a = IF Touched(c) THEN After(c) ELSE c
    BY <1>4
  <2>2. PICK x \in D : Written(h, x, c)
    BY <1>1 DEF AccountsBelong
  <2>3. Written(g, x, a)
    <3>1. CASE Touched(c)
      <4>1. a.id = c.id /\ a.kind = c.kind /\ a.name = c.name /\ a.counters = e.body.counters
        BY <2>1, <3>1
      <4>2. Touches(e, h, x)
        BY <1>6, <2>2, <3>1
      <4>3. Creates(h, x) /\ a.id = h[x].id /\ SameName(a, h[x].body)
        BY <2>2, <4>1 DEF Written, SameName
      <4> QED BY <4>1, <4>2, <4>3, WrittenAfter
    <3>2. CASE ~ Touched(c)
      BY <1>6, <2>1, <2>2, <3>2, WrittenAfter
    <3> QED BY <3>1, <3>2
  <2> QED BY <1>1, <2>3
<1>8. ASSUME NEW a \in Accounts, NEW x \in DOMAIN g, Written(g, x, a) PROVE a \in u.accounts
  <2>1. x \in D
    BY <1>1, <1>3, <1>8
  <2>2. CASE ~ Touches(e, h, x)
    <3>1. Written(h, x, a)
      BY <1>8, <2>1, <2>2, WrittenAfter
    <3>2. a \in t.accounts /\ ~ Touched(a)
      BY <1>1, <1>6, <2>1, <2>2, <3>1 DEF AccountsBelong
    <3> QED BY <1>4, <3>2
  <2>3. CASE Touches(e, h, x)
    <3>1. /\ Creates(h, x) /\ a.id = h[x].id
          /\ SameName(a, h[x].body) /\ a.counters = e.body.counters
      BY <1>8, <2>1, <2>3, WrittenAfter
    <3>2. PICK c \in t.accounts : c.id = h[x].id
      BY <1>1, <2>1, <3>1 DEF AccountsBelong
    <3>3. PICK y \in D : Written(h, y, c)
      BY <1>1 DEF AccountsBelong
    <3>4. y = x
      BY <2>1, <3>2, <3>3 DEF Written
    <3>5. c.kind = a.kind /\ c.name = a.name /\ c.id = a.id /\ Touched(c)
      BY <2>3, <3>1, <3>2, <3>3, <3>4 DEF Written, SameName, Touches
    <3>6. a = After(c)
      BY <1>5, <3>1, <3>5 DEF Accounts
    <3> QED BY <1>4, <3>5, <3>6
  <2> QED BY <2>2, <2>3
<1>9. ASSUME NEW c \in t.accounts
      PROVE  \E a \in u.accounts : a.id = c.id /\ a.kind = c.kind /\ a.name = c.name
  <2>1. CASE Touched(c)
    <3>1. After(c) \in u.accounts
      BY <1>4, <2>1
    <3> QED BY <3>1
  <2>2. CASE ~ Touched(c)
    <3>1. c \in u.accounts
      BY <1>4, <2>2
    <3> QED BY <3>1
  <2> QED BY <2>1, <2>2
<1>10. ASSUME NEW x \in DOMAIN g, Creates(g, x) PROVE \E a \in u.accounts : a.id = g[x].id
  <2>1. x \in D /\ Creates(h, x) /\ g[x] = h[x]
    BY <1>1, <1>2, <1>10
  <2> QED BY <1>1, <1>9, <2>1 DEF AccountsBelong
<1>11. ASSUME NEW x \in Live(g), Creation(g[x].body) PROVE NameTaken(u, g[x].body)
  <2>1. x \in Live(h) /\ x \in D /\ g[x] = h[x]
    BY <1>1, <1>2, <1>11
  <2>2. NameTaken(t, h[x].body)
    BY <1>11, <2>1 DEF AccountsBelong
  <2> QED BY <1>9, <2>1, <2>2 DEF NameTaken
<1> HIDE DEF u
<1>12. AccountsBelong(u, g)
  BY <1>7, <1>8, <1>10, <1>11 DEF AccountsBelong
<1> QED BY <1>12 DEF u

LEMMA AccountsAfterCreation ==
    ASSUME NEW g, NEW h, NEW D, NEW n, NEW e, Longer(g, h, D, n, e),
           Creation(e.body), e.body.kind \in Kind, e.body.name \in Names,
           NEW t \in Tables, AccountsBelong(t, h)
    PROVE  AccountsBelong(CreateAccount(t, e.id, e.body), g)
<1> DEFINE u == CreateAccount(t, e.id, e.body)
           new == [kind |-> e.body.kind, id |-> e.id, name |-> e.body.name, counters |-> 0]
<1>1. /\ Live(g) = Live(h) \cup {n} /\ Live(h) \subseteq D /\ g[n] = e
      /\ DOMAIN g = D \cup {n} /\ DOMAIN h = D /\ \A x \in D : g[x] = h[x]
  BY LiveAfter DEF Longer, Creation
<1>2. \A x \in D : Creates(g, x) <=> Creates(h, x)
  BY CreatesAfter DEF Creation
<1>3. \A x \in D : \A a : Written(g, x, a) <=> Written(h, x, a)
  BY WrittenAfter DEF Touches, Creation
<1>4. NameTaken(t, e.body) <=> \E y \in Live(h) : Creation(h[y].body) /\ SameName(h[y].body, e.body)
  <2>1. ASSUME NameTaken(t, e.body)
        PROVE  \E y \in Live(h) : Creation(h[y].body) /\ SameName(h[y].body, e.body)
    <3>1. PICK a \in t.accounts : a.kind = e.body.kind /\ a.name = e.body.name
      BY <2>1 DEF NameTaken
    <3>2. PICK x \in D : Written(h, x, a)
      BY <1>1 DEF AccountsBelong
    <3> QED BY <3>1, <3>2 DEF Written, Creates, SameName
  <2>2. ASSUME NEW y \in Live(h), Creation(h[y].body), SameName(h[y].body, e.body)
        PROVE  NameTaken(t, e.body)
    <3>1. NameTaken(t, h[y].body)
      BY <2>2 DEF AccountsBelong
    <3> QED BY <2>2, <3>1 DEF NameTaken, SameName
  <2> QED BY <2>1, <2>2
<1>5. Creates(g, n) <=> ~ NameTaken(t, e.body)
  BY <1>4, CreatesAfter DEF Creation
<1>6. new \in Accounts /\ new.id = e.id /\ SameName(new, e.body) /\ new.counters = 0
  BY DEF Accounts, Counters, SameName, Longer, Entry
<1>7. CASE NameTaken(t, e.body)
  <2>1. u = t /\ \A a : ~ Written(g, n, a)
    BY <1>5, <1>7 DEF CreateAccount, Written
  <2> QED BY <1>1, <1>2, <1>3, <1>5, <1>7, <2>1 DEF AccountsBelong
<1>8. CASE ~ NameTaken(t, e.body)
  <2>1. u.accounts = t.accounts \cup {new}
    BY <1>8 DEF CreateAccount
  <2>2. \A c : HasCounters(g, n, c) <=> c = 0
    BY UpdatesAfter DEF HasCounters, Creation
  <2>3. Written(g, n, new)
    BY <1>1, <1>5, <1>6, <1>8, <2>2 DEF Written
  <2>4. ASSUME NEW a \in Accounts, Written(g, n, a) PROVE a = new
    <3>1. a.id = e.id /\ a.kind = e.body.kind /\ a.name = e.body.name /\ a.counters = 0
      BY <1>1, <2>2, <2>4 DEF Written, SameName
    <3> QED BY <3>1 DEF Accounts
  <2>5. \A b : NameTaken(t, b) => NameTaken(u, b)
    BY <2>1 DEF NameTaken
  <2>6. NameTaken(u, e.body)
    BY <1>6, <2>1 DEF NameTaken, SameName
  <2> HIDE DEF u, new
  <2>7. \A a \in u.accounts : \E x \in DOMAIN g : Written(g, x, a)
    BY <1>1, <1>3, <2>1, <2>3 DEF AccountsBelong
  <2>8. \A a \in Accounts : (\E x \in DOMAIN g : Written(g, x, a)) => a \in u.accounts
    BY <1>1, <1>3, <2>1, <2>4 DEF AccountsBelong
  <2>9. \A x \in DOMAIN g : Creates(g, x) => \E a \in u.accounts : a.id = g[x].id
    BY <1>1, <1>2, <1>6, <2>1 DEF AccountsBelong
  <2>10. \A x \in Live(g) : Creation(g[x].body) => NameTaken(u, g[x].body)
    BY <1>1, <2>5, <2>6 DEF AccountsBelong
  <2>11. AccountsBelong(u, g)
    BY <2>7, <2>8, <2>9, <2>10 DEF AccountsBelong
  <2> QED BY <2>11 DEF u
<1> QED BY <1>7, <1>8

LEMMA AccountsAfter ==
    ASSUME NEW g, NEW h, NEW D, NEW n, NEW e, Longer(g, h, D, n, e),
           \A x, y \in D : h[x].id = h[y].id => x = y,
           NEW t \in Tables, AccountsBelong(t, h), NEW now
    PROVE  AccountsBelong(Result(t, e.id, e.body, now), g)
<1> DEFINE b == e.body
<1>1. b \in Body
  BY DEF Longer, Entry
<1>2. CASE b.op = "create_account" /\ b.kind \in Kind /\ b.name \in Names
  BY <1>2, AccountsAfterCreation DEF Result, Creation
<1>3. CASE b.op = "update_account" /\ b.counters \in Counters
  BY <1>3, AccountsAfterUpdate DEF Result
<1>4. CASE b.op = "create_session"
  <2>1. Result(t, e.id, b, now).accounts = t.accounts
    BY <1>4 DEF Result, CreateSession
  <2> QED BY <1>4, <2>1, AccountsAfterSession
<1>5. CASE b.op = "delete_session"
  <2>1. Result(t, e.id, b, now).accounts = t.accounts
    BY <1>5 DEF Result, DeleteSession
  <2> QED BY <1>5, <2>1, AccountsAfterSession
<1>6. CASE b.op = "reset_all"
  BY <1>6, AccountsAfterReset DEF Result
<1> QED BY <1>1, <1>2, <1>3, <1>4, <1>5, <1>6, BodyFacts

LEMMA SessionsAfter ==
    ASSUME NEW g, NEW h, NEW D, NEW n, NEW e, Longer(g, h, D, n, e), \A x \in D : h[x].id # e.id,
           NEW t \in Tables, NEW now, NEW gone, SessionsBelong(t, h, gone)
    PROVE  SessionsBelong(Result(t, e.id, e.body, now), g, gone)
<1> DEFINE b == e.body
           u == Result(t, e.id, b, now)
<1>1. b \in Body
  BY DEF Longer, Entry
<1>2. /\ Live(g) = IF b.op = "reset_all" THEN {n} ELSE Live(h) \cup {n}
      /\ Live(h) \subseteq D /\ g[n] = e
      /\ \A x \in D : g[x] = h[x] /\ n > x /\ ~ x > n
      /\ ~ n > n
  BY LiveAfter DEF Longer
<1>3. CASE b.op \in {"create_account", "update_account"}
  <2>1. \A id, kind : Opened(g, id, kind) <=> Opened(h, id, kind)
    BY <1>2, <1>3 DEF Opened
  <2>2. u.sessions = t.sessions
    BY <1>3 DEF Result, CreateAccount, UpdateAccount
  <2> QED BY <2>1, <2>2 DEF SessionsBelong
<1>4. CASE b.op = "create_session"
  <2> DEFINE new == [id |-> e.id, kind |-> b.kind, expiration |-> Expiration(now)]
  <2>1. \A id, kind : Opened(g, id, kind) <=> Opened(h, id, kind) \/ (id = e.id /\ kind = b.kind)
    BY <1>2, <1>4 DEF Opened
  <2>2. \A kind : ~ Opened(h, e.id, kind)
    BY <1>2 DEF Opened
  <2>3. \A s \in t.sessions : s.id # e.id
    BY <2>2 DEF SessionsBelong
  <2>4. u.sessions = t.sessions \cup {new}
    BY <1>4, <2>3 DEF Result, CreateSession
  <2>5. new.id = e.id /\ new.kind = b.kind
    OBVIOUS
  <2> HIDE DEF u, new
  <2>6. SessionsBelong(u, g, gone)
    BY <2>1, <2>4, <2>5 DEF SessionsBelong
  <2> QED BY <2>6 DEF u
<1>5. CASE b.op = "delete_session"
  <2>1. \A id, kind : Opened(g, id, kind) <=> Opened(h, id, kind) /\ id # b.session
    BY <1>2, <1>5 DEF Opened
  <2>2. u.sessions = {s \in t.sessions : s.id # b.session}
    BY <1>5 DEF Result, DeleteSession
  <2> HIDE DEF u
  <2>3. SessionsBelong(u, g, gone)
    BY <2>1, <2>2 DEF SessionsBelong
  <2> QED BY <2>3 DEF u
<1>6. CASE b.op = "reset_all"
  <2>1. \A id, kind : ~ Opened(g, id, kind)
    BY <1>2, <1>6 DEF Opened
  <2>2. u.sessions = {}
    BY <1>6 DEF Result, Empty
  <2> QED BY <2>1, <2>2 DEF SessionsBelong
<1> QED BY <1>1, <1>3, <1>4, <1>5, <1>6, BodyFacts

\* What is gone stays gone.
LEMMA MoreGone ==
    ASSUME NEW t, NEW h, NEW gone, NEW more, SessionsBelong(t, h, gone), gone \subseteq more
    PROVE  SessionsBelong(t, h, more)
BY DEF SessionsBelong

(***************************************************************************)
(* The histories of the replicas.                                          *)
(***************************************************************************)
Took(i) == {x \in 1 .. executed[i] : order[x] \notin failed[i]}
History(i) == [x \in Took(i) |-> [id |-> order[x], body |-> call[order[x]].body]]

\* the sessions that replica i may have deleted: their time is over on its clock
Gone(i) == {r \in RequestId : Outlived(i, r, clock[i])}

SaysHistory(i) ==
    /\ AccountsBelong(db[i], History(i))
    /\ SessionsBelong(db[i], History(i), Gone(i))
    /\ db[i].sessions \subseteq issued[i] /\ \A t \in view[i] : t.sessions \subseteq issued[i]
    /\ \A r \in failed[i] : \E x \in 1 .. executed[i] : order[x] = r
ReplicaInv == \A i \in Node : SaysHistory(i)

\* What was ordered stays ordered and means the same.
LEMMA PastStays ==
    ASSUME Inv, [Next]_vars
    PROVE  /\ \A x \in 1 .. Len(order) : order'[x] = order[x]
           /\ \A x \in 1 .. Len(order) : order[x] \in submitted
           /\ \A r \in submitted : call'[r].body = call[r].body
<1>1. \A x \in 1 .. Len(order) : order[x] \in submitted
  BY DEF Inv, DeliveryInv
<1>2. \A x \in 1 .. Len(order) : order'[x] = order[x]
  <2>1. CASE order' = order
    BY <2>1
  <2>2. ASSUME NEW i \in Node, Broadcast(i) PROVE \A x \in 1 .. Len(order) : order'[x] = order[x]
    <3>1. TO!Extend /\ order \in Seq(submitted)
      BY <2>2 DEF Broadcast, TO!Progress, Inv, DeliveryInv
    <3> QED BY <3>1 DEF TO!Extend
  <2>3. ASSUME NEW r \in RequestId, TimeOut(r) \/ \E b \in Bodies[r] : Write(r, b) PROVE order' = order
    BY <2>3 DEF TimeOut, Write, bcVars
  <2>4. ASSUME NEW i \in Node, \/ ExecutorStep(i) \/ GetAccount(i) \/ Tick(i)
                               \/ \E r \in RequestId : GetSession(i, r)
        PROVE  order' = order
    BY <2>4 DEF ExecutorStep, Execute, ExecuteFails, ExecutorDies, GetAccount, Tick, GetSession, bcVars
  <2>5. CASE UNCHANGED vars
    BY <2>1, <2>5 DEF vars, bcVars
  <2> QED BY <2>1, <2>2, <2>3, <2>4, <2>5 DEF Next
<1>3. ASSUME NEW r \in submitted PROVE call'[r].body = call[r].body
  <2>1. r \in RequestId /\ call[r].state # "idle"
    BY DEF Inv, AskedInv
  <2>2. ASSUME NEW q \in RequestId, NEW b \in Bodies[q], Write(q, b) PROVE call'[r].body = call[r].body
    BY <2>1, <2>2 DEF Write, Inv, TypeOK
  <2>3. ASSUME NEW q \in RequestId, TimeOut(q) PROVE call'[r].body = call[r].body
    BY <2>1, <2>3 DEF TimeOut, Inv, TypeOK
  <2>4. ASSUME NEW i \in Node, ExecutorStep(i) PROVE call'[r].body = call[r].body
    <3>1. CASE Execute(i)
      BY <2>1, <3>1, RespondType DEF Execute, CallState, Inv
    <3>2. CASE ExecuteFails(i)
      BY <2>1, <3>2, RespondType DEF ExecuteFails, CallState, Inv
    <3>3. CASE ExecutorDies(i)
      BY <3>3 DEF ExecutorDies
    <3> QED BY <2>4, <3>1, <3>2, <3>3 DEF ExecutorStep
  <2>5. ASSUME NEW i \in Node, \/ Broadcast(i) \/ GetAccount(i) \/ Tick(i)
                               \/ \E q \in RequestId : GetSession(i, q)
        PROVE  call' = call
    BY <2>5 DEF Broadcast, GetAccount, Tick, GetSession
  <2>6. CASE UNCHANGED vars
    BY <2>6 DEF vars
  <2> QED BY <2>2, <2>3, <2>4, <2>5, <2>6 DEF Next
<1> QED BY <1>1, <1>2, <1>3

LEMMA TookFacts ==
    ASSUME Inv, NEW i \in Node
    PROVE  /\ Took(i) \subseteq 1 .. executed[i] /\ Took(i) \subseteq Nat
           /\ executed[i] \in Nat /\ executed[i] <= Len(order) /\ Len(order) \in Nat
           /\ \A x \in 1 .. executed[i] : x \in 1 .. Len(order) /\ order[x] \in submitted
           /\ History(i) \in [Took(i) -> Entry]
           /\ \A x, y \in Took(i) : History(i)[x].id = History(i)[y].id => x = y
<1>1. /\ Took(i) \subseteq 1 .. executed[i] /\ Took(i) \subseteq Nat
      /\ executed[i] \in Nat /\ executed[i] <= Len(order) /\ Len(order) \in Nat
  BY DEF Inv, TypeOK, DeliveryInv, Took
<1>2. \A x \in 1 .. executed[i] : x \in 1 .. Len(order) /\ order[x] \in submitted
  BY <1>1 DEF Inv, DeliveryInv
<1>3. \A x \in Took(i) : [id |-> order[x], body |-> call[order[x]].body] \in Entry
  BY <1>1, <1>2 DEF Inv, AskedInv, Entry
<1>4. History(i) \in [Took(i) -> Entry]
  BY <1>3 DEF History
<1>5. \A x \in Took(i) : History(i)[x].id = order[x]
  BY DEF History
<1>6. \A x, y \in Took(i) : History(i)[x].id = History(i)[y].id => x = y
  BY <1>1, <1>2, <1>5 DEF Inv, DeliveryInv
<1> QED BY <1>1, <1>2, <1>4, <1>6

LEMMA HistoryStays ==
    ASSUME Inv, [Next]_vars, NEW i \in Node, executed'[i] = executed[i], failed'[i] = failed[i]
    PROVE  History(i)' = History(i)
<1>1. \A x \in 1 .. executed[i] : order'[x] = order[x] /\ call'[order[x]].body = call[order[x]].body
  BY PastStays, TookFacts
<1>2. Took(i)' = Took(i)
  BY <1>1 DEF Took
<1>3. \A x \in Took(i) : [id |-> order'[x], body |-> call'[order'[x]].body]
                       = [id |-> order[x], body |-> call[order[x]].body]
  BY <1>1, TookFacts
<1>4. History(i)' = [x \in Took(i)' |-> [id |-> order'[x], body |-> call'[order'[x]].body]]
  BY DEF History
<1> QED BY <1>2, <1>3, <1>4 DEF History

\* The next request of the order, in or out of the history.
LEMMA NextTaken ==
    ASSUME Inv, [Next]_vars, NEW i \in Node, NEW r \in RequestId, Take(i, r)
    PROVE  /\ executed'[i] = executed[i] + 1 /\ order[executed[i] + 1] = r
           /\ executed[i] + 1 \in 1 .. Len(order)
           /\ \A x \in 1 .. executed[i] : order[x] # r
           /\ \A x \in 1 .. executed[i] + 1 :
                 order'[x] = order[x] /\ call'[order[x]].body = call[order[x]].body
<1>1. executed'[i] = executed[i] + 1 /\ executed[i] + 1 \in 1 .. Len(delivered[i])
  BY TakenWasAsked DEF Take, Inv, TypeOK
<1>2. executed[i] + 1 \in 1 .. Len(order)
  BY <1>1, TookFacts DEF Inv, DeliveryInv
<1>3. order[executed[i] + 1] = r
  BY <1>1 DEF Take, Inv, DeliveryInv
<1>4. \A x \in 1 .. executed[i] + 1 : x \in 1 .. Len(order)
  BY <1>2, TookFacts
<1>5. \A x \in 1 .. executed[i] : order[x] # r
  <2> SUFFICES ASSUME NEW x \in 1 .. executed[i], order[x] = r PROVE FALSE
    OBVIOUS
  <2>1. x # executed[i] + 1 /\ x \in 1 .. Len(order)
    BY TookFacts
  <2> QED BY <1>2, <1>3, <2>1 DEF Inv, DeliveryInv
<1>6. \A x \in 1 .. executed[i] + 1 :
         order'[x] = order[x] /\ call'[order[x]].body = call[order[x]].body
  BY <1>4, PastStays
<1> QED BY <1>1, <1>2, <1>3, <1>5, <1>6

LEMMA HistoryGrows ==
    ASSUME Inv, ReplicaInv, [Next]_vars, NEW i \in Node, NEW r \in RequestId, Take(i, r),
           failed'[i] = failed[i]
    PROVE  Longer(History(i)', History(i), Took(i), executed[i] + 1, [id |-> r, body |-> call[r].body])
<1> DEFINE n == executed[i] + 1
           e == [id |-> r, body |-> call[r].body]
<1>1. r \notin failed[i]
  BY NextTaken DEF ReplicaInv, SaysHistory
<1>2. n \in Nat /\ \A x : x \in 1 .. n <=> x \in 1 .. executed[i] \/ x = n
  BY TookFacts
<1>3. Took(i)' = Took(i) \cup {n}
  <2>1. Took(i)' = {x \in 1 .. n : order[x] \notin failed[i]}
    BY NextTaken DEF Took
  <2> HIDE DEF n
  <2>2. order[n] = r
    BY NextTaken DEF n
  <2> QED BY <1>1, <1>2, <2>1, <2>2 DEF Took
<1>4. History(i)' = [x \in Took(i)' |-> [id |-> order'[x], body |-> call'[order'[x]].body]]
  BY DEF History
<1>5. History(i)'[n] = e
  BY <1>2, <1>3, <1>4, NextTaken
<1>6. \A x \in Took(i) : History(i)'[x] = History(i)[x]
  <2>1. \A x \in Took(i) : x \in 1 .. n
    BY <1>2, TookFacts
  <2> QED BY <1>3, <1>4, <2>1, NextTaken DEF History
<1>7. e \in Entry
  BY TakenWasAsked DEF Entry, Inv
<1>8. \A x \in Took(i) : /\ x # n /\ n > x /\ x < n /\ x <= n
                        /\ ~ x > n /\ ~ n < x /\ ~ n <= x
  BY TookFacts
<1>9. ~ n > n /\ ~ n < n /\ n <= n
  BY <1>2
<1>10. History(i)' \in [Took(i) \cup {n} -> Entry]
  <2>1. DOMAIN History(i)' = Took(i) \cup {n}
    BY <1>3, <1>4
  <2>2. \A x \in Took(i) \cup {n} : History(i)'[x] \in Entry
    BY <1>5, <1>6, <1>7, TookFacts
  <2> QED BY <1>3, <1>4, <2>1, <2>2
<1> HIDE DEF n, e
<1>11. Longer(History(i)', History(i), Took(i), n, e)
  BY <1>5, <1>6, <1>7, <1>8, <1>9, <1>10, TookFacts DEF Longer
<1> QED BY <1>11 DEF n, e

LEMMA HistorySkips ==
    ASSUME Inv, ReplicaInv, [Next]_vars, NEW i \in Node, NEW r \in RequestId, Take(i, r),
           failed'[i] = failed[i] \cup {r}
    PROVE  History(i)' = History(i)
<1> DEFINE n == executed[i] + 1
<1>1. n \in Nat /\ \A x : x \in 1 .. n <=> x \in 1 .. executed[i] \/ x = n
  BY TookFacts
<1>2. Took(i)' = Took(i)
  <2>1. Took(i)' = {x \in 1 .. n : order[x] \notin failed[i] \cup {r}}
    BY NextTaken DEF Took
  <2> HIDE DEF n
  <2>2. order[n] = r /\ \A x \in 1 .. executed[i] : order[x] # r
    BY NextTaken DEF n
  <2> QED BY <1>1, <2>1, <2>2 DEF Took
<1>3. \A x \in Took(i) : [id |-> order'[x], body |-> call'[order'[x]].body]
                       = [id |-> order[x], body |-> call[order[x]].body]
  <2>1. \A x \in Took(i) : x \in 1 .. n
    BY <1>1, TookFacts
  <2> QED BY <2>1, NextTaken
<1>4. History(i)' = [x \in Took(i)' |-> [id |-> order'[x], body |-> call'[order'[x]].body]]
  BY DEF History
<1> QED BY <1>2, <1>3, <1>4 DEF History

(***************************************************************************)
(* The four things that happen to a replica: nothing that counts, a        *)
(* request that takes effect, one that a database error takes away, and an *)
(* expired session deleted by GetSession.                                  *)
(***************************************************************************)
Quiet(i) ==
    /\ executed'[i] = executed[i] /\ failed'[i] = failed[i] /\ db'[i] = db[i]
    /\ clock'[i] >= clock[i] /\ issued'[i] = issued[i]
    /\ view'[i] = view[i] \/ view'[i] = {Seen(i)} \/ view'[i] = {}
Effect(i, r) ==
    /\ Take(i, r) /\ failed'[i] = failed[i]
    /\ db'[i] = Result(db[i], r, call[r].body, clock[i])
    /\ issued'[i] = issued[i] \cup db'[i].sessions
    /\ clock'[i] = clock[i] /\ view'[i] = view[i]
Loss(i, r) ==
    /\ Take(i, r) /\ failed'[i] = failed[i] \cup {r}
    /\ db'[i] = db[i] /\ clock'[i] = clock[i] /\ view'[i] = view[i] /\ issued'[i] = issued[i]
Expiry(i, r) ==
    /\ executed'[i] = executed[i] /\ failed'[i] = failed[i] /\ clock'[i] = clock[i]
    /\ \E s \in Rows(i, r) : Expired(i, s)
    /\ db'[i] = DeleteSession(db[i], r) /\ view'[i] = {} /\ issued'[i] = issued[i]

OneOfFour(i) ==
    Quiet(i) \/ \E r \in RequestId : Effect(i, r) \/ Loss(i, r) \/ Expiry(i, r)

\* What the read connection sees was inserted at its replica.
LEMMA SeenIssued ==
    ASSUME Inv, ReplicaInv, NEW i \in Node
    PROVE  Seen(i).sessions \subseteq issued[i]
<1>1. CASE view[i] = {}
  BY <1>1 DEF Seen, ReplicaInv, SaysHistory
<1>2. CASE view[i] # {}
  BY <1>2 DEF Seen, ReplicaInv, SaysHistory
<1> QED BY <1>1, <1>2

\* A session whose time is over stays so.
LEMMA GoneStays ==
    ASSUME Inv, [Next]_vars, NEW i \in Node, clock'[i] >= clock[i], issued[i] \subseteq issued'[i]
    PROVE  Gone(i) \subseteq Gone(i)'
<1>1. clock[i] \in Nat /\ clock'[i] \in Nat /\ \A s \in issued[i] : s.expiration \in Nat
  BY TypeStep, TimesAssumption DEF Inv, TypeOK, Sessions
<1>2. ASSUME NEW r \in RequestId, NEW s \in issued[i], s.id = r, s.expiration < clock[i]
      PROVE  r \in Gone(i)'
  <2>1. s \in issued'[i] /\ s.expiration < clock'[i]
    BY <1>1, <1>2
  <2> QED BY <1>2, <2>1 DEF Gone, Outlived
<1> QED BY <1>2 DEF Gone, Outlived

LEMMA FailedStay ==
    ASSUME Inv, ReplicaInv, [Next]_vars, NEW i \in Node, failed'[i] = failed[i], executed'[i] >= executed[i],
           executed'[i] \in Nat
    PROVE  \A r \in failed'[i] : \E x \in 1 .. executed'[i] : order'[x] = r
<1> SUFFICES ASSUME NEW r \in failed[i] PROVE \E x \in 1 .. executed'[i] : order'[x] = r
  OBVIOUS
<1>1. PICK x \in 1 .. executed[i] : order[x] = r
  BY DEF ReplicaInv, SaysHistory
<1>2. x \in 1 .. executed'[i] /\ order'[x] = order[x]
  BY TookFacts, PastStays
<1> QED BY <1>1, <1>2

LEMMA QuietStep ==
    ASSUME Inv, ReplicaInv, [Next]_vars, NEW i \in Node, Quiet(i)
    PROVE  SaysHistory(i)'
<1>1. History(i)' = History(i)
  BY HistoryStays DEF Quiet
<1>2. AccountsBelong(db'[i], History(i))
  BY DEF Quiet, ReplicaInv, SaysHistory
<1>3. SessionsBelong(db'[i], History(i), Gone(i)')
  <2>1. SessionsBelong(db[i], History(i), Gone(i))
    BY DEF ReplicaInv, SaysHistory
  <2>2. Gone(i) \subseteq Gone(i)'
    BY GoneStays DEF Quiet
  <2> QED BY <2>1, <2>2, MoreGone DEF Quiet
<1>4. db'[i].sessions \subseteq issued'[i] /\ \A t \in view'[i] : t.sessions \subseteq issued'[i]
  BY SeenIssued DEF Quiet, ReplicaInv, SaysHistory
<1>5. \A r \in failed'[i] : \E x \in 1 .. executed'[i] : order'[x] = r
  BY FailedStay, TookFacts DEF Quiet
<1> QED BY <1>1, <1>2, <1>3, <1>4, <1>5 DEF SaysHistory

LEMMA EffectStep ==
    ASSUME Inv, ReplicaInv, [Next]_vars, NEW i \in Node, NEW r \in RequestId, Effect(i, r)
    PROVE  SaysHistory(i)'
<1> DEFINE e == [id |-> r, body |-> call[r].body]
<1>1. Longer(History(i)', History(i), Took(i), executed[i] + 1, e)
  BY HistoryGrows DEF Effect
<1>2. /\ db[i] \in Tables /\ clock[i] \in Nat /\ call[r].body \in Body
      /\ db'[i] = Result(db[i], e.id, e.body, clock[i])
  BY TakenWasAsked, TimesAssumption DEF Effect, Inv, TypeOK
<1>3. AccountsBelong(db[i], History(i)) /\ SessionsBelong(db[i], History(i), Gone(i))
  BY DEF ReplicaInv, SaysHistory
<1>4. AccountsBelong(db'[i], History(i)')
  <2>1. \A x, y \in Took(i) : History(i)[x].id = History(i)[y].id => x = y
    BY TookFacts
  <2> HIDE DEF e
  <2> QED BY <1>1, <1>2, <1>3, <2>1, AccountsAfter
<1>5. SessionsBelong(db'[i], History(i)', Gone(i)')
  <2>1. Gone(i) \subseteq Gone(i)'
    BY <1>2, GoneStays DEF Effect
  <2>2. \A x \in Took(i) : History(i)[x].id # e.id
    BY NextTaken, TookFacts DEF Effect, History
  <2> HIDE DEF e
  <2>3. SessionsBelong(db'[i], History(i)', Gone(i))
    BY <1>1, <1>2, <1>3, <2>2, SessionsAfter
  <2> QED BY <2>1, <2>3, MoreGone
<1>6. db'[i].sessions \subseteq issued'[i] /\ \A t \in view'[i] : t.sessions \subseteq issued'[i]
  BY DEF Effect, ReplicaInv, SaysHistory
<1>7. \A q \in failed'[i] : \E x \in 1 .. executed'[i] : order'[x] = q
  <2>1. executed'[i] \in Nat /\ executed'[i] >= executed[i]
    BY NextTaken, TookFacts DEF Effect
  <2> QED BY <2>1, FailedStay DEF Effect
<1> QED BY <1>4, <1>5, <1>6, <1>7 DEF SaysHistory

LEMMA LossStep ==
    ASSUME Inv, ReplicaInv, [Next]_vars, NEW i \in Node, NEW r \in RequestId, Loss(i, r)
    PROVE  SaysHistory(i)'
<1>1. History(i)' = History(i)
  BY HistorySkips DEF Loss
<1>2. \A q \in failed'[i] : \E x \in 1 .. executed'[i] : order'[x] = q
  <2>1. executed'[i] = executed[i] + 1 /\ executed[i] \in Nat
    BY NextTaken, TookFacts DEF Loss
  <2>2. order'[executed[i] + 1] = r /\ executed[i] + 1 \in 1 .. executed'[i]
    BY <2>1, NextTaken DEF Loss
  <2>3. ASSUME NEW q \in failed[i] PROVE \E x \in 1 .. executed'[i] : order'[x] = q
    <3>1. PICK x \in 1 .. executed[i] : order[x] = q
      BY DEF ReplicaInv, SaysHistory
    <3>2. x \in 1 .. executed'[i] /\ order'[x] = order[x]
      BY <2>1, PastStays, TookFacts
    <3> QED BY <3>1, <3>2
  <2> QED BY <2>2, <2>3 DEF Loss
<1>3. Gone(i)' = Gone(i)
  BY DEF Loss, Gone, Outlived
<1> QED BY <1>1, <1>2, <1>3 DEF Loss, ReplicaInv, SaysHistory

\* The time of what GetSession deletes is over on the clock of the replica.
LEMMA ExpiryStep ==
    ASSUME Inv, ReplicaInv, [Next]_vars, NEW i \in Node, NEW r \in RequestId, Expiry(i, r)
    PROVE  SaysHistory(i)'
<1>1. History(i)' = History(i)
  BY HistoryStays DEF Expiry
<1>2. r \in Gone(i)' /\ Gone(i)' = Gone(i)
  <2>1. PICK s \in Seen(i).sessions : s.id = r /\ s.expiration < clock[i]
    BY DEF Expiry, Rows, Expired
  <2>2. s \in issued[i]
    BY <2>1, SeenIssued
  <2>3. Gone(i)' = Gone(i)
    BY DEF Expiry, Gone, Outlived
  <2> QED BY <2>1, <2>2, <2>3 DEF Gone, Outlived
<1>3. /\ db'[i].accounts = db[i].accounts /\ db'[i].sessions \subseteq db[i].sessions
      /\ \A s \in db[i].sessions : s.id # r => s \in db'[i].sessions
  BY DEF Expiry, DeleteSession
<1>4. AccountsBelong(db'[i], History(i))
  BY <1>3 DEF ReplicaInv, SaysHistory, AccountsBelong, NameTaken
<1>5. SessionsBelong(db'[i], History(i), Gone(i)')
  BY <1>2, <1>3 DEF ReplicaInv, SaysHistory, SessionsBelong
<1>6. db'[i].sessions \subseteq issued'[i] /\ \A t \in view'[i] : t.sessions \subseteq issued'[i]
  BY <1>3 DEF Expiry, ReplicaInv, SaysHistory
<1>7. \A q \in failed'[i] : \E x \in 1 .. executed'[i] : order'[x] = q
  BY FailedStay, TookFacts DEF Expiry
<1> QED BY <1>1, <1>4, <1>5, <1>6, <1>7 DEF SaysHistory

LEMMA StepOnReplica ==
    ASSUME Inv, [Next]_vars, NEW i \in Node
    PROVE  OneOfFour(i)
<1>0. clock[i] \in Nat /\ clock[i] >= clock[i]
  BY TimesAssumption DEF Inv, TypeOK
<1>1. ASSUME NEW j \in Node, Execute(j) PROVE OneOfFour(i)
  <2>1. PICK r \in RequestId :
           Take(j, r) /\ Commit(j, r) /\ UNCHANGED <<bcVars, failed, running, view, clock>>
    BY <1>1 DEF Execute
  <2>2. CASE i = j
    BY <1>0, <2>1, <2>2 DEF OneOfFour, Commit, Effect, Inv, TypeOK
  <2>3. CASE i # j
    BY <1>0, <2>1, <2>3 DEF OneOfFour, Commit, Take, Quiet, Inv, TypeOK
  <2> QED BY <2>2, <2>3
<1>2. ASSUME NEW j \in Node, ExecuteFails(j) PROVE OneOfFour(i)
  BY <1>0, <1>2 DEF OneOfFour, ExecuteFails, Take, Loss, Quiet, Inv, TypeOK
<1>3. ASSUME NEW j \in Node, ExecutorDies(j) PROVE OneOfFour(i)
  <2>1. PICK r \in RequestId :
           /\ Take(j, r)
           /\ \/ /\ Commit(j, r)
                 /\ UNCHANGED failed
              \/ /\ failed' = [failed EXCEPT ![j] = @ \cup {r}]
                 /\ UNCHANGED <<db, issued>>
           /\ UNCHANGED <<view, clock>>
    BY <1>3 DEF ExecutorDies
  <2>2. CASE i = j
    BY <1>0, <2>1, <2>2 DEF OneOfFour, Commit, Effect, Loss, Inv, TypeOK
  <2>3. CASE i # j
    BY <1>0, <2>1, <2>3 DEF OneOfFour, Commit, Take, Quiet, Inv, TypeOK
  <2> QED BY <2>2, <2>3
<1>4. ASSUME NEW j \in Node, GetAccount(j) PROVE OneOfFour(i)
  BY <1>0, <1>4 DEF OneOfFour, GetAccount, Quiet, execVars, Inv, TypeOK
<1>5. ASSUME NEW j \in Node, NEW r \in RequestId, GetSession(j, r) PROVE OneOfFour(i)
  <2>1. CASE i # j
    BY <1>0, <1>5, <2>1 DEF OneOfFour, GetSession, Quiet, execVars, Inv, TypeOK
  <2>2. CASE i = j /\ \E s \in Rows(i, r) : Expired(i, s)
    BY <1>5, <2>2 DEF OneOfFour, GetSession, Expiry, execVars, Inv, TypeOK
  <2>3. CASE i = j /\ ~ \E s \in Rows(i, r) : Expired(i, s)
    BY <1>0, <1>5, <2>3 DEF OneOfFour, GetSession, Quiet, execVars, Inv, TypeOK
  <2> QED BY <2>1, <2>2, <2>3
<1>6. ASSUME NEW j \in Node, Tick(j) PROVE OneOfFour(i)
  BY <1>0, <1>6 DEF OneOfFour, Tick, Quiet, execVars, Inv, TypeOK
<1>7. ASSUME NEW j \in Node, Broadcast(j) PROVE OneOfFour(i)
  BY <1>0, <1>7 DEF OneOfFour, Broadcast, Quiet, execVars
<1>8. ASSUME NEW r \in RequestId, TimeOut(r) \/ \E b \in Bodies[r] : Write(r, b) PROVE OneOfFour(i)
  BY <1>0, <1>8 DEF OneOfFour, TimeOut, Write, Quiet, execVars
<1>9. CASE UNCHANGED vars
  BY <1>0, <1>9 DEF OneOfFour, vars, Quiet, execVars
<1> QED
  BY <1>1, <1>2, <1>3, <1>4, <1>5, <1>6, <1>7, <1>8, <1>9 DEF Next, ExecutorStep

LEMMA EveryReplicaStep == Inv /\ ReplicaInv /\ [Next]_vars => ReplicaInv'
<1> SUFFICES ASSUME Inv, ReplicaInv, [Next]_vars, NEW i \in Node PROVE SaysHistory(i)'
  BY DEF ReplicaInv
<1> QED BY StepOnReplica, QuietStep, EffectStep, LossStep, ExpiryStep DEF OneOfFour

LEMMA ReplicaInvariant == Spec => [](Inv /\ ReplicaInv)
<1>1. Init => ReplicaInv
  <2> SUFFICES ASSUME Init, NEW i \in Node PROVE SaysHistory(i)
    BY DEF ReplicaInv
  <2>1. /\ db[i] = Empty /\ view[i] = {} /\ failed[i] = {} /\ executed[i] = 0
    BY DEF Init
  <2>2. Took(i) = {}
    BY <2>1 DEF Took
  <2>3. DOMAIN History(i) = {} /\ Live(History(i)) = {}
    BY <2>2 DEF History, Live
  <2>4. AccountsBelong(Empty, History(i))
    BY <2>3 DEF AccountsBelong, Empty
  <2>5. SessionsBelong(Empty, History(i), Gone(i))
    BY <2>3 DEF SessionsBelong, Opened, Empty
  <2> QED BY <2>1, <2>4, <2>5 DEF SaysHistory, Empty
<1> QED BY <1>1, EveryReplicaStep, Invariance, PTL DEF Spec

\* Replicas that executed the same requests, and lost the same ones to database
\* errors, hold the same accounts; a session that one of them misses was inserted
\* there, and the expiration that this replica gave it has passed on its clock.
THEOREM Agreement == Spec => []ReplicasAgree
<1>1. Inv /\ ReplicaInv => ReplicasAgree
  <2> SUFFICES ASSUME Inv, ReplicaInv, NEW i \in Node, NEW j \in Node,
                      executed[i] = executed[j], failed[i] = failed[j]
               PROVE  /\ db[i].accounts = db[j].accounts
                      /\ \A s \in db[i].sessions :
                            \/ \E x \in db[j].sessions : x.id = s.id /\ x.kind = s.kind
                            \/ Outlived(j, s.id, clock[j])
    BY DEF ReplicasAgree
  <2>1. History(i) = History(j)
    BY DEF History, Took
  <2>2. db[i] \in Tables /\ db[j] \in Tables
    BY DEF Inv, TypeOK
  <2>3. db[i].accounts = db[j].accounts
    <3>1. AccountsBelong(db[i], History(i)) /\ AccountsBelong(db[j], History(i))
      BY <2>1 DEF ReplicaInv, SaysHistory
    <3>2. db[i].accounts \subseteq Accounts /\ db[j].accounts \subseteq Accounts
      BY <2>2 DEF Tables
    <3> QED BY <3>1, <3>2 DEF AccountsBelong
  <2>4. ASSUME NEW s \in db[i].sessions
        PROVE  (\E x \in db[j].sessions : x.id = s.id /\ x.kind = s.kind) \/ Outlived(j, s.id, clock[j])
    <3>1. s.id \in RequestId /\ s.kind \in Kind
      BY <2>2 DEF Tables, Sessions
    <3>2. SessionsBelong(db[i], History(i), Gone(i)) /\ SessionsBelong(db[j], History(i), Gone(j))
      BY <2>1 DEF ReplicaInv, SaysHistory
    <3>3. (\E x \in db[j].sessions : x.id = s.id /\ x.kind = s.kind) \/ s.id \in Gone(j)
      BY <3>1, <3>2 DEF SessionsBelong
    <3> QED BY <3>3 DEF Gone
  <2> QED BY <2>3, <2>4
<1> QED BY <1>1, ReplicaInvariant, PTL

(***************************************************************************)
(* Answers.                                                                *)
(***************************************************************************)

\* A request that is answered took effect at the replica that serves it.
AnsweredInv == \A r \in RequestId :
    call[r].state = "ok" => \E x \in Took(r[1]) : order[x] = r

LEMMA TookStays ==
    ASSUME Inv, ReplicaInv, [Next]_vars, NEW i \in Node, NEW x \in Took(i)
    PROVE  x \in Took(i)' /\ order'[x] = order[x]
<1>1. x \in 1 .. executed[i] /\ order[x] \notin failed[i] /\ order'[x] = order[x] /\ executed[i] \in Nat
  BY PastStays, TookFacts DEF Took
<1>2. CASE executed'[i] = executed[i] /\ failed'[i] = failed[i]
  BY <1>1, <1>2 DEF Took
<1>3. ASSUME NEW r \in RequestId, Take(i, r), failed'[i] \subseteq failed[i] \cup {r}
      PROVE  x \in Took(i)'
  <2>1. executed'[i] = executed[i] + 1 /\ order[x] # r
    BY <1>1, <1>3, NextTaken
  <2>2. x \in 1 .. executed'[i] /\ order'[x] \notin failed'[i]
    BY <1>1, <1>3, <2>1
  <2> QED BY <2>2 DEF Took
<1> QED BY <1>1, <1>2, <1>3, StepOnReplica DEF OneOfFour, Quiet, Effect, Loss, Expiry

LEMMA AnsweredStep == Inv /\ ReplicaInv /\ AnsweredInv /\ [Next]_vars => AnsweredInv'
<1> SUFFICES ASSUME Inv, ReplicaInv, AnsweredInv, [Next]_vars, NEW r \in RequestId, call'[r].state = "ok"
             PROVE  \E x \in Took(r[1])' : order'[x] = r
  BY DEF AnsweredInv
<1>1. r[1] \in Node
  BY DEF RequestId
<1>2. CASE call[r].state = "ok"
  <2>1. PICK x \in Took(r[1]) : order[x] = r
    BY <1>2 DEF AnsweredInv
  <2> QED BY <1>1, <2>1, TookStays
<1>3. ASSUME NEW i \in Node, Execute(i), call[r].state # "ok"
      PROVE  \E x \in Took(r[1])' : order'[x] = r
  <2>1. PICK q \in RequestId :
           Take(i, q) /\ Respond(i, q, "ok") /\ failed' = failed
    BY <1>3 DEF Execute
  <2>2. q = r /\ i = r[1]
    BY <1>3, <2>1 DEF Respond, Answers, Inv, TypeOK
  <2>3. /\ executed'[i] = executed[i] + 1 /\ executed[i] \in Nat
        /\ order'[executed[i] + 1] = r
    BY <2>1, <2>2, NextTaken, TookFacts
  <2>4. r \notin failed'[i]
    BY <2>1, <2>2, NextTaken DEF ReplicaInv, SaysHistory
  <2>5. executed[i] + 1 \in Took(i)'
    BY <2>3, <2>4 DEF Took
  <2> QED BY <2>2, <2>3, <2>5
<1>4. ASSUME NEW i \in Node, ExecuteFails(i) PROVE call[r].state = "ok"
  <2>1. PICK q \in RequestId : Respond(i, q, "failed")
    BY <1>4 DEF ExecuteFails
  <2> QED BY <2>1 DEF Respond, Inv, TypeOK
<1>5. ASSUME NEW i \in Node, \/ ExecutorDies(i) \/ Broadcast(i) \/ GetAccount(i) \/ Tick(i)
                             \/ \E q \in RequestId : GetSession(i, q)
      PROVE  call[r].state = "ok"
  BY <1>5 DEF ExecutorDies, Broadcast, GetAccount, Tick, GetSession
<1>6. ASSUME NEW q \in RequestId, TimeOut(q) \/ \E b \in Bodies[q] : Write(q, b)
      PROVE  call[r].state = "ok"
  BY <1>6 DEF TimeOut, Write, Inv, TypeOK
<1>7. CASE UNCHANGED vars
  BY <1>2, <1>7 DEF vars
<1> QED BY <1>2, <1>3, <1>4, <1>5, <1>6, <1>7 DEF Next, ExecutorStep

LEMMA AnsweredInvariant == Spec => []AnsweredInv
<1>1. Init => AnsweredInv
  BY DEF Init, AnsweredInv
<1> QED BY <1>1, AnsweredStep, ReplicaInvariant, PTL DEF Spec

\* The account a create RPC is answered with is there, or one of that name from a
\* request that is earlier in the global order, until a reset.
THEOREM Explanation == Spec => []AnswerExplained
<1>1. Inv /\ ReplicaInv /\ AnsweredInv => AnswerExplained
  <2> SUFFICES ASSUME Inv, ReplicaInv, AnsweredInv, NEW r \in RequestId,
                      call[r].state = "ok", call[r].body.op = "create_account",
                      \A q \in Done(r[1]) : call[q].body.op # "reset_all"
               PROVE  \E a \in db[r[1]].accounts :
                         /\ a.kind = call[r].body.kind /\ a.name = call[r].body.name
                         /\ \E x, y \in 1 .. Len(order) : order[x] = a.id /\ order[y] = r /\ x <= y
    BY DEF AnswerExplained
  <2> DEFINE i == r[1]
             h == History(i)
  <2>1. i \in Node
    BY DEF RequestId
  <2>2. PICK y \in Took(i) : order[y] = r
    BY DEF AnsweredInv
  <2>3. /\ DOMAIN h = Took(i) /\ Took(i) \subseteq 1 .. Len(order)
        /\ \A x \in Took(i) : h[x].id = order[x] /\ h[x].body = call[order[x]].body
    BY <2>1, TookFacts DEF History
  <2>4. \A x \in Took(i) : order[x] \in Done(i)
    BY <2>1, TookFacts DEF Done, Inv, DeliveryInv
  <2>5. Live(h) = Took(i)
    BY <2>3, <2>4 DEF Live
  <2>6. AccountsBelong(db[i], h) /\ Creation(h[y].body)
    BY <2>1, <2>2, <2>3 DEF ReplicaInv, SaysHistory, Creation
  <2> HIDE DEF h, i
  <2>7. PICK a \in db[i].accounts : SameName(a, h[y].body)
    BY <2>2, <2>5, <2>6 DEF AccountsBelong, NameTaken, SameName
  <2>8. PICK x \in Took(i) : Written(h, x, a)
    BY <2>3, <2>6 DEF AccountsBelong
  <2>9. ~ y < x
    BY <2>2, <2>5, <2>6, <2>7, <2>8 DEF Written, Creates, SameName
  <2>10. x <= y /\ x \in 1 .. Len(order) /\ y \in 1 .. Len(order)
    BY <2>2, <2>3, <2>9
  <2>11. order[x] = a.id /\ a.kind = call[r].body.kind /\ a.name = call[r].body.name
    BY <2>2, <2>3, <2>7, <2>8 DEF Written, SameName
  <2> QED BY <2>2, <2>10, <2>11 DEF i
<1> QED BY <1>1, ReplicaInvariant, AnsweredInvariant, PTL
==============================================================================
