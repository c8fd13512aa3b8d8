--------------------------- MODULE FrontEndProofs ---------------------------
(***************************************************************************)
(* FrontEnd for every number of replicas, handlers, moves and seconds: its *)
(* type, and that a session is refused only for a reason and accepted only *)
(* with a login behind it.  Every step of the front end is a step of       *)
(* CustomerDb or leaves the replicas alone, so what is proved of the       *)
(* replicas holds here; what the front end adds is that it asks to end     *)
(* only sessions that a login has opened, and why.                         *)
(***************************************************************************)
EXTENDS FrontEnd, CustomerDbProofs

(***************************************************************************)
(* The type of a handler, and that the replicas take steps of CustomerDb.  *)
(***************************************************************************)
HandlerState == [step : Step, replica : Node, tried : SUBSET Node,
                 session : RequestId \cup {NoId}, request : RequestId \cup {NoId}]

\* a handler that uses a session knows it, and it makes its request to the replica
\* that it is connected to
HandlerFine(h, k) ==
    /\ k.tried \subseteq Node \ reachable \/ moves > 0
    /\ Task[h] \in {"check", "logout"} /\ k.step # "idle" => k.session \in RequestId
    /\ k.step \in {"idle", "probe", "connected", "send"} => k.request = NoId
    /\ k.step = "wait" => k.request \in RequestId /\ k.request[1] = k.replica
    /\ k.step = "send" => Task[h] \in {"login", "check"}

Clients ==
    /\ current_replica \in [Front -> Node] /\ reachable \subseteq Node
    /\ handler \in [Handler -> HandlerState]
    /\ now \in [Front -> 0 .. MaxTime] /\ moves \in 0 .. MaxMoves
    /\ moves = 0 => reachable = Node
    /\ \A h \in Handler : HandlerFine(h, handler[h])

LEMMA NoIdIsNone == NoId \notin RequestId
<1> SUFFICES ASSUME NoId \in RequestId PROVE FALSE
  OBVIOUS
<1>1. PICK s \in Node : NoId \in {s} \X (1 .. MaxWrites[s])
  BY DEF RequestId
<1>2. PICK n : NoId = <<s, n>>
  BY <1>1
<1>3. Len(<<s, n>>) = 2 /\ Len(<<>>) = 0
  OBVIOUS
<1> QED BY <1>2, <1>3 DEF NoId

\* What a client is told of is the id of a request.
LEMMA ToldAreIds == Clients => Told \subseteq RequestId
BY DEF Clients, Told, HandlerState

\* The first handlers, and every step, are of this type.
LEMMA ClientsInit == FrontInit => Clients
<1>1. 0 \in Node
  BY ReplicasAssumption DEF Node
<1> QED BY <1>1, TimesAssumption, FrontAssumption DEF FrontInit, Clients, HandlerState, HandlerFine, Step

\* One handler takes a step.
Moves(h, k) ==
    /\ handler' = [handler EXCEPT ![h] = k]
    /\ UNCHANGED <<reachable, now, moves>>

LEMMA HandlerMoves ==
    ASSUME Clients, NEW h \in Handler, NEW k \in HandlerState, HandlerFine(h, k), Moves(h, k),
           current_replica' \in [Front -> Node]
    PROVE  Clients'
BY DEF Clients, Moves, HandlerFine

\* The same for a step that changes nothing else of the handler.
LEMMA StepMoves ==
    ASSUME Clients, NEW h \in Handler, NEW s \in Step, Moves(h, [handler[h] EXCEPT !.step = s]),
           ~ At(h, "idle"), s \in {"send", "ok", "error", "refused"},
           s = "send" => At(h, "connected") /\ Task[h] \in {"login", "check"},
           UNCHANGED current_replica
    PROVE  Clients'
<1>1. [handler[h] EXCEPT !.step = s] \in HandlerState
  BY DEF Clients, HandlerState
<1>2. HandlerFine(h, [handler[h] EXCEPT !.step = s])
  BY DEF Clients, HandlerState, HandlerFine, At
<1>3. current_replica' \in [Front -> Node]
  BY DEF Clients
<1> QED BY <1>1, <1>2, <1>3, HandlerMoves

LEMMA ClientsStep == Clients /\ [FrontNext]_frontVars => Clients'
<1> SUFFICES ASSUME Clients, [FrontNext]_frontVars PROVE Clients'
  OBVIOUS
<1> USE FrontAssumption
<1>1. ASSUME NEW h \in Handler, Begin(h) PROVE Clients'
  <2>1. PICK s \in RequestId \cup {NoId} :
          /\ handler' = [handler EXCEPT ![h].step = "probe", ![h].replica = current_replica[Side[h]],
                                        ![h].session = s]
          /\ Task[h] \in {"check", "logout"} => s \in RequestId
    BY <1>1, ToldAreIds DEF Begin
  <2> DEFINE k == [handler[h] EXCEPT !.step = "probe", !.replica = current_replica[Side[h]], !.session = s]
  <2>2. k \in HandlerState /\ HandlerFine(h, k)
    <3>1. /\ handler[h] \in HandlerState /\ HandlerFine(h, handler[h]) /\ handler[h].step = "idle"
          /\ current_replica[Side[h]] \in Node
      BY <1>1 DEF Clients, Begin, At, Front
    <3>2. /\ k \in HandlerState /\ k.step = "probe" /\ k.session = s
          /\ k.tried = handler[h].tried /\ k.request = handler[h].request
      BY <3>1 DEF HandlerState, Step
    <3> QED BY <2>1, <3>1, <3>2 DEF HandlerFine
  <2>3. Moves(h, k) /\ current_replica' \in [Front -> Node]
    BY <1>1, <2>1 DEF Begin, Moves, Clients
  <2> QED BY <2>2, <2>3, HandlerMoves
<1>2. ASSUME NEW h \in Handler, Probe(h) PROVE Clients'
  <2>1. PICK i \in Untried(h) :
          /\ At(h, "probe")
          /\ IF i \in reachable
             THEN /\ current_replica' = [current_replica EXCEPT ![Side[h]] = i]
                  /\ handler' = [handler EXCEPT ![h].step = "connected", ![h].replica = i]
             ELSE /\ handler' = [handler EXCEPT ![h].tried = handler[h].tried \cup {i},
                                   ![h].step = IF handler[h].tried \cup {i} = Node THEN Refusal(h) ELSE "probe"]
                  /\ UNCHANGED current_replica
          /\ UNCHANGED <<vars, reachable, now, moves>>
    BY <1>2 DEF Probe
  <2>2. i \in Node
    BY DEF Untried, Clients, HandlerState
  <2>3. CASE i \in reachable
    <3> DEFINE k == [handler[h] EXCEPT !.step = "connected", !.replica = i]
    <3>1. k \in HandlerState /\ HandlerFine(h, k)
      <4>1. handler[h] \in HandlerState /\ HandlerFine(h, handler[h]) /\ handler[h].step = "probe"
        BY <2>1 DEF Clients, At
      <4>2. /\ k \in HandlerState /\ k.step = "connected" /\ k.session = handler[h].session
            /\ k.tried = handler[h].tried /\ k.request = handler[h].request
        BY <2>2, <4>1 DEF HandlerState, Step
      <4> QED BY <4>1, <4>2 DEF HandlerFine
    <3>2. Moves(h, k) /\ current_replica' \in [Front -> Node]
      BY <2>1, <2>2, <2>3 DEF Moves, Clients
    <3> QED BY <3>1, <3>2, HandlerMoves
  <2>4. CASE i \notin reachable
    <3>1. PICK s \in {"refused", "error", "probe"} :
            handler' = [handler EXCEPT ![h].tried = handler[h].tried \cup {i}, ![h].step = s]
      BY <2>1, <2>4 DEF Refusal
    <3> DEFINE k == [handler[h] EXCEPT !.tried = handler[h].tried \cup {i}, !.step = s]
    <3>2. k \in HandlerState /\ HandlerFine(h, k)
      <4>1. handler[h] \in HandlerState /\ HandlerFine(h, handler[h]) /\ handler[h].step = "probe"
        BY <2>1 DEF Clients, At
      <4>2. /\ k \in HandlerState /\ k.step = s /\ k.session = handler[h].session
            /\ k.tried = handler[h].tried \cup {i} /\ k.request = handler[h].request
        BY <2>2, <4>1 DEF HandlerState, Step
      <4> QED BY <2>2, <2>4, <4>1, <4>2 DEF HandlerFine
    <3>3. Moves(h, k) /\ current_replica' \in [Front -> Node]
      BY <2>1, <2>4, <3>1 DEF Moves, Clients
    <3> QED BY <3>2, <3>3, HandlerMoves
  <2> QED BY <2>3, <2>4
<1>3. ASSUME NEW h \in Handler, Broken(h) \/ FindAccount(h) \/ ValidateSession(h) PROVE Clients'
  <2>1. PICK s \in Step : /\ handler' = [handler EXCEPT ![h].step = s]
                          /\ s = "send" => At(h, "connected") /\ Task[h] \in {"login", "check"}
                          /\ s \in {"send", "ok", "error", "refused"} /\ ~ At(h, "idle")
    BY <1>3 DEF Broken, FindAccount, ValidateSession, Goes, Step, At, Refusal
  <2>2. UNCHANGED <<current_replica, reachable, now, moves>>
    BY <1>3 DEF Broken, FindAccount, ValidateSession
  <2>3. Moves(h, [handler[h] EXCEPT !.step = s])
    BY <2>1, <2>2 DEF Moves
  <2> QED BY <2>1, <2>2, <2>3, StepMoves
<1>4. ASSUME NEW h \in Handler, Send(h) PROVE Clients'
  <2>1. PICK r \in RequestId : /\ handler' = [handler EXCEPT ![h].step = "wait", ![h].request = r]
                               /\ r[1] = handler[h].replica
    BY <1>4 DEF Send, NextRequest
  <2> DEFINE k == [handler[h] EXCEPT !.step = "wait", !.request = r]
  <2>2. k \in HandlerState /\ HandlerFine(h, k)
    <3>1. /\ handler[h] \in HandlerState /\ HandlerFine(h, handler[h])
          /\ handler[h].step \in {"send", "connected"}
      BY <1>4 DEF Clients, Send, At
    <3>2. /\ k \in HandlerState /\ k.step = "wait" /\ k.session = handler[h].session
          /\ k.tried = handler[h].tried /\ k.request = r /\ k.replica = handler[h].replica
      BY <3>1 DEF HandlerState, Step
    <3> QED BY <2>1, <3>1, <3>2 DEF HandlerFine
  <2>3. Moves(h, k) /\ current_replica' \in [Front -> Node]
    BY <1>4, <2>1 DEF Send, Moves, Clients
  <2> QED BY <2>2, <2>3, HandlerMoves
<1>5. ASSUME NEW h \in Handler, Answer(h) PROVE Clients'
  <2>1. handler[h].request \in RequestId
    BY <1>5 DEF Answer, Clients, HandlerFine, At
  <2> DEFINE r == handler[h].request
             s == IF Task[h] = "check" \/ call[r].state = "timeout" THEN Refusal(h) ELSE "ok"
             id == IF Task[h] # "login" THEN handler[h].session
                   ELSE IF call[r].state = "failed" THEN NoId ELSE r
  <2>2. /\ handler' = [handler EXCEPT ![h].step = s, ![h].session = id]
        /\ s \in {"refused", "error", "ok"} /\ id \in RequestId \cup {NoId}
        /\ Task[h] # "login" => id = handler[h].session
    BY <1>5, <2>1 DEF Answer, Clients, HandlerState, Refusal
  <2> HIDE DEF s, id
  <2> DEFINE k == [handler[h] EXCEPT !.step = s, !.session = id]
  <2>3. k \in HandlerState /\ HandlerFine(h, k)
    <3>1. handler[h] \in HandlerState /\ HandlerFine(h, handler[h]) /\ handler[h].step = "wait"
      BY <1>5 DEF Answer, Clients, At
    <3>2. k \in HandlerState /\ k.step = s /\ k.session = id /\ k.tried = handler[h].tried
      BY <2>2, <3>1 DEF HandlerState, Step
    <3> QED BY <2>2, <3>1, <3>2 DEF HandlerFine
  <2>4. Moves(h, k) /\ current_replica' \in [Front -> Node]
    BY <1>5, <2>2 DEF Answer, Moves, Clients
  <2> QED BY <2>3, <2>4, HandlerMoves
<1>6. CASE ReplicaStep \/ UNCHANGED frontVars
  <2>1. UNCHANGED clientVars
    BY <1>6 DEF ReplicaStep, frontVars
  <2> QED BY <2>1 DEF clientVars, Clients, HandlerFine
<1>7. ASSUME NEW i \in Node, Move(i) PROVE Clients'
  <2>1. moves' = moves + 1 /\ moves' \in 0 .. MaxMoves /\ moves' > 0
    BY <1>7 DEF Move, Clients
  <2>2. reachable' \subseteq Node /\ UNCHANGED <<current_replica, handler, now>>
    BY <1>7 DEF Move, Clients
  <2> QED BY <2>1, <2>2 DEF Clients, HandlerFine
<1>8. ASSUME NEW k \in Front, FrontTick(k) PROVE Clients'
  BY <1>8, TimesAssumption DEF FrontTick, Clients, HandlerFine
<1> QED BY <1>1, <1>2, <1>3, <1>4, <1>5, <1>6, <1>7, <1>8 DEF FrontNext, HandlerStep

\* What a step does to the replicas, CustomerDb does.
LEMMA StepOfReplicas == Clients /\ [FrontNext]_frontVars => [Next]_vars
<1> SUFFICES ASSUME Clients, [FrontNext]_frontVars PROVE [Next]_vars
  OBVIOUS
<1>1. ASSUME NEW h \in Handler, Begin(h) \/ Probe(h) \/ Broken(h) \/ Answer(h) PROVE [Next]_vars
  BY <1>1 DEF Begin, Probe, Broken, Answer
<1>2. ASSUME NEW h \in Handler, FindAccount(h) PROVE [Next]_vars
  BY <1>2 DEF FindAccount, Next, Clients, HandlerState
<1>3. ASSUME NEW h \in Handler, ValidateSession(h) PROVE [Next]_vars
  <2>1. handler[h].replica \in Node /\ handler[h].session \in RequestId
    BY <1>3 DEF ValidateSession, Clients, HandlerState, HandlerFine, At
  <2>2. GetSession(handler[h].replica, handler[h].session)
    BY <1>3 DEF ValidateSession
  <2> QED BY <2>1, <2>2 DEF Next
<1>4. ASSUME NEW h \in Handler, Send(h) PROVE [Next]_vars
  BY <1>4 DEF Send, Next
<1>5. CASE ReplicaStep
  BY <1>5 DEF ReplicaStep, Next
<1>6. ASSUME NEW i \in Node, Move(i) PROVE [Next]_vars
  BY <1>6 DEF Move
<1>7. CASE (\E k \in Front : FrontTick(k)) \/ UNCHANGED frontVars
  BY <1>7 DEF FrontTick, frontVars
<1> QED BY <1>1, <1>2, <1>3, <1>4, <1>5, <1>6, <1>7 DEF FrontNext, HandlerStep

\* So it holds always.
LEMMA ClientsHold == FrontSpec => []Clients
BY ClientsInit, ClientsStep, PTL DEF FrontSpec

\* The replicas under a front end are the replicas of CustomerDb: whatever is proved
\* of these holds of them.
THEOREM ReplicasOfFront == FrontSpec => Spec
<1>1. FrontInit => Init
  BY DEF FrontInit
<1> QED BY <1>1, ClientsHold, StepOfReplicas, PTL DEF FrontSpec, Spec

(***************************************************************************)
(* The calls of the replicas.                                              *)
(***************************************************************************)
\* What the replicas need: the invariants of CustomerDbProofs.
Below == Inv /\ ReplicaInv /\ AnsweredInv

\* They hold under a front end too.
LEMMA BelowHolds == FrontSpec => []Below
BY ReplicasOfFront, ReplicaInvariant, AnsweredInvariant, PTL DEF Below

\* What was asked stays as it was asked, what was answered is answered for good, and
\* only Write asks.
LEMMA CallsStay ==
    ASSUME Inv, [Next]_vars, NEW q \in RequestId
    PROVE  /\ call[q].state # "idle" => call'[q].state # "idle" /\ call'[q].body = call[q].body
           /\ call[q].state = "ok" => call'[q].state = "ok"
           /\ call[q].state = "idle" => call'[q] = call[q] \/ \E b \in Bodies[q] : Write(q, b)
<1> USE DEF Inv, TypeOK
<1>1. ASSUME NEW i \in Node, NEW r \in RequestId, NEW s \in {"ok", "failed"}, Respond(i, r, s)
      PROVE  \/ call'[q] = call[q]
             \/ call[q].state = "waiting" /\ call'[q].state # "idle" /\ call'[q].body = call[q].body
  BY <1>1 DEF Respond
<1>2. ASSUME NEW i \in Node, ExecutorStep(i)
      PROVE  \/ call'[q] = call[q]
             \/ call[q].state = "waiting" /\ call'[q].state # "idle" /\ call'[q].body = call[q].body
  BY <1>1, <1>2 DEF ExecutorStep, Execute, ExecuteFails, ExecutorDies
<1>3. ASSUME NEW i \in Node, Broadcast(i) \/ GetAccount(i) \/ Tick(i) \/ \E r \in RequestId : GetSession(i, r)
      PROVE  call' = call
  BY <1>3 DEF Broadcast, GetAccount, Tick, GetSession
<1>4. ASSUME NEW r \in RequestId, TimeOut(r)
      PROVE  \/ call'[q] = call[q]
             \/ call[q].state = "waiting" /\ call'[q].state # "idle" /\ call'[q].body = call[q].body
  BY <1>4 DEF TimeOut
<1>5. ASSUME NEW r \in RequestId, NEW b \in Bodies[r], Write(r, b)
      PROVE  call'[q] = call[q] \/ (call[q].state = "idle" /\ r = q)
  BY <1>5 DEF Write
<1>6. CASE UNCHANGED vars
  BY <1>6 DEF vars
<1> QED BY <1>2, <1>3, <1>4, <1>5, <1>6 DEF Next

\* A login whose client was told of its session.
LoggedIn(r) == r \in RequestId /\ call[r].state = "ok" /\ call[r].body.op = "create_session"

\* It is in the order, and took effect at the replica that served it.
LEMMA LoggedInIsOrdered ==
    ASSUME Below, NEW r, LoggedIn(r)
    PROVE  r[1] \in Node /\ \E x \in Took(r[1]) : x \in 1 .. Len(order) /\ order[x] = r
<1>1. r[1] \in Node
  BY DEF LoggedIn, RequestId
<1>2. PICK x \in Took(r[1]) : order[x] = r
  BY DEF LoggedIn, Below, AnsweredInv
<1> QED BY <1>1, <1>2, TookFacts DEF Below

\* That a client was told is not taken back.
LEMMA LoggedInStays ==
    ASSUME Below, [Next]_vars, NEW r, LoggedIn(r)
    PROVE  LoggedIn(r)'
BY CallsStay DEF LoggedIn, Below

(***************************************************************************)
(* The sessions that clients know, and the requests to end them.           *)
(***************************************************************************)
\* what a handler goes by: the session its client was told of, the request it made
HandlerKnows(h, k) ==
    /\ Task[h] \in {"check", "logout"} /\ k.step # "idle" => LoggedIn(k.session)
    /\ Task[h] = "login" /\ k.step = "ok" /\ k.session # NoId => LoggedIn(k.session)
    /\ k.step = "wait" => call[k.request].state # "idle"
    /\ Task[h] = "login" /\ k.step = "wait" => call[k.request].body.op = "create_session"
    /\ Task[h] = "check" /\ k.step \in {"send", "wait"} => Outlived(k.replica, k.session, now[Side[h]])

\* a login comes before every request that ends its session
Before(r, q) == \A y \in 1 .. Len(order) : order[y] = q => \E x \in 1 .. Len(order) : x < y /\ order[x] = r
\* and there is a reason for that request
Reason(r, q) == EndedByClient(r, q) \/ EndedByFront(r, q)
Justified(q) ==
    /\ call[q].body.op # "reset_all"
    /\ call[q].body.op = "delete_session" =>
          LET r == call[q].body.session IN LoggedIn(r) /\ Before(r, q) /\ Reason(r, q)

\* what was ever inserted at a replica is of a login that took effect there
RowsOfLogins == \A i \in Node : \A s \in issued[i] : \E x \in Took(i) : order[x] = s.id

FrontInv ==
    /\ Clients
    /\ \A h \in Handler : HandlerKnows(h, handler[h])
    /\ \A q \in RequestId : call[q].state # "idle" => Justified(q)
    /\ RowsOfLogins

\* At the start nobody knows of a session.
LEMMA FrontInvInit == FrontInit => FrontInv
<1> SUFFICES ASSUME FrontInit PROVE FrontInv
  OBVIOUS
<1>1. Clients
  BY ClientsInit
<1>2. \A h \in Handler : handler[h].step = "idle"
  BY DEF FrontInit
<1>3. \A q \in RequestId : call[q].state = "idle"
  BY DEF FrontInit, Init
<1>4. \A i \in Node : issued[i] = {}
  BY DEF FrontInit, Init
<1> QED BY <1>1, <1>2, <1>3, <1>4 DEF FrontInv, HandlerKnows, RowsOfLogins

\* Time passes.
LEMMA NowGrows ==
    ASSUME Clients, [FrontNext]_frontVars, NEW k \in Front
    PROVE  now[k] \in Nat /\ now'[k] \in Nat /\ now'[k] >= now[k]
<1>1. now[k] \in Nat /\ now \in [Front -> 0 .. MaxTime]
  BY TimesAssumption DEF Clients
<1>2. now'[k] = now[k] \/ now'[k] = now[k] + 1
  BY <1>1 DEF FrontNext, Begin, HandlerStep, Probe, Broken, FindAccount, ValidateSession, Send, Answer,
              ReplicaStep, Move, FrontTick, frontVars, clientVars
<1> QED BY <1>1, <1>2

\* An expiration that has passed has passed for good.
LEMMA OutlivedStays ==
    ASSUME Below, [Next]_vars, NEW i \in Node, NEW r, NEW t \in Nat, NEW u \in Nat, u >= t, Outlived(i, r, t)
    PROVE  \E s \in issued'[i] : s.id = r /\ s.expiration < u
<1>1. issued[i] \subseteq issued'[i]
  BY StepOnReplica DEF OneOfFour, Quiet, Effect, Loss, Expiry, Below
<1>2. \A s \in issued[i] : s.expiration \in Nat
  BY DEF Below, Inv, TypeOK, Sessions
<1> QED BY <1>1, <1>2 DEF Outlived

\* What a handler knows stays true.
LEMMA KnowledgeStays ==
    ASSUME Below, Clients, [FrontNext]_frontVars, NEW h \in Handler, NEW k, HandlerKnows(h, k),
           k.step = "wait" => k.request \in RequestId, k.replica \in Node
    PROVE  HandlerKnows(h, k)'
<1>1. [Next]_vars
  BY StepOfReplicas
<1>2. LoggedIn(k.session) => LoggedIn(k.session)'
  BY <1>1, LoggedInStays
<1>3. k.step = "wait" => /\ call'[k.request].state # "idle"
                         /\ call'[k.request].body = call[k.request].body
  BY <1>1, CallsStay DEF Below, HandlerKnows
<1>4. Side[h] \in Front /\ now[Side[h]] \in Nat /\ now'[Side[h]] \in Nat /\ now'[Side[h]] >= now[Side[h]]
  BY NowGrows DEF Front
<1>5. Outlived(k.replica, k.session, now[Side[h]]) => Outlived(k.replica, k.session, now[Side[h]])'
  BY <1>1, <1>4, OutlivedStays DEF Outlived
<1> QED BY <1>2, <1>3, <1>5 DEF HandlerKnows

\* Only its own steps change a handler.
LEMMA OwnSteps ==
    ASSUME Clients, [FrontNext]_frontVars, NEW g \in Handler, handler'[g] # handler[g]
    PROVE  Begin(g) \/ HandlerStep(g)
<1>0. handler \in [Handler -> HandlerState]
  BY DEF Clients
<1>1. ASSUME NEW h \in Handler, Begin(h) \/ HandlerStep(h), h # g PROVE handler'[g] = handler[g]
  BY <1>0, <1>1 DEF Begin, HandlerStep, Probe, Broken, FindAccount, ValidateSession, Send, Answer, Goes
<1>2. CASE ReplicaStep \/ (\E k \in Front : FrontTick(k)) \/ (\E i \in Node : Move(i)) \/ UNCHANGED frontVars
  BY <1>2 DEF ReplicaStep, FrontTick, Move, frontVars, clientVars
<1> QED BY <1>1, <1>2 DEF FrontNext

\* A handler that has made its request keeps it, and what it was for, unless the
\* answer to a login brings a session.
LEMMA RequestKept ==
    ASSUME Clients, [FrontNext]_frontVars, NEW g \in Handler, Task[g] # "login", handler[g].request \in RequestId
    PROVE  /\ handler'[g].request = handler[g].request
           /\ handler'[g].session = handler[g].session /\ handler'[g].replica = handler[g].replica
<1> USE DEF At, Goes
<1>0. handler[g] \in HandlerState /\ handler \in [Handler -> HandlerState]
  BY DEF Clients
<1>1. handler[g].step \notin {"idle", "probe", "connected", "send"}
  BY NoIdIsNone DEF Clients, HandlerFine
<1>2. ~ (Begin(g) \/ Probe(g) \/ FindAccount(g) \/ ValidateSession(g) \/ Send(g))
  BY <1>1 DEF Begin, Probe, FindAccount, ValidateSession, Send
<1>3. CASE Broken(g)
  BY <1>0, <1>3 DEF Broken, HandlerState
<1>4. CASE Answer(g)
  BY <1>0, <1>4 DEF Answer, HandlerState
<1> QED BY <1>2, <1>3, <1>4, OwnSteps DEF HandlerStep

\* A reason stays one: the handler that asked keeps its session and its replica, and
\* time goes on.
LEMMA ReasonStays ==
    ASSUME Below, Clients, [FrontNext]_frontVars, NEW r, NEW q \in RequestId, Reason(r, q)
    PROVE  Reason(r, q)'
<1>1. ASSUME NEW g \in Handler, Task[g] = "logout", handler[g].session = r, handler[g].request = q
      PROVE  Reason(r, q)'
  BY <1>1, RequestKept DEF Reason, EndedByClient
<1>2. ASSUME NEW g \in Handler, Task[g] = "check", handler[g].session = r, handler[g].request = q,
             Outlived(handler[g].replica, r, now[Side[g]])
      PROVE  Reason(r, q)'
  <2>1. /\ handler'[g].request = q /\ handler'[g].session = r
        /\ handler'[g].replica = handler[g].replica /\ handler[g].replica \in Node
    BY <1>2, RequestKept DEF Clients, HandlerState
  <2>2. Side[g] \in Front /\ now[Side[g]] \in Nat /\ now'[Side[g]] \in Nat /\ now'[Side[g]] >= now[Side[g]]
    BY NowGrows DEF Front
  <2>3. Outlived(handler[g].replica, r, now[Side[g]])'
    BY <1>2, <2>1, <2>2, OutlivedStays, StepOfReplicas DEF Outlived
  <2> QED BY <1>2, <2>1, <2>3 DEF Reason, EndedByFront
<1> QED BY <1>1, <1>2 DEF Reason, EndedByClient, EndedByFront

\* A request that is justified stays so: what the order gets is behind the login.
LEMMA JustifiedStays ==
    ASSUME Below, Clients, [FrontNext]_frontVars, NEW q \in RequestId, call[q].state # "idle", Justified(q)
    PROVE  Justified(q)'
<1>1. [Next]_vars
  BY StepOfReplicas
<1>2. call'[q].body = call[q].body
  BY <1>1, CallsStay DEF Below
<1>3. ASSUME NEW r, LoggedIn(r), Before(r, q)
      PROVE  Before(r, q)'
  <2> SUFFICES ASSUME NEW y \in 1 .. Len(order'), order'[y] = q
               PROVE  \E x \in 1 .. Len(order') : x < y /\ order'[x] = r
    BY DEF Before
  <2>1. Len(order) \in Nat /\ Len(order') \in Nat
    BY <1>1, DeliveryStep DEF Below, Inv, DeliveryInv
  <2>2. CASE y \in 1 .. Len(order)
    <3>1. PICK x \in 1 .. Len(order) : x < y /\ order[x] = r
      BY <1>1, <1>3, <2>2, PastStays DEF Before, Below
    <3>2. x \in 1 .. Len(order') /\ order'[x] = r
      BY <1>1, <2>1, <3>1, PastStays DEF Below
    <3> QED BY <3>1, <3>2
  <2>3. CASE y > Len(order)
    <3>1. PICK x \in 1 .. Len(order) : order[x] = r
      BY <1>3, LoggedInIsOrdered
    <3>2. x < y /\ x \in 1 .. Len(order') /\ order'[x] = r
      BY <1>1, <2>1, <2>3, <3>1, PastStays DEF Below
    <3> QED BY <3>2
  <2> QED BY <2>1, <2>2, <2>3
<1> QED BY <1>1, <1>2, <1>3, LoggedInStays, ReasonStays DEF Justified

\* A new request is in no order yet.
LEMMA NewIsBehind ==
    ASSUME Below, NEW q \in RequestId, call[q].state = "idle", NEW r
    PROVE  Before(r, q)
<1>1. \A y \in 1 .. Len(order) : order[y] \in submitted
  BY DEF Below, Inv, DeliveryInv
<1> QED BY <1>1 DEF Below, Inv, AskedInv, Before

\* What a handler asks for is justified, and the handler knows that it asked.
LEMMA SendJustified ==
    ASSUME Below, FrontInv, [FrontNext]_frontVars, NEW h \in Handler, Send(h)
    PROVE  /\ HandlerKnows(h, handler[h])'
           /\ \A q \in RequestId : call'[q].state # "idle" => Justified(q)'
<1>1. PICK r \in RequestId :
         /\ At(h, "send") \/ (At(h, "connected") /\ Task[h] \in {"create_account", "logout"})
         /\ Write(r, Asked(h))
         /\ handler' = [handler EXCEPT ![h].step = "wait", ![h].request = r]
         /\ UNCHANGED now
  BY DEF Send
<1>2. PICK k : k = handler[h]
  OBVIOUS
<1>3. [Next]_vars
  BY StepOfReplicas DEF FrontInv
<1>4. /\ k \in HandlerState /\ HandlerFine(h, k) /\ HandlerKnows(h, k) /\ k.step \in {"send", "connected"}
      /\ handler \in [Handler -> HandlerState] /\ Task[h] \in {"create_account", "login", "check", "logout"}
  BY <1>2, <1>1, FrontAssumption DEF FrontInv, Clients, At
<1>5. /\ handler'[h].step = "wait" /\ handler'[h].request = r
      /\ handler'[h].session = k.session /\ handler'[h].replica = k.replica
  BY <1>2, <1>1, <1>4 DEF HandlerState
<1>6. /\ call[r].state = "idle" /\ call'[r].state = "waiting" /\ call'[r].body = Asked(h) /\ order' = order
      /\ \A q \in RequestId : q # r => call'[q] = call[q]
  BY <1>1 DEF Write, Below, Inv, TypeOK
<1>7. Task[h] = "login" => Asked(h).op = "create_session"
  BY DEF Asked
<1>8. HandlerKnows(h, handler[h])'
  <2>1. Task[h] \in {"check", "logout"} => LoggedIn(k.session)'
    BY <1>3, <1>4, LoggedInStays DEF HandlerKnows
  <2>2. Task[h] = "check" => Outlived(k.replica, k.session, now[Side[h]])'
    <3>1. Task[h] = "check" => k.step = "send"
      BY <1>2, <1>1 DEF At
    <3> QED BY <1>1, <1>4, <3>1 DEF HandlerKnows, Outlived, Write
  <2> QED BY <1>5, <1>6, <1>7, <2>1, <2>2 DEF HandlerKnows
<1>9. Justified(r)'
  <2>1. CASE Task[h] \in {"create_account", "login"}
    <3>1. Asked(h).op \in {"create_account", "create_session"}
      BY <2>1 DEF Asked
    <3> QED BY <1>6, <3>1 DEF Justified
  <2>2. CASE Task[h] \in {"check", "logout"}
    <3>1. Asked(h).op = "delete_session" /\ Asked(h).session = k.session
      BY <1>2, <2>2 DEF Asked
    <3>2. LoggedIn(k.session)'
      BY <1>3, <1>4, <2>2, LoggedInStays DEF HandlerKnows
    <3>3. Before(k.session, r)'
      <4>1. Before(k.session, r)
        BY <1>6, NewIsBehind
      <4> QED BY <1>6, <4>1 DEF Before
    <3>4. Reason(k.session, r)'
      BY <1>5, <1>8, <2>2 DEF Reason, HandlerKnows, EndedByClient, EndedByFront
    <3> QED BY <1>6, <3>1, <3>2, <3>3, <3>4 DEF Justified
  <2> QED BY <1>4, <2>1, <2>2
<1>10. ASSUME NEW q \in RequestId, q # r, call'[q].state # "idle" PROVE Justified(q)'
  BY <1>6, <1>10, JustifiedStays DEF FrontInv
<1> QED BY <1>8, <1>9, <1>10

\* A step that makes no request.
LEMMA OldStayJustified ==
    ASSUME Below, FrontInv, [FrontNext]_frontVars, UNCHANGED call
    PROVE  \A q \in RequestId : call'[q].state # "idle" => Justified(q)'
BY JustifiedStays DEF FrontInv

\* A row that is past the front end's time was inserted where it is read.
LEMMA PastItsTime ==
    ASSUME Below, FrontInv, NEW h \in Handler, NEW i \in Node, NEW r, NEW s \in Rows(i, r), PastTime(h, s)
    PROVE  Outlived(i, r, now[Side[h]])
<1>1. s \in issued[i] /\ s.id = r
  BY SeenIssued DEF Rows, Below
<1> QED BY <1>1 DEF PastTime, Outlived

\* What the handler that takes a step knows after it.
LEMMA HandlerLearns ==
    ASSUME Below, FrontInv, [FrontNext]_frontVars, NEW h \in Handler,
           Begin(h) \/ Probe(h) \/ Broken(h) \/ FindAccount(h) \/ ValidateSession(h) \/ Answer(h)
    PROVE  HandlerKnows(h, handler[h])'
<1>0. PICK k : k = handler[h]
  OBVIOUS
<1>1. /\ k \in HandlerState /\ HandlerFine(h, k) /\ HandlerKnows(h, k) /\ handler \in [Handler -> HandlerState]
      /\ Task[h] \in {"create_account", "login", "check", "logout"}
  BY <1>0, FrontAssumption DEF FrontInv, Clients
<1>2. [Next]_vars
  BY StepOfReplicas DEF FrontInv
<1>3. \A r : LoggedIn(r) => LoggedIn(r)'
  BY <1>2, LoggedInStays
<1>4. CASE Begin(h)
  <2>1. PICK s : /\ s \in (IF Task[h] \in {"check", "logout"} THEN Told ELSE {NoId})
                 /\ handler' = [handler EXCEPT ![h].step = "probe", ![h].replica = current_replica[Side[h]],
                                               ![h].session = s]
    BY <1>4 DEF Begin
  <2>2. handler'[h].step = "probe" /\ handler'[h].session = s
    BY <1>1, <2>1 DEF HandlerState
  <2>3. Task[h] \in {"check", "logout"} => LoggedIn(s)
    BY <2>1 DEF Told, FrontInv, HandlerKnows, At
  <2> QED BY <1>3, <2>2, <2>3 DEF HandlerKnows
<1>5. CASE Probe(h) \/ Broken(h) \/ FindAccount(h)
  <2>1. PICK s : /\ handler'[h].step = s /\ handler'[h].session = k.session /\ k.step # "idle"
                 /\ s \in {"probe", "connected", "error", "refused", "send"}
                 /\ s = "send" => Task[h] = "login"
    <3>1. CASE Probe(h)
      <4>1. PICK s, i, t :
              /\ s \in {"connected", "refused", "error", "probe"} /\ At(h, "probe")
              /\ \/ handler' = [handler EXCEPT ![h].step = s, ![h].replica = i]
                 \/ handler' = [handler EXCEPT ![h].tried = t, ![h].step = s]
        BY <3>1 DEF Probe, Refusal
      <4> QED BY <1>0, <1>1, <4>1 DEF At, HandlerState
    <3>2. CASE Broken(h) \/ FindAccount(h)
      <4>1. PICK s \in {"error", "refused", "send"} :
              /\ handler' = [handler EXCEPT ![h].step = s]
              /\ s = "send" => Task[h] = "login"
              /\ handler[h].step # "idle"
        BY <3>2 DEF Broken, FindAccount, At, Goes, Refusal
      <4> QED BY <1>0, <1>1, <4>1 DEF HandlerState
    <3> QED BY <1>5, <3>1, <3>2
  <2> QED BY <1>1, <1>3, <2>1 DEF HandlerKnows
<1>6. CASE ValidateSession(h)
  <2>1. PICK s \in {"refused", "send", "ok"} :
          /\ handler' = [handler EXCEPT ![h].step = s]
          /\ s = "send" => \E x \in Rows(handler[h].replica, handler[h].session) : PastTime(h, x)
          /\ Task[h] = "check" /\ handler[h].step = "connected"
          /\ UNCHANGED <<now, issued>>
    BY <1>6 DEF ValidateSession, At, Goes, GetSession
  <2>2. s = "send" => Outlived(k.replica, k.session, now[Side[h]])'
    <3>1. s = "send" => Outlived(k.replica, k.session, now[Side[h]])
      BY <1>0, <1>1, <2>1, PastItsTime DEF HandlerState
    <3> QED BY <2>1, <3>1 DEF Outlived
  <2>3. /\ handler'[h].step = s /\ handler'[h].session = k.session
        /\ handler'[h].replica = k.replica
    BY <1>0, <1>1, <2>1 DEF HandlerState
  <2> QED BY <1>0, <1>1, <1>3, <2>1, <2>2, <2>3 DEF HandlerKnows
<1>7. CASE Answer(h)
  <2>1. /\ k.step = "wait" /\ k.request \in RequestId /\ Answered(k.request)
        /\ UNCHANGED call
    BY <1>0, <1>1, <1>7 DEF Answer, HandlerFine, At, vars
  <2>2. CASE Task[h] # "login"
    <3>1. handler'[h].session = k.session /\ handler'[h].step \in {"refused", "error", "ok"}
      BY <1>0, <1>1, <1>7, <2>2 DEF Answer, HandlerState, Refusal
    <3> QED BY <1>1, <1>3, <2>1, <2>2, <3>1 DEF HandlerKnows
  <2>3. CASE Task[h] = "login"
    <3>1. /\ handler'[h].step \in {"error", "ok"}
          /\ handler'[h].step = "ok" => call[k.request].state # "timeout"
          /\ handler'[h].session # NoId => handler'[h].session = k.request /\ call[k.request].state # "failed"
      BY <1>0, <1>1, <1>7, <2>3 DEF Answer, HandlerState, Refusal
    <3>2. handler'[h].step = "ok" /\ handler'[h].session # NoId => LoggedIn(k.request)
      BY <1>1, <2>1, <2>3, <3>1 DEF Answered, LoggedIn, HandlerKnows
    <3> QED BY <1>3, <2>3, <3>1, <3>2 DEF HandlerKnows
  <2> QED BY <2>2, <2>3
<1> QED BY <1>4, <1>5, <1>6, <1>7

\* A step inserts the session of a login that takes effect, or nothing: the tables
\* after it hold a session only if a login opened it.
LEMMA RowsStep == Below /\ Below' /\ FrontInv /\ [FrontNext]_frontVars => RowsOfLogins'
<1> SUFFICES ASSUME Below, Below', FrontInv, [FrontNext]_frontVars,
                    NEW i \in Node, NEW s \in issued'[i]
             PROVE  \E x \in Took(i)' : order'[x] = s.id
  BY DEF RowsOfLogins
<1>1. [Next]_vars
  BY StepOfReplicas DEF FrontInv
<1>2. s \in issued[i] \/ s \in db'[i].sessions
  BY <1>1, StepOnReplica DEF OneOfFour, Quiet, Effect, Loss, Expiry, Below
<1>3. CASE s \in issued[i]
  <2>1. PICK x \in Took(i) : order[x] = s.id
    BY <1>3 DEF FrontInv, RowsOfLogins
  <2> QED BY <1>1, <2>1, TookStays DEF Below
<1>4. CASE s \in db'[i].sessions
  <2>1. \E x \in Live(History(i)') : History(i)'[x].id = s.id
    BY <1>4 DEF Below, ReplicaInv, SaysHistory, SessionsBelong, Opened
  <2> QED BY <2>1 DEF Live, History
<1> QED BY <1>2, <1>3, <1>4

\* So what a check finds was made by a login.
LEMMA SessionsAreMade ==
    ASSUME Below, FrontInv, NEW i \in Node, NEW s \in Seen(i).sessions
    PROVE  s \in issued[i] /\ \E x \in Took(i) : order[x] = s.id
BY SeenIssued DEF Below, FrontInv, RowsOfLogins

\* Every step of the front end and of the replicas keeps the invariant.
LEMMA FrontInvStep == Below /\ Below' /\ FrontInv /\ [FrontNext]_frontVars => FrontInv'
<1> SUFFICES ASSUME Below, Below', FrontInv, [FrontNext]_frontVars PROVE FrontInv'
  OBVIOUS
<1>1. Clients' /\ RowsOfLogins'
  BY ClientsStep, RowsStep DEF FrontInv
<1>2. ASSUME NEW g \in Handler, handler'[g] = handler[g] PROVE HandlerKnows(g, handler[g])'
  <2>1. HandlerKnows(g, handler[g]) /\ HandlerFine(g, handler[g])
    BY DEF FrontInv, Clients
  <2>2. PICK k : k = handler[g]
    OBVIOUS
  <2>3. HandlerKnows(g, k)'
    BY <2>1, <2>2, KnowledgeStays DEF FrontInv, HandlerFine, Clients, HandlerState
  <2> QED BY <1>2, <2>2, <2>3
<1>3. ASSUME NEW h \in Handler, Begin(h) \/ HandlerStep(h)
      PROVE  \A g \in Handler : g # h => handler'[g] = handler[g]
  BY <1>3 DEF FrontInv, Clients, Begin, HandlerStep, Probe, Broken,
                FindAccount, ValidateSession, Send, Answer, Goes
<1>4. ASSUME NEW h \in Handler,
             Begin(h) \/ Probe(h) \/ Broken(h) \/ FindAccount(h) \/ ValidateSession(h) \/ Answer(h)
      PROVE  FrontInv'
  <2>1. UNCHANGED call
    BY <1>4 DEF Begin, Probe, Broken, FindAccount, ValidateSession, Answer, GetAccount, GetSession, vars
  <2>2. \A q \in RequestId : call'[q].state # "idle" => Justified(q)'
    BY <2>1, OldStayJustified
  <2>3. HandlerKnows(h, handler[h])'
    BY <1>4, HandlerLearns
  <2> QED BY <1>1, <1>2, <1>3, <1>4, <2>2, <2>3 DEF FrontInv, HandlerStep
<1>5. ASSUME NEW h \in Handler, Send(h) PROVE FrontInv'
  BY <1>1, <1>2, <1>3, <1>5, SendJustified DEF FrontInv, HandlerStep
<1>6. CASE ReplicaStep \/ (\E k \in Front : FrontTick(k)) \/ (\E i \in Node : Move(i)) \/ UNCHANGED frontVars
  <2>1. handler' = handler
    BY <1>6 DEF ReplicaStep, FrontTick, Move, frontVars, clientVars
  <2>2. \A q \in RequestId : call[q].state = "idle" => call'[q] = call[q]
    <3>1. CASE ReplicaStep
      <4>1. ASSUME NEW i \in Node, NEW r \in RequestId, NEW s, Respond(i, r, s)
            PROVE  \A q \in RequestId : call[q].state = "idle" => call'[q] = call[q]
        BY <4>1 DEF Respond, Below, Inv, TypeOK
      <4> QED
        BY <3>1, <4>1 DEF ReplicaStep, TimeOut, Broadcast, ExecutorStep, Execute, ExecuteFails, ExecutorDies, Tick,
                          Below, Inv, TypeOK
    <3>2. CASE (\E k \in Front : FrontTick(k)) \/ (\E i \in Node : Move(i)) \/ UNCHANGED frontVars
      BY <3>2 DEF FrontTick, Move, frontVars, vars
    <3> QED BY <1>6, <3>1, <3>2
  <2>3. \A q \in RequestId : call'[q].state # "idle" => Justified(q)'
    BY <2>2, JustifiedStays DEF FrontInv
  <2> QED BY <1>1, <1>2, <2>1, <2>3 DEF FrontInv
<1> QED BY <1>4, <1>5, <1>6 DEF FrontNext, HandlerStep

\* The invariant, with those of the replicas.
LEMMA FrontInvHolds == FrontSpec => [](Below /\ FrontInv)
BY FrontInvInit, FrontInvStep, BelowHolds, PTL DEF FrontSpec

(***************************************************************************)
(* The properties.                                                         *)
(***************************************************************************)

\* Whatever the handlers and the replicas do, every handler, and every variable below
\* it, keeps its type; what a handler waits for was asked for.
THEOREM FrontTyped == FrontSpec => []FrontTypeOK
<1>1. Below /\ FrontInv => FrontTypeOK
  BY DEF Below, Inv, FrontInv, Clients, HandlerState, HandlerFine, HandlerKnows, At, FrontTypeOK
<1> QED BY <1>1, FrontInvHolds, PTL

\* How a check ends: with no replica left to try, with a broken connection, with what
\* validate_session finds, or with the answer to its deletion.
LEMMA CheckEnds ==
    ASSUME Clients, NEW h \in Handler, Task[h] = "check", [FrontNext]_frontVars,
           NEW s \in {"ok", "refused"}, ~ At(h, s), handler'[h].step = s
    PROVE  \/ At(h, "probe") /\ s = "refused" /\ handler'[h].tried = Node
           \/ At(h, "connected") /\ s = "refused" /\ ~ Connected(h)
           \/ At(h, "connected") /\ ValidateSession(h)
           \/ handler[h].step \in {"send", "wait"} /\ s = "refused"
<1> USE DEF At, Goes
<1>0. handler \in [Handler -> HandlerState]
  BY DEF Clients
<1>1. Begin(h) \/ HandlerStep(h)
  BY OwnSteps
<1>2. ~ (Begin(h) \/ FindAccount(h) \/ Send(h))
  <2>1. ASSUME Begin(h) PROVE FALSE
    <3>1. PICK id : handler' = [handler EXCEPT ![h].step = "probe", ![h].replica = current_replica[Side[h]],
                                               ![h].session = id]
      BY <2>1 DEF Begin
    <3>2. handler'[h].step = "probe"
      BY <1>0, <3>1 DEF HandlerState
    <3> QED BY <3>2
  <2>2. ~ (FindAccount(h) \/ Send(h))
    BY <1>0 DEF FindAccount, Send, HandlerState
  <2> QED BY <2>1, <2>2
<1>3. CASE Probe(h)
  BY <1>0, <1>3 DEF Probe, Refusal, HandlerState
<1>4. CASE Broken(h)
  BY <1>0, <1>4 DEF Broken, Refusal, HandlerState
<1>5. CASE ValidateSession(h)
  BY <1>5 DEF ValidateSession
<1>6. CASE Answer(h)
  BY <1>0, <1>6 DEF Answer, Refusal, HandlerState
<1> QED BY <1>1, <1>2, <1>3, <1>4, <1>5, <1>6 DEF HandlerStep

\* What validate_session finds.
LEMMA Validated ==
    ASSUME Clients, NEW h \in Handler, ValidateSession(h), NEW s \in {"ok", "refused"}, handler'[h].step = s,
           NEW i, NEW r, i = handler[h].replica, r = handler[h].session
    PROVE  /\ s = "ok" => /\ Found(i, r)
                          /\ \A x \in Rows(i, r) : ~ PastTime(h, x) /\ ~ OtherKind(h, x)
           /\ s = "refused" => ~ Found(i, r) \/ \E x \in Rows(i, r) : OtherKind(h, x)
<1>1. PICK e : /\ handler' = [handler EXCEPT ![h].step = e]
               /\ e = IF ~ Found(i, r) THEN "refused"
                      ELSE IF \E x \in Rows(i, r) : PastTime(h, x) THEN "send"
                      ELSE IF \E x \in Rows(i, r) : OtherKind(h, x) THEN "refused" ELSE "ok"
  BY DEF ValidateSession, Goes
<1>2. e = s
  BY <1>1 DEF Clients, HandlerState
<1> QED BY <1>1, <1>2

\* No request empties the tables, so a login that took effect at a replica has its
\* session, or outlived its time, or was ended by a later request.
LEMMA OpenedUntilEnded ==
    ASSUME Below, FrontInv, NEW i \in Node, NEW r, LoggedIn(r), NEW x \in Took(i), order[x] = r
    PROVE  Opened(History(i), r, call[r].body.kind) <=> Ends(i, r) \ failed[i] = {}
<1> DEFINE H == History(i)
           kind == call[r].body.kind
<1>1. /\ DOMAIN H = Took(i) /\ Took(i) \subseteq 1 .. Len(order) /\ Took(i) \subseteq Nat
      /\ \A y \in Took(i) : H[y].id = order[y] /\ H[y].body = call[order[y]].body
  BY TookFacts DEF History, Below
<1>2. \A y \in Took(i) : /\ order[y] \in RequestId /\ call[order[y]].state # "idle" /\ Justified(order[y])
  BY <1>1 DEF Below, Inv, DeliveryInv, AskedInv, FrontInv
<1>3. Live(H) = Took(i)
  BY <1>1, <1>2 DEF Live, Justified
<1>4. \A q : q \in Done(i) \ failed[i] <=> \E y \in Took(i) : order[y] = q
  BY DEF Done, Took, Below, Inv, DeliveryInv
<1>5. H[x].body.op = "create_session" /\ H[x].id = r /\ H[x].body.kind = kind
  BY <1>1 DEF LoggedIn
<1>6. ASSUME NEW y \in Took(i), H[y].body.op = "delete_session", H[y].body.session = r
      PROVE  y > x
  <2>1. Before(r, order[y])
    BY <1>1, <1>2, <1>6 DEF Justified
  <2>2. PICK z \in 1 .. Len(order) : z < y /\ order[z] = r
    BY <1>1, <2>1 DEF Before
  <2>3. z = x
    BY <1>1, <2>2 DEF Below, Inv, DeliveryInv
  <2> QED BY <1>1, <2>2, <2>3
<1>7. \A q : q \in Ends(i, r) \ failed[i] <=>
               \E y \in Took(i) : order[y] = q /\ H[y].body.op = "delete_session" /\ H[y].body.session = r
  BY <1>1, <1>2, <1>4 DEF Ends, Justified
<1> HIDE DEF H, kind
<1>8. \A y \in Took(i) : H[y].id = r => y = x
  BY <1>1 DEF Below, Inv, DeliveryInv
<1>9. Opened(H, r, kind) <=> \A y \in Took(i) : ~ (H[y].body.op = "delete_session" /\ H[y].body.session = r)
  BY <1>3, <1>5, <1>6, <1>8 DEF Opened
<1>10. Opened(H, r, kind) <=> Ends(i, r) \ failed[i] = {}
  BY <1>7, <1>9
<1> QED BY <1>10 DEF H, kind

\* What a check finds, it finds in the tables or in a snapshot.
LEMMA RowsSeen ==
    ASSUME Below, NEW i \in Node, NEW r, ~ OldView(i, r)
    PROVE  Rows(i, r) = {s \in db[i].sessions : s.id = r}
BY DEF OldView

\* A row that is found is of the kind that its login asked for.
LEMMA KindOfLogin ==
    ASSUME Below, FrontInv, NEW i \in Node, NEW r, LoggedIn(r), NEW kind, Opened(History(i), r, kind)
    PROVE  kind = call[r].body.kind
<1>1. PICK x \in Took(i) : /\ History(i)[x].id = r /\ History(i)[x].body.kind = kind
  BY DEF Opened, Live, History
<1>2. History(i)[x].id = order[x] /\ History(i)[x].body = call[order[x]].body
  BY DEF History
<1> QED BY <1>1, <1>2

\* A replica that has no session of a login has a reason.
LEMMA MissingForReason ==
    ASSUME Below, FrontInv, NEW i \in Node, NEW r, LoggedIn(r), ~ Found(i, r)
    PROVE  Missing(i, r)
<1> SUFFICES ASSUME i = r[1] \/ r \in Done(i), r \notin failed[i], ~ OldView(i, r), ~ Outlived(i, r, clock[i])
             PROVE  \E q \in Ends(i, r) \ failed[i] : EndedByClient(r, q) \/ EndedByFront(r, q)
  BY DEF Missing
<1>1. PICK x \in Took(i) : order[x] = r
  <2>1. CASE i = r[1]
    BY <2>1, LoggedInIsOrdered
  <2>2. CASE r \in Done(i)
    <3>1. PICK x \in 1 .. executed[i] : delivered[i][x] = r
      BY <2>2 DEF Done
    <3>2. executed[i] \in 0 .. Len(delivered[i]) /\ Len(delivered[i]) \in Nat
      BY DEF Below, Inv, DeliveryInv
    <3>3. order[x] = r
      BY <3>1, <3>2 DEF Below, Inv, DeliveryInv
    <3> QED BY <3>1, <3>3 DEF Took
  <2> QED BY <2>1, <2>2
<1>2. \A s \in db[i].sessions : s.id # r
  <2> SUFFICES ASSUME NEW s \in db[i].sessions, s.id = r PROVE FALSE
    OBVIOUS
  <2>1. s.expiration < clock[i]
    BY RowsSeen DEF Found, Expired
  <2>2. s \in issued[i]
    BY DEF Below, ReplicaInv, SaysHistory
  <2> QED BY <2>1, <2>2 DEF Outlived
<1>3. r \in RequestId /\ r \notin Gone(i) /\ call[r].body.kind \in Kind
  <2>1. r \in RequestId /\ call[r].body \in Body /\ call[r].body.op = "create_session"
    BY DEF LoggedIn, Below, Inv, TypeOK, NoBody
  <2> QED BY <2>1, BodyFacts DEF Gone
<1>4. ~ Opened(History(i), r, call[r].body.kind)
  BY <1>2, <1>3 DEF Below, ReplicaInv, SaysHistory, SessionsBelong
<1>5. PICK q \in Ends(i, r) : q \notin failed[i]
  BY <1>1, <1>4, OpenedUntilEnded
<1>6. q \in RequestId /\ call[q].state # "idle"
  BY <1>5 DEF Ends, Done, Below, Inv, DeliveryInv, AskedInv
<1>7. Reason(r, q)
  BY <1>5, <1>6 DEF Ends, FrontInv, Justified
<1> QED BY <1>5, <1>7 DEF Reason

\* A client that was told of a session is refused only for one of the reasons that
\* RefusedForReason lists, wherever in validate_session that happens.
THEOREM NoRefusalWithoutReason == FrontSpec => RefusedForReason
<1>1. ASSUME Below, FrontInv, [FrontNext]_frontVars, NEW h \in Handler,
             Task[h] = "check", handler[h].step # "refused", handler'[h].step = "refused"
      PROVE  LET i == handler[h].replica
                 r == handler[h].session
             IN  CASE At(h, "probe") -> handler'[h].tried = Node
                   [] At(h, "connected") -> \/ ~ Connected(h)
                                            \/ Missing(i, r)
                                            \/ \E s \in issued[i] : s.id = r /\ s.kind # Side[h]
                   [] OTHER -> Outlived(i, r, now[Side[h]])
  <2>0. PICK i, r : i = handler[h].replica /\ r = handler[h].session
    OBVIOUS
  <2>1. /\ i \in Node /\ HandlerKnows(h, handler[h])
        /\ handler[h].step # "idle" => LoggedIn(r)
    BY <1>1, <2>0 DEF FrontInv, Clients, HandlerState, HandlerKnows
  <2>2. \/ At(h, "probe") /\ handler'[h].tried = Node
        \/ At(h, "connected") /\ (~ Connected(h) \/ ValidateSession(h))
        \/ handler[h].step \in {"send", "wait"}
    BY <1>1, CheckEnds DEF FrontInv, At
  <2>3. CASE At(h, "probe")
    BY <2>2, <2>3 DEF At
  <2>4. CASE At(h, "connected")
    <3>1. CASE ValidateSession(h)
      <4>1. ~ Found(i, r) \/ \E s \in Rows(i, r) : s.kind # Side[h]
        BY <1>1, <2>0, <3>1, Validated DEF FrontInv, OtherKind
      <4>2. ASSUME ~ Found(i, r) PROVE Missing(i, r)
        BY <1>1, <2>1, <2>4, <4>2, MissingForReason DEF At
      <4>3. ASSUME NEW s \in Rows(i, r) PROVE s \in issued[i] /\ s.id = r
        BY <1>1, <2>1, <4>3, SeenIssued DEF Rows, Below
      <4> QED BY <2>0, <2>4, <4>1, <4>2, <4>3 DEF At
    <3> QED BY <2>2, <2>4, <3>1 DEF At
  <2>5. CASE handler[h].step \in {"send", "wait"}
    <3>1. Outlived(i, r, now[Side[h]])
      BY <1>1, <2>0, <2>1, <2>5 DEF HandlerKnows
    <3> QED BY <2>0, <2>5, <3>1 DEF At
  <2> QED BY <2>2, <2>3, <2>4, <2>5
<1>2. Below /\ FrontInv /\ [FrontNext]_frontVars =>
        \A h \in Handler :
          LET i == handler[h].replica
              r == handler[h].session
          IN  (Task[h] = "check" /\ handler[h].step # "refused" /\ handler'[h].step = "refused") =>
                 CASE At(h, "probe") -> handler'[h].tried = Node
                   [] At(h, "connected") -> \/ ~ Connected(h)
                                            \/ Missing(i, r)
                                            \/ \E s \in issued[i] : s.id = r /\ s.kind # Side[h]
                   [] OTHER -> Outlived(i, r, now[Side[h]])
  BY <1>1
<1> QED BY <1>2, FrontInvHolds, PTL DEF FrontSpec, RefusedForReason

\* A session that is accepted was opened by a login of that front end at the replica
\* that accepts it, is not past its time on either clock, and no request that has ended
\* it there is older than what the replica reads.
THEOREM NobodyWithoutLogin == FrontSpec => LetInWithSession
<1>1. ASSUME Below, FrontInv, [FrontNext]_frontVars, NEW h \in Handler,
             Task[h] = "check", At(h, "connected"), handler'[h].step = "ok"
      PROVE  LET i == handler[h].replica
                 r == handler[h].session
             IN  /\ r \in Done(i) \ failed[i]
                 /\ \E s \in issued[i] : /\ s.id = r /\ s.kind = Side[h]
                                         /\ s.expiration >= clock[i] /\ s.expiration >= now[Side[h]]
                 /\ Ends(i, r) \ failed[i] = {} \/ OldView(i, r)
  <2>0. PICK i, r : i = handler[h].replica /\ r = handler[h].session
    OBVIOUS
  <2>1. i \in Node /\ LoggedIn(r)
    BY <1>1, <2>0 DEF FrontInv, Clients, HandlerState, HandlerKnows, At
  <2>2. ValidateSession(h)
    BY <1>1, CheckEnds DEF FrontInv, At
  <2>3. Found(i, r) /\ \A x \in Rows(i, r) : ~ PastTime(h, x) /\ ~ OtherKind(h, x)
    BY <1>1, <2>0, <2>2, Validated DEF FrontInv
  <2>4. PICK s \in Rows(i, r) : ~ Expired(i, s)
    BY <2>3 DEF Found
  <2>5. s \in Seen(i).sessions /\ s.id = r /\ s \in issued[i]
    BY <1>1, <2>1, <2>4, SeenIssued DEF Rows, Below
  <2>6. s.kind = Side[h] /\ s.expiration >= clock[i] /\ s.expiration >= now[Side[h]]
    <3>1. clock[i] \in Nat /\ s.expiration \in Nat /\ now[Side[h]] \in Nat
      BY <1>1, <2>1, <2>5, TimesAssumption DEF Below, Inv, TypeOK, Sessions, FrontInv, Clients, Front
    <3> QED BY <2>3, <2>4, <3>1 DEF PastTime, OtherKind, Expired
  <2>7. PICK x \in Took(i) : order[x] = r
    BY <1>1, <2>1, <2>5, SessionsAreMade
  <2>8. r \in Done(i) \ failed[i]
    BY <1>1, <2>1, <2>7, TookFacts DEF Done, Took, Below, Inv, DeliveryInv
  <2>9. ASSUME ~ OldView(i, r) PROVE Ends(i, r) \ failed[i] = {}
    <3>1. s \in db[i].sessions
      BY <1>1, <2>1, <2>4, <2>9, RowsSeen
    <3>2. Opened(History(i), r, s.kind)
      BY <1>1, <2>1, <2>5, <3>1 DEF Below, ReplicaInv, SaysHistory, SessionsBelong
    <3> QED BY <1>1, <2>1, <2>7, <3>2, KindOfLogin, OpenedUntilEnded
  <2> QED BY <2>0, <2>5, <2>6, <2>8, <2>9
<1>2. Below /\ FrontInv /\ [FrontNext]_frontVars =>
        \A h \in Handler :
          LET i == handler[h].replica
              r == handler[h].session
          IN  (Task[h] = "check" /\ At(h, "connected") /\ handler'[h].step = "ok") =>
                 /\ r \in Done(i) \ failed[i]
                 /\ \E s \in issued[i] : /\ s.id = r /\ s.kind = Side[h]
                                         /\ s.expiration >= clock[i] /\ s.expiration >= now[Side[h]]
                 /\ Ends(i, r) \ failed[i] = {} \/ OldView(i, r)
  BY <1>1
<1> QED BY <1>2, FrontInvHolds, PTL DEF FrontSpec, LetInWithSession
=============================================================================
