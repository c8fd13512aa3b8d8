----------------------------- MODULE CustomerDb -----------------------------
(***************************************************************************)
(* The customer database replicas on top of the broadcast: the executor    *)
(* thread of each node (delivery_executor, execute_request), the tables it *)
(* writes, the write RPC handlers that wait for it and the read RPCs, from *)
(* python_customer_db/customer_db_service.py.                              *)
(*                                                                         *)
(* The broadcast is TotalOrder, which AtomicBroadcast implements: a        *)
(* request is its id <<sender_id, local_seq>>, which _det_uuid turns into  *)
(* the id of the row it creates, one to one and the same at every node.    *)
(*                                                                         *)
(* Sellers and buyers are two kinds of account with the same operations;   *)
(* the counters of a row are one value.  Each replica has its own clock.   *)
(* pymysql opens connections without autocommit and MySQL isolates at      *)
(* REPEATABLE READ: the first SELECT on the read connection fixes a        *)
(* snapshot that lasts until the connection commits.                       *)
(***************************************************************************)
EXTENDS Integers, Sequences, FiniteSets

CONSTANTS
    N,           \* NUM_NODES
    MaxWrites,   \* bound: write RPCs each node serves
    Bodies,      \* what the clients may ask for in each request: [RequestId -> set of bodies]
    SESSION_TTL,
    MaxTime,     \* bound: the clocks stop here
    MaxErrors    \* bound: database errors met by the executors

Node == 0 .. N - 1
RequestId == UNION {{s} \X (1 .. MaxWrites[s]) : s \in Node}
Kind == {"seller", "buyer"}

ASSUME ReplicasAssumption == N \in Nat \ {0} /\ MaxWrites \in [Node -> Nat]
ASSUME TimesAssumption == {SESSION_TTL, MaxTime, MaxErrors} \subseteq Nat
ASSUME BodiesAssumption ==
    \A r \in RequestId : \A b \in Bodies[r] :
        \/ b.op = "create_account" /\ b.kind \in Kind
        \/ b.op = "update_account" /\ b.kind \in Kind /\ b.id \in RequestId
        \/ b.op = "create_session" /\ b.kind \in Kind
        \/ b.op = "delete_session" /\ b.session \in RequestId
        \/ b.op = "reset_all"

VARIABLES
    submitted, order, delivered,   \* the broadcast, see TotalOrder
    call,       \* write RPC handlers: [RequestId -> [state, body]]
    executed,   \* [Node -> number of requests taken off the delivery queue]
    failed,     \* [Node -> requests whose effect a database error took away]
    running,    \* [Node -> the executor thread is alive]
    db,         \* [Node -> committed tables]
    view,       \* [Node -> the snapshot of the read connection, if it has one, in a set]
    clock,      \* [Node -> the local clock, in seconds]
    issued      \* history: [Node -> every session row that was ever inserted there]

bcVars == <<submitted, order, delivered>>
execVars == <<executed, failed, running>>
vars == <<bcVars, call, execVars, db, view, clock, issued>>

TO == INSTANCE TotalOrder WITH
        Request <- RequestId,
        Before  <- {b \in RequestId \X RequestId : b[1][1] = b[2][1] /\ b[1][2] < b[2][2]}

------------------------------------------------------------------------------
(* Tables, and what each request does to them.                                 *)

Body == UNION {Bodies[r] : r \in RequestId}
Names == {b.name : b \in {b \in Body : b.op = "create_account"}}
Counters == {0} \cup {b.counters : b \in {b \in Body : b.op = "update_account"}}
Accounts == [kind : Kind, id : RequestId, name : Names, counters : Counters]
Sessions == [id : RequestId, kind : Kind, expiration : Nat]
Tables == [accounts : SUBSET Accounts, sessions : SUBSET Sessions]
Empty == [accounts |-> {}, sessions |-> {}]
NoBody == [op |-> "none"]

\* mutant: the tables have no unique key
NoKey(t, b) == FALSE
\* IntegrityError: a row of the kind has the name already
NameTaken(t, b) == \E a \in t.accounts : a.kind = b.kind /\ a.name = b.name

CreateAccount(t, r, b) ==
    IF NameTaken(t, b) THEN t
    ELSE [accounts |-> t.accounts \cup {[kind |-> b.kind, id |-> r, name |-> b.name, counters |-> 0]},
          sessions |-> t.sessions]

UpdateAccount(t, b) ==
    [accounts |-> {IF a.kind = b.kind /\ a.id = b.id
                   THEN [kind |-> a.kind, id |-> a.id, name |-> a.name, counters |-> b.counters]
                   ELSE a : a \in t.accounts},
     sessions |-> t.sessions]

\* mutant: the lifetime is taken off instead of added
BornExpired(now) == now - SESSION_TTL - 1
\* the replica's own clock gives the expiration
Expiration(now) == now + SESSION_TTL

CreateSession(t, r, b, now) ==
    IF \E s \in t.sessions : s.id = r THEN t
    ELSE [accounts |-> t.accounts,
          sessions |-> t.sessions \cup {[id |-> r, kind |-> b.kind, expiration |-> Expiration(now)]}]

\* mutant: the row stays
KeepSession(t, s) == t
DeleteSession(t, s) ==
    [accounts |-> t.accounts, sessions |-> {x \in t.sessions : x.id # s}]

\* execute_request, when the database accepts every statement
Result(t, r, b, now) ==
    CASE b.op = "create_account" -> CreateAccount(t, r, b)
      [] b.op = "update_account" -> UpdateAccount(t, b)
      [] b.op = "create_session" -> CreateSession(t, r, b, now)
      [] b.op = "delete_session" -> DeleteSession(t, b.session)
      [] b.op = "reset_all"      -> Empty

CallState == {"idle", "waiting", "ok", "failed", "timeout"}

TypeOK ==
    /\ call \in [RequestId -> [state : CallState, body : Body \cup {NoBody}]]
    /\ executed \in [Node -> Nat]
    /\ failed \in [Node -> SUBSET RequestId]
    /\ running \in [Node -> BOOLEAN]
    /\ db \in [Node -> Tables]
    /\ view \in [Node -> SUBSET Tables] /\ \A i \in Node : Cardinality(view[i]) <= 1
    /\ clock \in [Node -> 0 .. MaxTime]
    /\ issued \in [Node -> SUBSET Sessions]

Init ==
    /\ TO!Init
    /\ call = [r \in RequestId |-> [state |-> "idle", body |-> NoBody]]
    /\ executed = [i \in Node |-> 0]
    /\ failed = [i \in Node |-> {}]
    /\ running = [i \in Node |-> TRUE]
    /\ db = [i \in Node |-> Empty]
    /\ view = [i \in Node |-> {}]
    /\ clock = [i \in Node |-> 0]
    /\ issued = [i \in Node |-> {}]

------------------------------------------------------------------------------
(* Write RPCs.                                                                 *)

\* a write RPC, up to the wait for its event
Write(r, b) ==
    /\ call[r].state = "idle"
    /\ call' = [call EXCEPT ![r] = [state |-> "waiting", body |-> b]]
    /\ submitted' = submitted \cup {r}
    /\ UNCHANGED <<order, delivered, execVars, db, view, clock, issued>>

\* DELIVER_TIMEOUT passes: the caller is told, the request stays in the order
TimeOut(r) ==
    /\ call[r].state = "waiting"
    /\ call' = [call EXCEPT ![r] = [state |-> "timeout", body |-> @.body]]
    /\ UNCHANGED <<bcVars, execVars, db, view, clock, issued>>

Broadcast(i) ==
    /\ TO!Progress(i)
    /\ UNCHANGED <<call, execVars, db, view, clock, issued>>

\* mutant: the response goes to whichever node executed the request last
AnsweredAnywhere(i, r) == i # r[1]
\* the delivery carries the waiting handler at the node that serves the request
Answers(i, r) == i = r[1]

\* mutant: an error leaves the handler waiting
RespondIfOk(i, r, state) ==
    call' = IF state = "ok" /\ Answers(i, r) /\ call[r].state = "waiting"
            THEN [call EXCEPT ![r] = [state |-> state, body |-> @.body]] ELSE call

\* holder.response and event.set(); a handler that gave up takes no notice
Respond(i, r, state) ==
    call' = IF Answers(i, r) /\ call[r].state = "waiting"
            THEN [call EXCEPT ![r] = [state |-> state, body |-> @.body]] ELSE call

Take(i, r) ==
    /\ running[i]
    /\ executed[i] < Len(delivered[i])
    /\ r = delivered[i][executed[i] + 1]
    /\ executed' = [executed EXCEPT ![i] = @ + 1]

\* what a request did is committed
Commit(i, r) ==
    LET t == Result(db[i], r, call[r].body, clock[i])
    IN  /\ db' = [db EXCEPT ![i] = t]
        /\ issued' = [issued EXCEPT ![i] = @ \cup t.sessions]

\* one round of delivery_executor
Execute(i) == \E r \in RequestId :
    /\ Take(i, r)
    /\ Commit(i, r)
    /\ Respond(i, r, "ok")
    /\ UNCHANGED <<bcVars, failed, running, view, clock>>

ErrorsMet == Cardinality(UNION {failed[i] \X {i} : i \in Node}) + Cardinality({i \in Node : ~ running[i]})

\* a pymysql.Error with the connection alive: rolled back, answered with None
ExecuteFails(i) == \E r \in RequestId :
    /\ ErrorsMet < MaxErrors
    /\ Take(i, r)
    /\ failed' = [failed EXCEPT ![i] = @ \cup {r}]
    /\ Respond(i, r, "failed")
    /\ UNCHANGED <<bcVars, running, db, view, clock, issued>>

\* the connection is gone: rollback() raises as well and the thread ends, the
\* commit having reached the database or not; nobody is answered
ExecutorDies(i) == \E r \in RequestId :
    /\ ErrorsMet < MaxErrors
    /\ Take(i, r)
    /\ running' = [running EXCEPT ![i] = FALSE]
    /\ \/ /\ Commit(i, r)
          /\ UNCHANGED failed
       \/ /\ failed' = [failed EXCEPT ![i] = @ \cup {r}]
          /\ UNCHANGED <<db, issued>>
    /\ UNCHANGED <<bcVars, call, view, clock>>

------------------------------------------------------------------------------
(* Read RPCs, on the read connection of a node.                                *)

Seen(i) == IF view[i] = {} THEN db[i] ELSE CHOOSE t \in view[i] : TRUE

\* GetSellerByName, GetBuyerByName, GetSeller, GetBuyer
GetAccount(i) ==
    /\ view' = [view EXCEPT ![i] = {Seen(i)}]
    /\ UNCHANGED <<bcVars, call, execVars, db, clock, issued>>

\* mutant: a session is thrown away in its last second of life
LastSecond(i, s) == s.expiration <= clock[i] + 1
Expired(i, s) == s.expiration < clock[i]

Rows(i, r) == {s \in Seen(i).sessions : s.id = r}
\* what GetSession answers: the row, if it is there and alive
Found(i, r) == \E s \in Rows(i, r) : ~ Expired(i, s)

\* an expired row is deleted here, and the commit ends the snapshot
GetSession(i, r) ==
    /\ IF \E s \in Rows(i, r) : Expired(i, s)
       THEN /\ view' = [view EXCEPT ![i] = {}]
            /\ db' = [db EXCEPT ![i] = DeleteSession(@, r)]
       ELSE /\ view' = [view EXCEPT ![i] = {Seen(i)}]
            /\ UNCHANGED db
    /\ UNCHANGED <<bcVars, call, execVars, clock, issued>>

Tick(i) ==
    /\ clock[i] < MaxTime
    /\ clock' = [clock EXCEPT ![i] = @ + 1]
    /\ UNCHANGED <<bcVars, call, execVars, db, view, issued>>

------------------------------------------------------------------------------
ExecutorStep(i) == Execute(i) \/ ExecuteFails(i) \/ ExecutorDies(i)

Next ==
    \/ \E r \in RequestId : TimeOut(r) \/ \E b \in Bodies[r] : Write(r, b)
    \/ \E i \in Node :
          \/ Broadcast(i)
          \/ ExecutorStep(i)
          \/ GetAccount(i)
          \/ \E r \in RequestId : GetSession(i, r)
          \/ Tick(i)

Spec == Init /\ [][Next]_vars

\* the executor thread of every node keeps running while it lives
FairSpec == Spec /\ \A i \in Node : WF_vars(ExecutorStep(i))

------------------------------------------------------------------------------
(* Safety.                                                                     *)

Done(i) == {delivered[i][x] : x \in 1 .. executed[i]}

\* replica i inserted session r with an expiration, by its own clock, that is before now
Outlived(i, r, now) == \E s \in issued[i] : s.id = r /\ s.expiration < now

\* Replicas that have executed the same requests, and lost the same ones to
\* database errors, hold the same accounts and the same sessions, although each
\* computes expirations from its own clock and GetSession deletes at one replica
\* only: a session that is missing at one of them was inserted there, and the
\* expiration that this replica gave it has passed on the replica's own clock.
ReplicasAgree ==
    \A i, j \in Node :
        (executed[i] = executed[j] /\ failed[i] = failed[j]) =>
            /\ db[i].accounts = db[j].accounts
            /\ \A s \in db[i].sessions :
                  \/ \E x \in db[j].sessions : x.id = s.id /\ x.kind = s.kind
                  \/ Outlived(j, s.id, clock[j])

\* A create RPC that is answered is explained by the table of the node that
\* answered: its account is there, or the name went to a request that is earlier
\* in the global order (the IntegrityError that is answered with an id as well).
AnswerExplained ==
    \A r \in RequestId :
        (/\ call[r].state = "ok" /\ call[r].body.op = "create_account"
         /\ \A q \in Done(r[1]) : call[q].body.op # "reset_all") =>
            \E a \in db[r[1]].accounts :
                /\ a.kind = call[r].body.kind /\ a.name = call[r].body.name
                /\ \E x, y \in 1 .. Len(order) : order[x] = a.id /\ order[y] = r /\ x <= y

\* Each replica is, to whoever asks it, the single server that customer_db was,
\* with its own clock: however requests are ordered, answered late, rolled back or
\* cut short by a dying executor, its tables only go through what that server's
\* RPCs can do.
Server(i) == INSTANCE CustomerServer WITH
    Id <- RequestId, Name <- Names, Counters <- Counters,
    accounts <- db[i].accounts, sessions <- db[i].sessions, clock <- clock[i]
EachReplicaIsAServer ==
    /\ \A i \in Node : Server(i)!Init
    /\ [][\A i \in Node : [Server(i)!Next]_(Server(i)!vars)]_vars

------------------------------------------------------------------------------
(* Liveness, under FairSpec.                                                   *)

\* A request delivered at the node that serves it is executed there and its
\* handler released, whatever the outcome, unless the executor thread has died.
DeliveredGetsAnswered ==
    \A r \in RequestId :
        (r \in {delivered[r[1]][x] : x \in 1 .. Len(delivered[r[1]])}) ~>
            (call[r].state # "waiting" \/ ~ running[r[1]])

------------------------------------------------------------------------------
(* A statement of the README that the code does not keep.                      *)

\* README.md: the client uses the session_id from login.  Here: a session that a
\* node has created and acknowledged, and that is neither expired nor deleted,
\* is found when it is looked up at that node.
LoginUsable ==
    \A r \in RequestId :
        (/\ call[r].state = "ok"
         /\ \E s \in db[r[1]].sessions : s.id = r /\ ~ Expired(r[1], s))
            => Found(r[1], r)

==============================================================================
