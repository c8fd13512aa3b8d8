------------------------------ MODULE FrontEnd ------------------------------
(***************************************************************************)
(* The front ends (buyer_server/src/main.rs, seller_server/src/main.rs)    *)
(* over the customer replicas of CustomerDb: how get_customer_client       *)
(* chooses a replica, and the handlers that need nothing but that replica: *)
(* to create an account, to log in, to check a session, to log out.  The   *)
(* two front ends are the same program for the two kinds of account.       *)
(*                                                                         *)
(* A handler keeps one connection.  It may be open while the replica goes  *)
(* out of reach, and the next handler may be given another replica, which  *)
(* has executed less.  Each front end has a clock of its own.              *)
(***************************************************************************)
EXTENDS CustomerDb

CONSTANTS
    Handler,   \* REST calls of one client
    Side,      \* [Handler -> the front end that the call reaches: the buyers' or the sellers']
    Task,      \* [Handler -> what the call is for]
    Name,      \* the client's account name
    MaxCalls,  \* bound: how many of them are made
    MaxMoves   \* bound: replicas that go out of reach or come back

ASSUME FrontAssumption ==
    /\ Task \in [Handler -> {"create_account", "login", "check", "logout"}]
    /\ Side \in [Handler -> Kind]
    /\ MaxCalls \in Nat /\ MaxMoves \in Nat

Front == {Side[h] : h \in Handler}

VARIABLES
    current_replica, \* [Front -> where its next handler tries first]
    reachable,       \* external: the replicas that accept connections
    handler,         \* [Handler -> the handler]
    now,             \* [Front -> its clock, in seconds]
    moves            \* replicas that went out of reach or came back

clientVars == <<current_replica, reachable, handler, now, moves>>
frontVars == <<vars, clientVars>>

NoId == <<>>   \* the empty string where an id is expected
Step == {"idle", "probe", "connected", "send", "wait", "ok", "error", "refused"}

FrontTypeOK ==
    /\ TypeOK
    /\ current_replica \in [Front -> Node]
    /\ reachable \subseteq Node
    /\ \A h \in Handler :
          /\ handler[h].step \in Step
          /\ handler[h].replica \in Node
          /\ handler[h].tried \subseteq Node \ reachable \/ moves > 0
          /\ handler[h].session \in RequestId \cup {NoId}
          /\ handler[h].step = "wait" =>
                handler[h].request[1] = handler[h].replica /\ call[handler[h].request].state # "idle"
    /\ now \in [Front -> 0 .. MaxTime]
    /\ moves \in 0 .. MaxMoves

FrontInit ==
    /\ Init
    /\ current_replica = [k \in Front |-> 0]
    /\ reachable = Node
    /\ handler = [h \in Handler |->
                     [step |-> "idle", replica |-> 0, tried |-> {}, session |-> NoId, request |-> NoId]]
    /\ now = [k \in Front |-> 0]
    /\ moves = 0

At(h, step) == handler[h].step = step
Goes(h, step) == handler' = [handler EXCEPT ![h].step = step]
\* whatever goes wrong in validate_session, its caller answers 401
Refusal(h) == IF Task[h] = "check" THEN "refused" ELSE "error"
Connected(h) == handler[h].replica \in reachable

------------------------------------------------------------------------------
(* get_customer_client.                                                        *)

\* the sessions a client has been told of; no route takes a request with an empty id
Told == {handler[h].session : h \in {h \in Handler : Task[h] = "login" /\ At(h, "ok")}} \ {NoId}

\* the lock is held only to read where to begin
Begin(h) == \E s \in IF Task[h] \in {"check", "logout"} THEN Told ELSE {NoId} :
    /\ At(h, "idle")
    /\ Cardinality({g \in Handler : ~ At(g, "idle")}) < MaxCalls
    /\ handler' = [handler EXCEPT ![h].step = "probe", ![h].replica = current_replica[Side[h]],
                                   ![h].session = s]
    /\ UNCHANGED <<vars, current_replica, reachable, now, moves>>

\* the current replica first, then the others in random order
Untried(h) == IF handler[h].tried = {} THEN {handler[h].replica} ELSE Node \ handler[h].tried

Probe(h) == \E i \in Untried(h) :
    LET tried == handler[h].tried \cup {i}
    IN  /\ At(h, "probe")
        /\ IF i \in reachable
           THEN /\ current_replica' = [current_replica EXCEPT ![Side[h]] = i]
                /\ handler' = [handler EXCEPT ![h].step = "connected", ![h].replica = i]
           ELSE /\ handler' = [handler EXCEPT ![h].tried = tried,
                                              ![h].step = IF tried = Node THEN Refusal(h) ELSE "probe"]
                /\ UNCHANGED current_replica
        /\ UNCHANGED <<vars, reachable, now, moves>>

\* an RPC over a connection that is gone
Broken(h) ==
    /\ handler[h].step \in {"connected", "send", "wait"}
    /\ ~ Connected(h)
    /\ Goes(h, Refusal(h))
    /\ UNCHANGED <<vars, current_replica, reachable, now, moves>>

------------------------------------------------------------------------------
(* The handlers.                                                               *)

\* login: get_buyer_by_name or get_seller_by_name
FindAccount(h) ==
    LET i == handler[h].replica
        found == \E a \in Seen(i).accounts : a.kind = Side[h] /\ a.name = Name
    IN  /\ At(h, "connected") /\ Connected(h)
        /\ Task[h] = "login"
        /\ GetAccount(i)
        /\ Goes(h, IF found THEN "send" ELSE "error")
        /\ UNCHANGED <<current_replica, reachable, now, moves>>

\* mutant: a session is thrown away in its last second of life
LastSecondOfFront(h, s) == s.expiration <= now[Side[h]]
PastTime(h, s) == s.expiration < now[Side[h]]
OtherKind(h, s) == s.kind # Side[h]

\* validate_session: the row, if the replica has one that is alive by its clock, is
\* judged once more by the front end's; the kind is looked at last
ValidateSession(h) ==
    LET i == handler[h].replica
        r == handler[h].session
    IN  /\ At(h, "connected") /\ Connected(h)
        /\ Task[h] = "check"
        /\ GetSession(i, r)
        /\ Goes(h, IF ~ Found(i, r) THEN "refused"
                   ELSE IF \E s \in Rows(i, r) : PastTime(h, s) THEN "send"
                   ELSE IF \E s \in Rows(i, r) : OtherKind(h, s) THEN "refused" ELSE "ok")
        /\ UNCHANGED <<current_replica, reachable, now, moves>>

\* the write RPC of a task; a check writes when it deletes a session past its time
Asked(h) ==
    CASE Task[h] = "create_account" ->
            [op |-> "create_account", kind |-> Side[h], name |-> Name]
      [] Task[h] = "login" -> [op |-> "create_session", kind |-> Side[h]]
      [] Task[h] \in {"check", "logout"} -> [op |-> "delete_session", session |-> handler[h].session]

\* mutant: the call goes to any of the replicas
AnyReplica(i, r) == \A q \in RequestId : (q[1] = r[1] /\ q[2] < r[2]) => call[q].state # "idle"
\* the next local number of the replica
NextRequest(i, r) ==
    /\ r[1] = i
    /\ \A q \in RequestId : (q[1] = i /\ q[2] < r[2]) => call[q].state # "idle"

Send(h) == \E r \in RequestId :
    /\ At(h, "send") \/ (At(h, "connected") /\ Task[h] \in {"create_account", "logout"})
    /\ Connected(h)
    /\ NextRequest(handler[h].replica, r)
    /\ Asked(h) \in Bodies[r]
    /\ Write(r, Asked(h))
    /\ handler' = [handler EXCEPT ![h].step = "wait", ![h].request = r]
    /\ UNCHANGED <<current_replica, reachable, now, moves>>

Answered(r) == call[r].state \in {"ok", "failed", "timeout"}

\* Only a request that timed out is answered with an error code: one that the
\* database refused is answered with a response that is empty, and an empty id
\* with it.  A check ignores what became of its deletion.
Answer(h) ==
    LET r == handler[h].request
        outcome == IF Task[h] = "check" \/ call[r].state = "timeout" THEN Refusal(h) ELSE "ok"
        id == IF Task[h] # "login" THEN handler[h].session
              ELSE IF call[r].state = "failed" THEN NoId ELSE r
    IN  /\ At(h, "wait") /\ Connected(h)
        /\ Answered(r)
        /\ handler' = [handler EXCEPT ![h].step = outcome, ![h].session = id]
        /\ UNCHANGED <<vars, current_replica, reachable, now, moves>>

------------------------------------------------------------------------------
(* Everything else.                                                            *)

Move(i) ==
    /\ moves < MaxMoves
    /\ moves' = moves + 1
    /\ reachable' = IF i \in reachable THEN reachable \ {i} ELSE reachable \cup {i}
    /\ UNCHANGED <<vars, current_replica, handler, now>>

FrontTick(k) ==
    /\ now[k] < MaxTime
    /\ now' = [now EXCEPT ![k] = @ + 1]
    /\ UNCHANGED <<vars, current_replica, reachable, handler, moves>>

HandlerStep(h) ==
    \/ Probe(h) \/ Broken(h)
    \/ FindAccount(h) \/ ValidateSession(h) \/ Send(h) \/ Answer(h)

ReplicaStep ==
    /\ \/ \E r \in RequestId : TimeOut(r)
       \/ \E i \in Node : Broadcast(i) \/ ExecutorStep(i) \/ Tick(i)
    /\ UNCHANGED clientVars

FrontNext ==
    \/ \E h \in Handler : Begin(h) \/ HandlerStep(h)
    \/ ReplicaStep
    \/ \E i \in Node : Move(i)
    \/ \E k \in Front : FrontTick(k)

FrontSpec == FrontInit /\ [][FrontNext]_frontVars

------------------------------------------------------------------------------
(* Properties.                                                                 *)

\* requests executed at i that end session r: a logout, a deletion by the front
\* end, a reset
Ends(i, r) == {q \in Done(i) : \/ call[q].body.op = "reset_all"
                               \/ call[q].body.op = "delete_session" /\ call[q].body.session = r}
\* the read connection of i still sees the tables as they were at another time
OldView(i, r) == Rows(i, r) # {s \in db[i].sessions : s.id = r}

\* Two reasons for a request that ends session r: its client logs out, or a front end
\* found the row of the replica that it asked to be past its time by its own clock.
\* Only the second kind of handler may itself be the one that is refused.
EndedByClient(r, q) == \E g \in Handler :
    Task[g] = "logout" /\ handler[g].session = r /\ handler[g].request = q
EndedByFront(r, q) == \E g \in Handler :
    /\ Task[g] = "check" /\ handler[g].session = r /\ handler[g].request = q
    /\ Outlived(handler[g].replica, r, now[Side[g]])

\* Why replica i, when it is asked for session r of a login that succeeded, has none:
\* it has not executed the login yet, or has failed to; it reads from an old snapshot;
\* the expiration that it gave the session has passed on its own clock; or a request
\* that it has executed ended the session, for one of those two reasons.
Missing(i, r) ==
    \/ i # r[1] /\ r \notin Done(i)
    \/ r \in failed[i]
    \/ OldView(i, r)
    \/ Outlived(i, r, clock[i])
    \/ \E q \in Ends(i, r) \ failed[i] : EndedByClient(r, q) \/ EndedByFront(r, q)

\* A client that a login has given a session is refused only for a reason: no replica
\* can be reached; the connection broke; the replica has no session, with a reason of
\* its own; the session is for the other front end; or, when the handler has asked for
\* the session to be deleted as well, the expiration at the replica that it asked has
\* passed on the front end's clock.
RefusedForReason ==
    [][\A h \in Handler :
         LET i == handler[h].replica
             r == handler[h].session
         IN  (Task[h] = "check" /\ handler[h].step # "refused" /\ handler'[h].step = "refused") =>
                CASE At(h, "probe") -> handler'[h].tried = Node
                  [] At(h, "connected") -> \/ ~ Connected(h)
                                           \/ Missing(i, r)
                                           \/ \E s \in issued[i] : s.id = r /\ s.kind # Side[h]
                  [] OTHER -> Outlived(i, r, now[Side[h]])
      ]_frontVars

\* A session is good at a replica only if its login was executed there, by the front end
\* that asks, with an expiration that neither the replica's clock nor the front end's
\* has passed, and after a logout that this replica has executed, only from a snapshot
\* that is older.
LetInWithSession ==
    [][\A h \in Handler :
         LET i == handler[h].replica
             r == handler[h].session
         IN  (Task[h] = "check" /\ At(h, "connected") /\ handler'[h].step = "ok") =>
                /\ r \in Done(i) \ failed[i]
                /\ \E s \in issued[i] : /\ s.id = r /\ s.kind = Side[h]
                                        /\ s.expiration >= clock[i] /\ s.expiration >= now[Side[h]]
                /\ Ends(i, r) \ failed[i] = {} \/ OldView(i, r)
      ]_frontVars
==============================================================================
