# Verification of the online marketplace

TLA+ models of the marketplace's replicated databases and of the front ends that
use them, checked with TLC on small instances, with proofs, for every size of the
instance, of the safety of the atomic broadcast, of the customer replicas, of the
Raft storage, of the product service with the Raft it runs on, and of the front ends'
handlers, the books they keep included.

## 1. The system

A client talks REST to one of two front ends; the front ends talk gRPC to two
replicated databases and SOAP to a payment service.

    clients --REST--> seller_server --gRPC--> customer database (atomic broadcast, 5 nodes)
            --REST--> buyer_server  --gRPC--> product database  (Raft, 5 nodes)
                                    --SOAP--> financial_transactions

| Component | State | Operations | What makes it hard | What must hold |
|---|---|---|---|---|
| **Atomic broadcast** (`python_customer_db/customer_db_service.py`: `NodeState`, `process_messages`, `udp_receive`, `_broadcast_write`) | per node: local counter, request log, service messages by global number, `request_to_seq`, `last_delivered_seq`, what it heard of the others, next number to assign, waiting handlers | broadcast a request; receive a Request or Sequence message; assign a number when it is this node's turn; deliver; negative acknowledgements and their answers | UDP loses, duplicates and reorders; ten gRPC threads and one message thread; sequencing waits on other nodes; progress is known only by hearsay | one global order without gaps or repetitions, true to each sender; one delivery order at all nodes; handlers find their answers; something is delivered at all |
| **Customer replica** (same file: `delivery_executor`, `execute_request`, the RPC methods; MySQL tables) | sellers, buyers, sessions; the read connection's snapshot; the local clock | create/update account, create/delete session, reset, reads, `GetSession` that deletes what has expired | executor and RPC threads; timeouts against late execution; a database error at one replica; clocks; MySQL isolation | replicas that executed the same requests agree; answers say what the tables say |
| **Product replica storage** (`product_db/src/storage.rs`) | one SQLite file: tables, log, `last_applied`, hard state; current snapshot; connection | append, save hard state, apply one or a batch, compact, receive and install a snapshot, restart | every statement is its own transaction; the copy runs beside the lock; a crash between any two steps | nothing committed is lost or skipped, nothing is applied twice without a reason, one vote a term |
| **Product RPC service** (`service.rs`) | none | writes through `client_write`; reads, `client_read` and then the node's own tables; redirection to the leader | each front end knows one node, which may be no leader, be deposed between the two steps of a read or while a write is under way, or crash | to its callers it is one database; what it acknowledged stays; every RPC ends |
| **Raft transport** (`network.rs`, `grpc.rs`, `main.rs`) | peers, channels | `append_entries` and `vote`, each with a time limit; `initialize` on a node nothing has reached | a call that timed out may have been carried out | only what was answered is counted; the protocol itself is async-raft's |
| **Single-node customer database** (`customer_db/src/main.rs`) | SQLite tables under one mutex | one statement per RPC, a check and a deletion in `get_session` | — | it is what every replica of the customer database must look like |
| **Buyer front end** (`buyer_server/src/main.rs`) | index of the current customer replica | choice of a replica, accounts, login, cart, feedback, `make_purchase` | read-modify-write over several RPCs, none of them transactional; failures half-way; the next replica has executed less | stock, sales, purchases and history agree; payment before goods; a session is refused only for a reason |
| **Seller front end** (`seller_server/src/main.rs`) | the same | accounts, login, register item, price, units, `reset_all` | writes back whole items, over two databases | the same |
| **Financial transactions** | none | approve nine in ten | — | a declined payment buys nothing |
| broadcast skeleton in Rust, clients, evaluator, `common`, stubs, deployment | — | an empty loop, menus, load generator, types, generated code, scripts | — | not modelled, see section 8 |

## 2. The modules

| Module | What it is | Uses |
|---|---|---|
| `TotalOrder` | what the broadcast promises: one order that grows at its end, prefixes of it delivered | — |
| `AtomicBroadcast` | the broadcast as coded | instantiates `TotalOrder` with a refinement mapping |
| `CustomerServer` | what a customer replica promises: the tables of a single server | the Rust server, one action per RPC |
| `CustomerDb` | executor, tables, sessions, RPC handlers | composed with the broadcast through `TotalOrder`; instantiates `CustomerServer` for each node |
| `ProductStore` | the Raft storage, with crashes | the Raft library as an external log |
| `ProductDatabase` | what the product database promises its callers: one database | — |
| `ProductService` | RPC service, transport and start-up of each node, and the calls made to them | Raft as external actions; instantiates `ProductDatabase` with a refinement mapping |
| `Purchase` | REST handlers over the two databases | payment service as an input |
| `FrontEnd` | a front end over several customer replicas: which one a handler gets, and the handlers that need nothing else | extends `CustomerDb` |
| `AtomicBroadcastProofs`, `DeliveryProofs` | theorems about `AtomicBroadcast`, the second extending the first | TLAPS |
| `CustomerDbProofs` | theorems about `CustomerDb` | TLAPS |
| `FrontEndProofs` | theorems about `FrontEnd`, extending `CustomerDbProofs` | TLAPS |
| `ProductStoreProofs` | theorems about `ProductStore` | TLAPS |
| `ProductServiceProofs` | theorems about `ProductService` | TLAPS |
| `PurchaseProofs`, `BooksProofs` | theorems about `Purchase`, the second extending the first | TLAPS |
| `MCxxx` | instances for TLC, with one `.cfg` for each question | |

Three abstract specifications tie the modules together: `AtomicBroadcast` implements
`TotalOrder`, over which `CustomerDb` runs; each replica of `CustomerDb` implements
`CustomerServer`; `ProductService` implements `ProductDatabase`. `Purchase` takes both
databases for what the last two promise at their best: one copy that executes each
write at most once, possibly after its caller was told that it failed.

### AtomicBroadcast

The variables have the names of `NodeState`'s fields, one function from nodes to
values for each. Two pairs of dictionaries that the code always updates together
(`seq_to_request` with `received_service_msgs`, `received_from_sender` with
`all_requests`) are one variable each. `handler` is the write RPC handler of each
request with the step it is at; `net` the set of packets in flight; `faults`
counts what UDP lost or duplicated.

A message handler runs under `self.lock` on the one message thread of its node,
so it is one action with everything it calls: `OnRequestMessage` and
`OnServiceMessage` include the negative acknowledgements, `_try_sequence` and the
recursion of `_try_deliver`. A write RPC handler takes the lock in pieces:
`NextLocalSeq`, `BuildRequest` (which reads `last_delivered_seq` without the
lock), `RegisterPendingResponse` and `BroadcastRequest` are separate actions.
Reordering is the free choice of the packet to receive.

### CustomerDb

A request is its id, which `_det_uuid` makes the id of its row. `Execute` is a
round of `delivery_executor`; `ExecuteFails` the `pymysql.Error` that is rolled
back and swallowed; `ExecutorDies` an error that `execute_request` does not
survive (no connection: `rollback` raises as well), with the statement committed
or not. `view` is the snapshot that the first SELECT fixes on the read connection,
under MySQL's default isolation, until that connection commits, which only
`GetSession` does. Every replica has its own clock (`Tick`). Sellers and buyers
are two kinds of account; the counters of a row are one value. `issued` is history: the
session rows that each replica ever inserted, with the expiration that it computed,
which is what `Outlived` compares with a clock.

`CustomerServer` is the server that the replicated one took the place of, as
`customer_db/src/main.rs` has it: a name that is taken refuses a new account, a
session is made without a look at its account, `get_session` deletes what is past its
time. `EachReplicaIsAServer` says that the tables of every replica, with the replica's
clock, only ever go through steps of that server.

### FrontEnd

`handler` is a REST handler of one of the two front ends (`Side`) with the connection it
has been given; each front end has a `current_replica` and a clock (`now`) of its own.
`get_customer_client` reads `current_replica` under the lock (`Begin`), then tries
that replica and the others in random order without it, and writes down the one that
answers (`Probe`); handlers that do this at once overwrite each other's choice. A
replica may go out of reach while a handler is connected (`Move`, `Broken`). What a
handler asks is a request of `CustomerDb` at that replica, with its next local number
(`Send`), and its answer is what that replica's write RPC makes of it (`Answer`):
an error code after a timeout, and an empty response, which counts as success, when
the database refused. `ValidateSession` asks the replica, which judges by its own
clock, judges what it gets by the clock of the front end (and then asks for its
deletion), and looks last whether it is of the front end's kind. All that goes wrong on
the way, a replica out of reach included, is answered with 401: a check is let in or
refused (`Refusal`).

Handlers are taken from one client, who has an account (`Name`) and knows the session ids
it was given (`Told`; an empty one fits no route) and may take one to the other front
end. The two front ends differ in no line of this but the kind of account.

### ProductStore

`file` is the SQLite file of a node. Each statement that a crash can separate from
the next is an action: `Apply` per entry and `SetLastApplied` at the end of a
batch, which may fail (`ApplyFails`) on the database in memory that an installation puts
in the place of the file; `EndBatch`, when Raft's main task, busy with that
installation until then, takes the result, an error of which stops it;
`StartCompaction`, which reads the label, and `CopyFile`, which copies what
is there by then; `OpenInMemory`, `TruncateFile`, `WriteFile`, `Reopen` for
`finalize_snapshot_installation`, where `fs::copy` empties the target first. A batch has
the connection's lock from its first entry to its last, and that is all that
`OpenInMemory` waits for: a batch handed over and not begun may meet the empty database,
or the new file. `Vote` saves whom a node votes for (`Candidate`: to the storage only a
name). An application of an entry leaves an effect `<<index, node, count>>`, so that
entries skipped, repeated, or applied with another outcome elsewhere (a random id) can be
told apart; `again` is history, the entries of a file for which there is a reason to be
applied to it once more: the copy was ahead of its label or its own `last_applied`
(`Ahead`), an installation overtook a batch (`Overtaken`), a crash came before the
count (`Uncounted`). Raft is external: one log, committed by majority; the library drops a
compaction that is under way when the installation of a snapshot begins, and starts
none before that is over.

### ProductService

`call` is one RPC from a front end to the node whose address it has (`Addr`): it
arrives or the connection fails (`Connect`), is refused by a node that does not lead
(`Redirect`), appends to the leader's log and waits until the entry is applied
(`ClientWrite`, `AnswerWrite`, `WriteFails`), or confirms the leader and then, a step
later, reads the node's tables (`CheckLeader`, `ReadRows`). No front end follows a
redirection, so nothing is retried. The transport's calls have three outcomes:
answered, lost, carried out but unheard (`Outcome`), and only an answered one counts
(`Answered`). `Crash` drops what is in memory, `Restart` runs `main` again, and
`Initialize` has its guard, an empty log and no term.

Raft is external, in the least form the code relies on: `Campaign` is an election in
one step, with the voters' check of the log; `AppendEntries` makes the follower's log
the leader's; `Commit` takes the next entry once a majority has acknowledged an entry
of the leader's term. It is assumed of async-raft that `client_read` confirms the
leader with a majority after it has committed in its term, that a committed entry is
handed to the leader's storage at once, and of the storage that a node's log and vote
survive a restart, which is the subject of `ProductStore`.

`ProductDatabase` says what callers may count on: writes take effect one at a time and
once, possibly after an error was answered; an answer shows a state at least as late
as every state an answer had shown when the call was made. Several calls may fail at
once, as a node that crashes ends all it serves. The mapping takes the
committed entries for the writes in effect.

### Purchase

`calls` holds each REST handler with the step it is at and what it has read; each
RPC is an action and is answered, lost, executed without an answer, or executed later
(`late`, `Land`): a request that Raft or the broadcast holds is not taken back when
its caller gives up. `CutOff` ends a handler between two RPCs: axum drops it when its
client hangs up, and the process may end. Which of
these `make_purchase` ignores (`let _ =`, `continue`) and which end it is as in the
code. `disturbed` records the four things, beside failed RPCs, that the books do
not survive: a row written back after it changed, a cart item passed over, a
purchase refused after it took something, and a reset that finds a purchase half in
the books (`HalfReset`): `reset_all` empties the customer database first, and what a
purchase books there between that and the reset of the product database, or has taken
from the stock by then and books later (`Taken`), has nothing to answer to in the
other database. `customers` and `sessions` are the
accounts and the sessions: a user of the model is an account, a session is named by
the login that made it, and a handler that needs one starts only for an account that
has one (`Start`) or finds it past its time and deletes it (`Expired`). `login` is
two RPCs, so a session may be made for an account that a reset has just removed, and
a handler that has been let in goes on after its session is gone. The id that a
`register_item` draws is a constant (`DrawnId`): random ids do not collide
(`FreshIdAssumption`). Quantities and prices are any integers, negative ones included, as
neither front end nor storage looks at their sign.

## 3. The runs

| Run | Instance | Shows |
|---|---|---|
| `broadcast_order` | 3 nodes, 2 + 1 writes, two at a time, 1 fault | the order and delivery invariants under every order of arrival, `MajorityOneBehind` among them; refinement of `TotalOrder`; every write is sequenced when nothing is lost; a missing Sequence message is repaired |
| `broadcast_majority` | 3 nodes, 1 + 1 writes | violated: `MajorityReceived` |
| `broadcast_delivery` | 3 nodes, 2 writes | violated: `WritesGetDelivered` |
| `broadcast_repair` | 2 nodes, 2 writes, 1 fault | violated: `MissingRequestRepaired` |
| `customer_replicas` | 2 nodes, one write each of five kinds, 1 error, clocks | replicas agree; each of them implements `CustomerServer`; answers are explained; handlers are released |
| `customer_login` | the same, no errors | violated: `LoginUsable` |
| `front_sessions` | 2 nodes, 4 calls of one client at both front ends, clocks, 1 replica that moves | a session is refused only for a reason, and accepted only with a login behind it |
| `product_storage` | 3 nodes, 2 entries, 1 crash, 1 node making snapshots, 1 voter | nothing is skipped, nothing repeated without a reason, one vote a term, committed entries stay |
| `product_rows` | the same | violated: `SameRows` |
| `product_service` | 3 nodes, 1 write and 1 read at different nodes, 2 terms, 1 crash | the service implements `ProductDatabase`; acknowledged writes stay; nodes apply one sequence; every RPC ends |
| `purchase_shop` | 2 buyers and a third that may register, 2 sellers, 2 items, 3 calls, 1 RPC that fails or is late or 1 handler cut off | stock, carts, histories and the marketplace's books |
| `purchase_oversell` | 2 purchases, nothing fails | violated: `NoOversell` |

### Bounds, and why they are enough

* `broadcast_order`: three nodes are the smallest group with a sequencer, its
  predecessor in the rotation and a third node that sees them in any order. Two writes
  at once (`MaxAtOnce`) of one sender give sender order and a number that one node
  assigns after another; one write each of two senders, requests that compete for a
  number; a third one, when nothing is in flight, ends the turn of the rotation and is
  the first that can be delivered too early by a node that misjudges the others.
  One fault is enough to set off each kind of repair. Longer workloads, larger groups,
  where one node and another are no majority, and more faults are covered by the
  theorems of section 5, which state every safety property of this run and its
  refinement for any number of each.
* `customer_replicas`: two replicas and one write each, from the same name, an
  update of what the other created, a login, a logout of it and a reset. Sessions
  live 0 s and clocks go to 1, so that a session is alive at one replica and
  expired at the other; one error covers a swallowed one and a dead executor.
* `front_sessions`: two replicas, of which one goes away or comes back once, so that a
  login, its check and its logout can each be at either. All clocks go from 0 to 1
  with a lifetime of 0 s, so that each replica and each front end can find the session
  expired when the others do not. Four calls are made (`MaxCalls`) of account, login, a
  check at each front end, and logout: the check at the sellers' refuses a buyer's
  session, after it has deleted it if it is past its time there, so that the other check
  may find it gone for a reason that neither its replica nor its front end has. Replica 0,
  where both front ends begin, has room for three writes and the other for one
  (`MostAtFirst`). Database errors are left to `customer_replicas`. All three properties
  are proved for any number of each, database errors included.
* `product_storage`: two entries are a batch that a crash can cut; three nodes are
  needed for a snapshot (with two, a follower can never be behind a committed
  entry). One crash covers each pair of statements once. One node votes (`MaxVoters`), for
  one of two candidates, and twice if its vote is forgotten. All five properties are
  proved for any number of nodes, entries, terms, votes, snapshots and crashes.
* `product_service`: three nodes are the smallest group that works with one away; the
  write is asked of one node and the read of another, so that the read's node can be
  leader, follower, or deposed. Two terms (`MaxTerm`) and two nodes that campaign
  (`Candidate`) give a leader, its successor at another node or at the same, and
  entries of both terms; one crash, of a node that serves calls (`Mortal`), may fall
  on the leader, on a voter, or before the first election. The safety properties and
  the refinement are proved for any number of nodes, calls, terms and crashes.
* `purchase_shop`: two purchases of more units than there are, one of them with two
  items, or the same buyer's purchase sent twice, against a third call of any kind;
  the one failure may hit any RPC of any of them, a late write may land after any
  later step, and a handler may be cut off anywhere. A buyer may register again, so
  that a purchase can book after a reset for an account that is new. A seller may ask for
  -1 units, a buyer may add -3 or remove -1, so that stock and carts do go below zero, and
  a cart may hold fewer units than none when it is bought. All six properties
  of this run are proved for any number of calls and failures.

`ReducedNext` of `MCAtomicBroadcast` is a partial-order reduction. It takes at once
(a) the receipt of a packet whose message its receiver already has, which changes
nothing but `net`, and stays possible and without other effect whatever comes before
it, and (b) a registration, which touches only the entry of a request that nobody
can have received yet. Both commute with all other steps and enable no other step
that they do not precede anyway (losing or duplicating such a packet has the effect
of dropping it). `broadcast_majority`, `broadcast_delivery` and `broadcast_repair`
run unreduced.

Deadlock is not checked: in every instance the requests run out and the system
rightly stops.

### Fairness

`AtomicBroadcast!Fairness`: the message thread of every node and every gRPC handler
keep running; they are daemon threads that block only on their queue or their
event. That packets arrive follows from the message thread's fairness, as a packet
stays in `net` until it is received or lost, and losses are bounded by `MaxFaults`.
No client is assumed to send anything. `CustomerDb!FairSpec`: the executor thread of
a node keeps running while it lives. `ProductService!Fairness`: each RPC handler that
can go on does (a tokio task), and a leader keeps sending to its peers and committing
as long as that gets it further (async-raft's replication tasks retry). No node is
assumed to campaign, crash or restart: a call made when there is no leader ends by
the redirection. `FrontEnd` is
checked for safety only and assumes no fairness.

## 4. What the violated runs show

Each is a trace of the code against a line of the repository, listed in
`PROJECT.json` under `findings`.

1. **Delivery needs only `s - 1` at a majority** (`MajorityReceived`).
   `_majority_confirmed` asks who delivered `s - 1`; for `s = 0` that is everyone. A
   node delivers number 0 when nobody else has received a thing. PA3.md asks for a
   majority that received everything up to `s`. What does hold is
   `MajorityOneBehind`, and it is proved.
2. **The last writes are never delivered** (`WritesGetDelivered`). Progress travels
   only in later Request and Sequence messages. With no loss at all, the second of
   two writes stays undelivered at every node and its RPC times out after 20 s.
3. **A lost own copy is never repaired** (`MissingRequestRepaired`). A node that
   lost its own copy of its own broadcast asks itself for it.
4. **A fresh session is not found** (`LoginUsable`). The read connection never
   leaves the snapshot of its first SELECT.
5. **Replicas of the product database differ** (`SameRows`). Each draws its own
   random id for a created item.
6. **Overselling** (`NoOversell`). Two purchases pass the same quantity check.

Seen while modelling, without a run: a login whose session the database refused is
answered with status 200 and an empty session id, as `CreateSession` answers a failed
write with an empty response and no error code
(`customer_db_service.py:531`); README.md promises sessions that are refreshed
on each request, and nothing refreshes them; `make_purchase` counts units of cart
items that are not on sale into `items_purchased`; a node that crashes while it
installs a snapshot restarts with an empty database and calls `initialize`; an
installed snapshot brings another node's hard state, so the node may vote twice in a
term. The last two are why `OneVotePerTerm` and `CommittedKept` name the nodes they
exempt.

## 5. What is proved

| Module | Theorem | Property |
|---|---|---|
| `AtomicBroadcastProofs` | `TypeCorrect` | `TypeOK` |
| | `SequenceAgreement` | `OneRequestPerSeq` |
| | `SequencedOnce` | `OneSeqPerRequest` |
| | `NoGapInOrder` | `NoSkippedSeq` |
| | `SenderFifo` | `SenderOrderKept` |
| `DeliveryProofs` | `HeardNeverAhead` | `HeardIsTrue` |
| | `MajorityClose` | `MajorityOneBehind` |
| | `SameOrderEverywhere` | `SameDeliveryOrder` |
| | `HandlerIsFound` | `WaiterFound` |
| | `BroadcastIsTotalOrder` | `ImplementsTotalOrder` (a refinement) |
| `CustomerDbProofs` | `TypeCorrect` | `TypeOK` |
| | `ReplicaIsServer` | `EachReplicaIsAServer` (a refinement) |
| | `Agreement` | `ReplicasAgree` |
| | `Explanation` | `AnswerExplained` |
| `FrontEndProofs` | `ReplicasOfFront` | (every behaviour is one of `CustomerDb`) |
| | `FrontTyped` | `FrontTypeOK` |
| | `NoRefusalWithoutReason` | `RefusedForReason` (an action property) |
| | `NobodyWithoutLogin` | `LetInWithSession` (an action property) |
| `ProductStoreProofs` | `TypeCorrect` | `TypeOK` |
| | `NothingSkipped` | `NoSkippedEntry` |
| | `RepeatsHaveReasons` | `RepeatsExplained` |
| | `VotesKept` | `OneVotePerTerm` |
| | `MajorityKeeps` | `CommittedKept` |
| `ProductServiceProofs` | `OneSequence` | `AppliedAgree` |
| | `TypeCorrect` | `TypeOK` |
| | `AnsweredIsKept` | `AcknowledgedKept` |
| | `IsOneDatabase` | `ImplementsProductDatabase` (a refinement) |
| `PurchaseProofs` | `UnitsAsked` | `NegativeUnitsAsked` |
| | `RowsAsked` | `EmptyRowsAsked` |
| | `PaidFor` | `BoughtIsPaid` |
| `BooksProofs` | `BooksAgree` | `BooksBalance` |
| | `FeedbackKept` | `FeedbackCounted` |
| | `PurchaseTyped` | `TypeOK` |

### AtomicBroadcast

For every number of nodes, writes per node and lost or duplicated packets: `N` is a
positive natural number, `MaxWrites` gives each node a natural number, `MaxFaults` is
a natural number.

*Order.* None of the four order properties is inductive: that a number is not given
twice depends on whose turn it is and on how far that node has counted; that a
request is not numbered twice depends on the sequencer holding every lower number
and every request behind it. `OrderInv` collects this: every service message is held
by its sequencer; it is numbered by a node whose turn it is and has passed;
`request_to_seq` is what the node's two logs say together; one request a number and
one number a request; no gap; sender order; what is pending is known. A handler
first takes a message in and then may assign a number, and the argument needs the
invariant in between, so it is an operator `Ordered(S, Q, K, P, T, M)` of the logs:
`TakeService` and `TakeRequest` prove it for the logs after the message is in,
`AssignSeq` for a number assigned on top (the heart: the new number is fresh and the
request unnumbered anywhere, since its node has the whole prefix), `Forget` and
`DeliverPending` for what delivery drops, and `SettleOrder` puts them together.

*Delivery.* `ClaimInv` says that every report of progress, in a log, in flight or
still in a handler, is at most its sender's progress; `HeardIsTrue` follows, and with
it `MajorityOneBehind`, as the count a node makes before delivering is a count of
nodes that are really there (`CardinalityGrows` on the two sets).

*One order.* `QueueInv` says that entry `s` of a delivery queue is the request that the
service messages give the number `s`, and that the queue is as long as
`last_delivered_seq` says; with one request a number this gives `SameDeliveryOrder`.
`WaitInv` follows a write from its number to its delivery: local numbers are fresh
(`FreshNumbers`), a node's waiting events are its own (`OwnWaits`), only sent requests
have numbers (`OnlySent`), and a sent one waits until it is in its node's queue
(`StillWaits`); `WaiterFound` is part of it. For the refinement, the order so far is
the numbers handed out, which have no gap and are counted by `CountInv`: a handler
that assigns a number appends its request, which was broadcast and is new in the
order, and then delivers; every other step leaves the order alone and extends a
prefix or nothing (`RefineStep`).

### CustomerDb

For every size of the group, workload, lifetime of sessions, number of database errors and
range of the clocks (`ReplicasAssumption`, `TimesAssumption`); `BodiesAssumption` says what the requests
of the workload are: one of the five operations, with the fields it has.

*One server.* Every step of a replica is a step of `CustomerServer` on its tables or
leaves them alone. The critical one is `Execute`: an account or a session that it adds
is new there because ids are request ids, and a request that is still to be executed
has no row yet (`FreshInv`), which needs that a replica delivers no request twice
(`DeliveryInv`).

*Agreement.* The tables of a replica are not a function of what it executed, because
its clock dates the sessions and `GetSession` deletes by it. `ReplicaInv` therefore
says, for every id, when a replica's history has made a row and no later reset,
update or logout has touched it (`Live`, `Written`, `Opened`), and that the accounts
are those rows exactly (`AccountsBelong`) and the sessions those rows but for the ones
whose expiration in `issued` has passed on that replica's clock (`SessionsBelong`, with
`Gone`). The history is
determined by the prefix of the order that was executed and by the requests that
failed; both are equal in the hypothesis of `ReplicasAgree`. `AnswerExplained` follows from
the same invariant: an account with the name is in the table after a create that was
executed (`AnsweredInv`).

### FrontEnd

For any number of replicas, handlers, requests, moves and seconds and any lifetime of
sessions (`FrontAssumption` and those of `CustomerDb`).

A step of the front end is a step of `CustomerDb` or leaves the replicas alone
(`StepOfReplicas`), so their invariants hold below it. What it adds is in `FrontInv`.
A handler that uses a session was told of it by a login that was answered
(`HandlerKnows`, `LoggedIn`), so the login is in the order and took effect at the
replica that served it. Every request that ends a session is `Justified`: the login
comes before it in the order (`Before`: it was known before the request was made, and
the order only grows at its end), and a handler sent it that logs out, or that found, in
the row of the replica it had asked, an expiration that was past on its front end's clock
(`Reason`). That is what `HandlerKnows` says of a check that deletes, until it ends: the
row that it judged is in `issued`, and clocks do not go back. No request empties the
tables, as these handlers make none that does. What was ever inserted at a replica is of
a login that took effect there (`RowsOfLogins`).

A check that ends has found no replica, lost its connection, deleted the session, or
looked it up. At a replica where the login took effect, the session is `Opened` in the
history until a request ends it (`OpenedUntilEnded`), and `SessionsBelong` says that the table then has it or the
expiration given to it there has passed on that replica's clock. So a session that is
missing has one of the reasons of `Missing` (`MissingForReason`). A session that is found
is of the kind its login asked for (`KindOfLogin`). The other way round, what is found
was opened there, and if it was found in the tables nothing has ended it.

### ProductStore

For any finite set of nodes (`NodesAssumption`), log, and number of terms, snapshots and
crashes. All five properties are about what a node's file holds, and none is inductive:
what a file will hold next is decided by the batch under way, the label a compaction has
read, or the snapshot that is being installed. `NodeInv` therefore speaks of all of
them: `FileInv` (a file and each snapshot hold what they are labelled with, and a
compaction's label is not ahead of the file), `AppliedInv` (what Raft takes for applied
is in the file, and a batch goes on where it stopped), `InstallInv` (what is left of an
installation, and that it only replaces a shorter file), `DownInv`, `VoteInv` (the
file or the memory remembers every vote) and `OnceInv`. The last says that what a file
holds twice is in `again` (`Once`), and what makes this inductive: where the next entry
will be applied, nothing is in the file unless it is in `again` (`Behind`), and what is
in the file and not counted there belongs to a batch that can still be counted or ends
its node's Raft (`Counted`, `InDoubt`), so that a crash makes it one of the `Uncounted`.
A step of one node leaves the
invariant of the others alone (`Others`), so there is one lemma for each action about
its own node. `CommitInv` counts the files that keep an entry, with those whose
snapshot will bring it back; only a crash in the middle of the copy takes a file out,
and that puts its node among the `erased`.

### ProductService

For any finite set of nodes (`NodesAssumption`), any calls, terms, candidates and
crashes (`ServiceAssumption` says what kind of thing each constant is).

*One sequence.* `AppliedAgree` says of each node that what it applied is a beginning of
what was committed. It is not inductive: what a leader may commit next depends on what
its followers have acknowledged, and what a later leader holds depends on who voted for
it. A step does one of five things to Raft's state (`StepKinds`): it wins an election
(`Wins`), makes a follower's log the leader's (`Copies`), appends (`Grows`), commits
(`Commits`), or at most makes nodes forget that they led (`Recedes`). `RaftInv`, which
each of them keeps, has these parts. `TermsHeard`: terms never fall along a log, and
a majority has heard of every term that is in one, so nobody is elected for it again.
`LeadersApart`: a leader is alone in its term and has every entry of it. `LogsMatch`:
logs with an entry of one term at one place agree up to it. `AcksHeld`: what a leader
takes for acknowledged is in the log it came from, unless that node has heard a later
leader. `LaterLogsHold` is the heart: a log that ends in a later term holds an entry of
this leader's, or a majority has moved on before acknowledging it, so that it will never
be committed by this leader (`Blocked`). `AppliedChosen`: what a node applied is
committed by an entry that every log at least as far holds and that a majority reaches
(`Chosen`); two majorities meet (`MajoritiesMeet`), so the voters of the next leader
include one that does.

*What callers see.* `CallInv` relates the handlers to this: a request is in the logs at
one place only (`WrittenOnce`), a handler that waits for its entry knows where it is as
long as its node leads in the same term, and one that is past `client_read` is at a
node whose tables are at least as late as all that was answered when it was called
(`ConfirmedIsCurrent`, where the leader's term and a commit in it are needed). With it
`AcknowledgedKept` follows, and the refinement: to commit an entry is to execute its
write, the end of one handler or the crash of a node is the failure of one call or of
several, an answer is an answer, and every other step is none. That what was shown is
the latest of all that was shown needs a greatest element, which is found as the least
of the upper bounds (`KnownIsGreatest`).

### Purchase

For any finite sets of buyers, sellers, items and calls and any number of failures. The
initial tables make sense (`PurchaseAssumption`: rows have no feedback yet, buyers and
sellers are different accounts), an id that is drawn is new (`FreshIdAssumption`), and a
request has the fields of its kind (`ScriptAssumption`): quantities and prices are any
integers.

Nothing checks the sign of a quantity, so stock and carts can be negative. What holds is
that they are so only by request: an item has a negative number of units only if a seller
has asked for that number (`NegativeUnitsAsked`), and a cart has a row of less than one
unit only if one was asked for (`EmptyRowsAsked`). Neither is inductive, as both say
nothing of the row a handler has read and will write back whole, much later, nor of a
write that is still on its way. `SignInv` does, with `ShopInv` for what rows, handlers and
late writes are: tables, rows about to be written back and late writes are all fine in
this sense (`ProductFine`, `HandlerFine`, `LateFine`). A handler that is about to write an
item back holds a row with at least the units it will deduct (`HandlerSafe`): it is the
row it has checked that it deducts from, not the row it replaces. So units can be sold
twice (`NoOversell` is violated) and yet no purchase brings them below zero. Requests,
once made, are not forgotten, so what was asked for when a row was read has been asked for when it lands.

`BoughtIsPaid` counts, for a buyer and an item, the purchases that have paid and are
past the item (`Credits`), and compares this with the history and the late history
writes together. Only `AddHistory` adds to the right of it, and in the same step its
purchase becomes a credit; no other step takes a credit away, a cut-off least of all.

`BooksBalance` speaks of states in which nothing is under way. Between them, the units
that have left the stock are the units in the sellers' counts and what the purchases
under way have still to add to them (`SellerDue`: the item the handler is at, from its
deduction to `update_seller`), and likewise for the buyers (`BuyerDue`: all it has
taken, up to `update_buyer`, which adds the whole cart). `Books` states the two
equations; they hold as long as nothing has failed or been disturbed (`Calm`) and no
reset is between its two halves (`NoReset`), and the second half of a reset
establishes them again whatever the books said before: `HalfReset` is what it must not
find, as everything else is zero then. Each of the other steps moves units from one
of the three sums to another. Sums over a finite set are folds in an order that
`CHOOSE` decides, so the lemmas about them (`SubsetInduction`) argue over the
subsets of the set by size.

For `FeedbackCounted`, a handler that writes back a row it read (not stale, as the run
is calm) adds its own feedback to those counted; an item that is registered starts with
none, and none was given for it before as its id was not in use (`FeedbackInv`,
`UsedIds`). `TypeOK` bounds the feedback of an item by the number of calls, also when
late writes bring back old rows: no row, in the table, in a handler or on its way, has
more than there were feedback calls that have written (`ThumbsInv`).

## 6. What is only model-checked

Liveness, which is out of the prover's reach: `WritesGetSequenced`,
`MissingSeqRepaired`, `DeliveredGetsAnswered` and `CallsEnd`. Every other property of a
passing run is proved. What the violated runs show is shown by TLC's traces.

## 7. Plan

The handlers that only read, once there is something to say of them beyond what their
RPCs answer; a part of `ProductService` that answers for `ProductStore`, so that what the
first assumes of the storage is what the second keeps.

## 8. What is not modelled

* A restart of a customer node: it keeps everything in memory, and PA3.md assumes
  that these servers do not fail.
* The depth of `_try_deliver`'s recursion and the length of the message queue (1000):
  limits out of reach of a small instance. A full queue is seen by the protocol as
  loss, which is modelled.
* The library async-raft beyond the external actions of `ProductService`.
  `ProductStore`, which has one log for all nodes, leaves out `delete_logs_from`: it
  is called only when a follower's log conflicts with the leader's.
* A cluster that never starts: a node calls `initialize` only while its log and term
  are empty (`product_db/src/main.rs:101`), so if every node crashes after it has
  voted and before it has an entry, none of them does after the restart.
  `ProductService` has the guard, but one crash cannot do this to all.
* A torn copy of a SQLite file, and two threads inside one pymysql connection.
* Passwords (a login with the wrong one is a login that is not made), search, item attributes other than seller, price, quantity and
  feedback, the SOAP envelope.
* Handlers that only read (search, rating, purchase history).
* The width of a quantity (`i32`): sums and differences that leave it
  (`buyer_server/src/main.rs:748`, `product_db/src/storage.rs:201`) are sums and
  differences of the model.
* The broadcast skeleton in Rust (an empty loop), the command-line clients (menus that
  keep a session id), the evaluator (a load generator), the types of `common`,
  generated stubs and deployment scripts.
