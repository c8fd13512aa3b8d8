--------------------------- MODULE ProductService ---------------------------
(***************************************************************************)
(* The replicated product database as its callers see it: the gRPC service *)
(* of each node (service.rs), the Raft transport between the nodes         *)
(* (network.rs, grpc.rs), their start-up (main.rs), and the front ends,    *)
(* each of which knows the address of one node.                            *)
(*                                                                         *)
(* Raft is the async-raft library and external: candidates, a log of       *)
(* entries with terms, commitment by majority.  Its storage keeps what is  *)
(* written before it answers; that is the business of ProductStore.        *)
(***************************************************************************)
EXTENDS Integers, Sequences, FiniteSets

CONSTANTS
    Node,
    Call,        \* the RPCs made
    Write,       \* those that write; the others read
    Addr,        \* [Call -> PRODUCT_DB_ADDR of the front end that makes it]
    Nobody, Blank,
    Candidate,   \* bound: the nodes whose election timer ever runs out
    MaxTerm,     \* bound: terms
    Mortal,      \* bound: the nodes that may crash
    MaxCrashes   \* bound: crashes

ASSUME ServiceAssumption ==
    /\ Write \subseteq Call /\ Blank \notin Call /\ Nobody \notin Node
    /\ Addr \in [Call -> Node]
    /\ Candidate \subseteq Node /\ Mortal \subseteq Node /\ MaxTerm \in Nat /\ MaxCrashes \in Nat
ASSUME NodesAssumption == IsFiniteSet(Node)

VARIABLES
    up,          \* the nodes whose process runs
    initialized, \* nodes that have the full member set
    term, log,   \* [Node -> ...] what Raft keeps in its storage
    applied,     \* [Node -> entries applied to its tables, all it knows to be committed]
    leader,      \* [Node -> the node it takes for the leader, or Nobody]
    acked,       \* [Node -> [Node -> entries that node has acknowledged to it as leader]]
    call,        \* the RPC handlers
    committed,   \* history: the entries committed
    crashes      \* crashes so far

raftVars == <<initialized, term, log, applied, leader, acked, committed>>
vars == <<up, raftVars, call, crashes>>

Majority == {Q \in SUBSET Node : 2 * Cardinality(Q) > Cardinality(Node)}
Entry == [op : Write \cup {Blank}, term : 1 .. MaxTerm]
NotCalled == [pc |-> "idle", from |-> 0, shown |-> 0, term |-> 0, index |-> 0]
InHandler == {"arrived", "writing", "checked"}
Ended == {"ok", "error"}

TypeOK ==
    /\ up \subseteq Node /\ initialized \subseteq Node
    /\ term \in [Node -> 0 .. MaxTerm]
    /\ log \in [Node -> Seq(Entry)]
    /\ leader \in [Node -> Node \cup {Nobody}]
    /\ acked \in [Node -> [Node -> Nat]]
    /\ \A n, m \in Node : acked[n][m] <= Len(log[n])
    /\ applied \in [Node -> Nat]
    /\ \A n \in Node : applied[n] <= Len(log[n])
    /\ call \in [Call -> [pc : InHandler \cup Ended \cup {"idle", "unreachable"},
                          from : Nat, shown : Nat, term : 0 .. MaxTerm, index : Nat]]
    /\ \A c \in Call : call[c].from <= Len(committed) /\ call[c].shown <= Len(committed)
    /\ committed \in Seq(Entry)
    /\ crashes \in 0 .. MaxCrashes

Init ==
    /\ up = Node /\ initialized = {}
    /\ term = [n \in Node |-> 0]
    /\ log = [n \in Node |-> <<>>]
    /\ applied = [n \in Node |-> 0]
    /\ leader = [n \in Node |-> Nobody]
    /\ acked = [n \in Node |-> [m \in Node |-> 0]]
    /\ call = [c \in Call |-> NotCalled]
    /\ committed = <<>>
    /\ crashes = 0

Leads(n) == n \in up /\ leader[n] = n

------------------------------------------------------------------------------
(* Start-up, the transport and Raft.                                           *)

\* a node that nothing has reached yet takes the member set of RAFT_PEERS
Initialize(n) ==
    /\ n \in up \ initialized
    /\ Len(log[n]) = 0 /\ term[n] = 0
    /\ initialized' = initialized \cup {n}
    /\ UNCHANGED <<up, term, log, applied, leader, acked, call, committed, crashes>>

\* the router reaches every member but the node itself
Peer(n, m) == n # m /\ {n, m} \subseteq up

NoAcks == [m \in Node |-> 0]
LastTerm(l) == IF Len(l) = 0 THEN 0 ELSE l[Len(l)].term
UpToDate(l, k) ==
    LastTerm(l) > LastTerm(k) \/ (LastTerm(l) = LastTerm(k) /\ Len(l) >= Len(k))

\* external: a candidate asks for votes; the transport may lose an answer, so the
\* candidate may not learn that a majority voted for it
Campaign(n, voters, won) ==
    LET t == term[n] + 1
    IN  /\ n \in up \cap initialized \cap Candidate
        /\ t <= MaxTerm
        /\ \A m \in voters : Peer(n, m) /\ term[m] < t /\ UpToDate(log[n], log[m])
        /\ won => voters \cup {n} \in Majority
        /\ term' = [m \in Node |-> IF m \in voters \cup {n} THEN t ELSE term[m]]
        /\ leader' = [m \in Node |-> IF m = n THEN (IF won THEN n ELSE Nobody)
                                     ELSE IF m \in voters THEN Nobody ELSE leader[m]]
        /\ log' = IF won THEN [log EXCEPT ![n] = Append(@, [op |-> Blank, term |-> t])] ELSE log
        /\ acked' = [m \in Node |-> IF m = n /\ won THEN [NoAcks EXCEPT ![n] = Len(log[n]) + 1]
                                    ELSE IF m \in voters \cup {n} THEN NoAcks ELSE acked[m]]
        /\ UNCHANGED <<up, initialized, applied, call, committed, crashes>>

\* How the router's call to a peer ends: answered, or with an error before or after
\* the peer did what it was asked.
Outcome == {"ok", "lost", "unheard"}
\* mutant: a call that ran out of time counts as answered
AlwaysAnswered(o) == TRUE
Answered(o) == o = "ok"

\* append_entries of the router at n and of the gRPC server at m, with all that n has
AppendEntries(n, m, o) ==
    /\ Leads(n) /\ Peer(n, m) /\ term[m] <= term[n]
    /\ IF o = "lost" THEN UNCHANGED <<term, leader, log, applied, initialized>>
       ELSE /\ term' = [term EXCEPT ![m] = term[n]]
            /\ leader' = [leader EXCEPT ![m] = n]
            /\ log' = [log EXCEPT ![m] = log[n]]
            /\ applied' = [applied EXCEPT ![m] = IF applied[n] > @ THEN applied[n] ELSE @]
            /\ initialized' = initialized \cup {m}
    /\ acked' = [acked EXCEPT ![n][m] = IF Answered(o) THEN Len(log[n]) ELSE @,
                              ![m] = IF o = "lost" THEN @ ELSE NoAcks]
    /\ UNCHANGED <<up, call, committed, crashes>>

\* the answer of a node that is further: the leader steps down
StepDown(n, m) ==
    /\ Leads(n) /\ Peer(n, m) /\ term[m] > term[n]
    /\ term' = [term EXCEPT ![n] = term[m]]
    /\ leader' = [leader EXCEPT ![n] = Nobody]
    /\ acked' = [acked EXCEPT ![n] = NoAcks]
    /\ UNCHANGED <<up, initialized, log, applied, call, committed, crashes>>

\* external: the next entry is committed with one of the leader's own term, and
\* handed to the storage
Commit(n) ==
    LET k == applied[n] + 1
    IN  /\ Leads(n)
        /\ \E l \in k .. Len(log[n]), Q \in Majority :
              log[n][l].term = term[n] /\ \A m \in Q : acked[n][m] >= l
        /\ applied' = [applied EXCEPT ![n] = k]
        /\ committed' = IF k > Len(committed) THEN Append(committed, log[n][k]) ELSE committed
        /\ UNCHANGED <<up, initialized, term, log, leader, acked, call, crashes>>

------------------------------------------------------------------------------
(* The service.                                                                *)

Go(c, pc) == call' = [call EXCEPT ![c].pc = pc]
\* the handler returns; shown is what the answer shows, 0 if there is none
Ending(h, pc, shown) == [h EXCEPT !.pc = pc, !.shown = shown, !.term = 0, !.index = 0]
End(c, pc, shown) == call' = [call EXCEPT ![c] = Ending(@, pc, shown)]
At(c, pc) == call[c].pc = pc
Unreplicated == <<up, raftVars, crashes>>

Known == CHOOSE k \in {0} \cup {call[c].shown : c \in Call} : \A c \in Call : call[c].shown <= k

\* get_product_client: the one node the front end knows
Connect(c) ==
    /\ At(c, "idle")
    /\ call' = [call EXCEPT ![c].pc = IF Addr[c] \in up THEN "arrived" ELSE "unreachable", ![c].from = Known]
    /\ UNCHANGED Unreplicated

NotConnected(c) ==
    /\ At(c, "unreachable")
    /\ End(c, "error", 0)
    /\ UNCHANGED Unreplicated

\* mutant: a node that knows no leader has nobody to name and waits for one
LeaderElsewhere(n) == leader[n] \notin {n, Nobody}
NotLeader(n) == leader[n] # n

\* redirect_status: FAILED_PRECONDITION and the leader, if one is known; no front
\* end looks at it, each reports the error to its user
Redirect(c) ==
    /\ At(c, "arrived")
    /\ NotLeader(Addr[c])
    /\ End(c, "error", 0)
    /\ UNCHANGED Unreplicated

\* write: client_write at the leader appends the request
ClientWrite(c) ==
    LET n == Addr[c]
    IN  /\ At(c, "arrived")
        /\ c \in Write
        /\ Leads(n)
        /\ log' = [log EXCEPT ![n] = Append(@, [op |-> c, term |-> term[n]])]
        /\ acked' = [acked EXCEPT ![n][n] = Len(log[n]) + 1]
        /\ call' = [call EXCEPT ![c].pc = "writing", ![c].term = term[n], ![c].index = Len(log[n]) + 1]
        /\ UNCHANGED <<up, initialized, term, applied, leader, committed, crashes>>

Deposed(c) == ~ Leads(Addr[c]) \/ term[Addr[c]] # call[c].term

\* mutant: the answer is given when the entry is in the log
InLog(n, k) == TRUE
\* the answer is what applying the entry returns
IsApplied(n, k) == applied[n] >= k

AnswerWrite(c) ==
    /\ At(c, "writing")
    /\ ~ Deposed(c)
    /\ IsApplied(Addr[c], call[c].index)
    /\ End(c, "ok", call[c].index)
    /\ UNCHANGED Unreplicated

\* a leader that was deposed answers with an error; the entry may yet be committed
WriteFails(c) ==
    /\ At(c, "writing")
    /\ Deposed(c)
    /\ End(c, "error", 0)
    /\ UNCHANGED Unreplicated

\* external: client_read succeeds once a majority confirmed the leader, which has
\* committed in its term
Confirmed(n) ==
    /\ Leads(n)
    /\ {m \in up : term[m] <= term[n]} \in Majority
    /\ applied[n] > 0 /\ log[n][applied[n]].term = term[n]

\* mutant: any node answers from its own tables
AnyNode(n) == n \in up
\* ensure_leader_read
EnsureLeaderRead(n) == Confirmed(n)

CheckLeader(c) ==
    /\ At(c, "arrived")
    /\ c \notin Write
    /\ EnsureLeaderRead(Addr[c])
    /\ Go(c, "checked")
    /\ UNCHANGED Unreplicated

\* the query on the node's own tables, a step later; a node that does not lead any
\* more may be installing a snapshot and have no tables
ReadRows(c) ==
    /\ At(c, "checked")
    /\ \/ End(c, "ok", applied[Addr[c]])
       \/ NotLeader(Addr[c]) /\ End(c, "error", 0)
    /\ UNCHANGED Unreplicated

\* the answer does not reach the front end, or the library fails
Fails(c) ==
    /\ call[c].pc \in InHandler
    /\ End(c, "error", 0)
    /\ UNCHANGED Unreplicated

Crash(n) ==
    /\ n \in up \cap Mortal
    /\ crashes < MaxCrashes
    /\ crashes' = crashes + 1
    /\ up' = up \ {n}
    /\ leader' = [leader EXCEPT ![n] = Nobody]
    /\ acked' = [acked EXCEPT ![n] = NoAcks]
    /\ initialized' = IF Len(log[n]) = 0 THEN initialized \ {n} ELSE initialized
    /\ call' = [c \in Call |-> IF Addr[c] = n /\ call[c].pc \in InHandler
                               THEN Ending(call[c], "error", 0) ELSE call[c]]
    /\ UNCHANGED <<term, log, applied, committed>>

Restart(n) ==
    /\ n \notin up
    /\ up' = up \cup {n}
    /\ UNCHANGED <<raftVars, applied, call, crashes>>

Handle(c) == \/ NotConnected(c) \/ Redirect(c)
             \/ ClientWrite(c) \/ AnswerWrite(c) \/ WriteFails(c)
             \/ CheckLeader(c) \/ ReadRows(c)

Next ==
    \/ \E c \in Call : Connect(c) \/ Handle(c) \/ Fails(c)
    \/ \E n \in Node :
          \/ Initialize(n) \/ Commit(n) \/ Crash(n) \/ Restart(n)
          \/ \E voters \in SUBSET Node, won \in BOOLEAN : Campaign(n, voters, won)
          \/ \E m \in Node : \/ StepDown(n, m)
                             \/ \E o \in Outcome : AppendEntries(n, m, o)

Spec == Init /\ [][Next]_vars

\* a leader sends to its peers until they answer, and commits or steps down
Replicate == \E n \in Node :
    Commit(n) \/ \E m \in Node : StepDown(n, m) \/ AppendEntries(n, m, "ok")

\* a handler that can go on does, and so does replication as long as it gets
\* somewhere; nobody has to crash, restart or campaign
Fairness == WF_vars(Replicate) /\ \A c \in Call : WF_vars(Handle(c))

FairSpec == Spec /\ Fairness

------------------------------------------------------------------------------
(* Properties.                                                                 *)

\* A write that was answered is in the log of a majority, at the place where the
\* answer saw it, whichever nodes lead, crash or are not heard afterwards.
AcknowledgedKept ==
    \A c \in Write : At(c, "ok") =>
        {n \in Node : call[c].shown <= Len(log[n]) /\ log[n][call[c].shown].op = c} \in Majority

\* What the nodes have applied is the beginning of one sequence.
AppliedAgree ==
    \A n \in Node :
        /\ applied[n] <= Len(committed)
        /\ \A k \in 1 .. applied[n] : log[n][k] = committed[k]

\* The replicated database is one database to its callers, although each asks one
\* node, which may have been deposed or cut off, and reads in a second step.
StateOf(pc) == CASE pc \in InHandler \cup {"unreachable"} -> "running"
                 [] OTHER -> pc
PD == INSTANCE ProductDatabase WITH
        Internal <- Blank,
        order <- [k \in DOMAIN committed |-> committed[k].op],
        state <- [c \in Call |-> StateOf(call[c].pc)],
        from <- [c \in Call |-> call[c].from],
        shown <- [c \in Call |-> call[c].shown]
ImplementsProductDatabase == PD!Spec

\* No RPC waits for ever: not at a node without a leader, not at a leader that was
\* deposed while its entry was under way.
CallsEnd == \A c \in Call : (call[c].pc \in InHandler \cup {"unreachable"}) ~> (call[c].pc \in Ended)
==============================================================================
