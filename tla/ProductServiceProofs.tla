------------------------ MODULE ProductServiceProofs ------------------------
(***************************************************************************)
(* ProductService for any number of nodes, terms, calls and crashes: what  *)
(* the nodes apply is one sequence, a write that was answered is in it for *)
(* good, and to its callers the replicated database is the one database of *)
(* ProductDatabase.                                                        *)
(*                                                                         *)
(* A step of the service does one of five things to Raft's state           *)
(* (StepKinds): it wins an election, copies a log, appends a request,      *)
(* commits an entry, or at most makes nodes recede.  Each is proved to     *)
(* keep the invariant, the logs first, then what the leader takes for      *)
(* acknowledged, then what is committed.  The calls, in the second half,   *)
(* see of this only that terms and tables grow.                            *)
(***************************************************************************)
EXTENDS ProductService, TLAPS, FiniteSetTheorems, SequenceTheorems, WellFoundedInduction

------------------------------------------------------------------------------
(* The invariant of Raft.                                                      *)

RaftTypes ==
    /\ term \in [Node -> 0 .. MaxTerm]
    /\ log \in [Node -> Seq(Entry)]
    /\ leader \in [Node -> Node \cup {Nobody}]
    /\ acked \in [Node -> [Node -> Nat]]
    /\ applied \in [Node -> Nat]
    /\ committed \in Seq(Entry)

\* the first k entries of two logs are there and the same
Agree(L, K, k) == k <= Len(L) /\ k <= Len(K) /\ \A j \in 1 .. k : L[j] = K[j]
Sorted(L) == \A j, k \in 1 .. Len(L) : j <= k => L[j].term <= L[k].term

IsLeader(n) == leader[n] = n
\* a majority has heard of term t: nobody wins an election for it any more
Heard(t) == \E Q \in Majority : \A q \in Q : term[q] >= t

TermsHeard == \A n \in Node :
    /\ Sorted(log[n])
    /\ \A k \in 1 .. Len(log[n]) : log[n][k].term <= term[n] /\ Heard(log[n][k].term)

\* the leader of a term is alone, and has every entry of its term
Owns(n) ==
    /\ n \in up /\ Len(log[n]) > 0 /\ LastTerm(log[n]) = term[n]
    /\ \A m \in Node : \A k \in 1 .. Len(log[m]) :
          log[m][k].term = term[n] => k <= Len(log[n]) /\ log[n][k] = log[m][k]
    /\ \A m \in Node : IsLeader(m) /\ term[m] = term[n] => m = n
LeadersApart == \A n \in Node : IF IsLeader(n) THEN Owns(n) ELSE acked[n] = NoAcks

LogsMatch == \A n, m \in Node : \A k \in 1 .. Len(log[n]) :
    k <= Len(log[m]) /\ log[n][k].term = log[m][k].term => Agree(log[n], log[m], k)

\* what a node has acknowledged it still has, unless it heard a later leader since
Holds(n, q) ==
    /\ acked[n][q] <= Len(log[n])
    /\ acked[n][q] > 0 =>
          /\ term[q] >= term[n]
          /\ Agree(log[q], log[n], acked[n][q]) \/ LastTerm(log[q]) > term[n]
AcksHeld == \A n \in Node : IsLeader(n) => \A q \in Node : Holds(n, q)

\* what keeps n from ever committing up to l: a majority that will not answer it
Blocked(n, l) == \E Q \in Majority : \A q \in Q : acked[n][q] < l /\ term[q] > term[n]
LaterLogsHold == \A n \in Node : IsLeader(n) =>
    \A l \in 1 .. Len(log[n]) : log[n][l].term = term[n] =>
        \A p \in Node : LastTerm(log[p]) > term[n] => Agree(log[p], log[n], l) \/ Blocked(n, l)

\* a log reaches entry l of term t when no log without that entry can be further
Reaches(L, t, l) == LastTerm(L) > t \/ (LastTerm(L) = t /\ Len(L) >= l)
\* the first k entries are committed, by an entry l of term t at their end or behind it
Chosen(t, l, k) ==
    /\ k <= Len(committed) /\ committed[k].term <= t
    /\ \A p \in Node : Reaches(log[p], t, l) => Agree(log[p], committed, k)
    /\ \E Q \in Majority : \A q \in Q : Reaches(log[q], t, l) /\ term[q] >= t
    /\ \A n \in Node : IsLeader(n) /\ term[n] = t => Len(log[n]) >= l /\ applied[n] >= k
AppliedChosen ==
    /\ \A m \in Node : applied[m] > 0 =>
          \E t \in 1 .. term[m], l \in Nat : Chosen(t, l, applied[m])
    /\ committed # <<>> => \E m \in Node : applied[m] = Len(committed)

AppliedBounded == \A n \in Node : applied[n] <= Len(log[n])

RaftInv ==
    /\ RaftTypes /\ TermsHeard /\ LeadersApart /\ LogsMatch /\ AcksHeld /\ LaterLogsHold
    /\ AppliedChosen /\ AppliedBounded /\ AppliedAgree

------------------------------------------------------------------------------
(* Majorities, logs.                                                           *)

\* any two majorities have a node in common
LEMMA MajoritiesMeet ==
    ASSUME NEW P \in Majority, NEW Q \in Majority
    PROVE  \E q \in Node : q \in P /\ q \in Q
<1> SUFFICES ASSUME P \cap Q = {} PROVE FALSE
  BY DEF Majority
<1>1. P \subseteq Node /\ Q \subseteq Node /\ IsFiniteSet(P) /\ IsFiniteSet(Q)
  BY NodesAssumption, FS_Subset DEF Majority
<1>2. Cardinality(P \cup Q) = Cardinality(P) + Cardinality(Q)
  <2>1. Cardinality(P \cup Q) = Cardinality(P) + Cardinality(Q) - Cardinality(P \cap Q)
    BY <1>1, FS_Union
  <2>2. Cardinality(P \cap Q) = 0
    BY FS_EmptySet
  <2>3. Cardinality(P) \in Nat /\ Cardinality(Q) \in Nat
    BY <1>1, FS_CardinalityType
  <2> QED BY <2>1, <2>2, <2>3
<1>3. Cardinality(P \cup Q) <= Cardinality(Node)
  BY <1>1, NodesAssumption, FS_Subset
<1>4. Cardinality(P) \in Nat /\ Cardinality(Q) \in Nat /\ Cardinality(Node) \in Nat
  BY <1>1, NodesAssumption, FS_CardinalityType
<1> QED BY <1>2, <1>3, <1>4 DEF Majority

\* a set of nodes with a majority in it is one
LEMMA MajorityGrows ==
    ASSUME NEW Q \in Majority, NEW S \in SUBSET Node, Q \subseteq S
    PROVE  S \in Majority
<1>1. IsFiniteSet(S)
  BY NodesAssumption, FS_Subset
<1>2. Cardinality(Q) <= Cardinality(S)
  BY <1>1, FS_Subset
<1>3. Cardinality(Q) \in Nat /\ Cardinality(S) \in Nat /\ Cardinality(Node) \in Nat
  BY <1>1, NodesAssumption, FS_CardinalityType, FS_Subset
<1> QED BY <1>2, <1>3 DEF Majority

\* M is the log L and one more entry, of term t
Longer(M, L, t) ==
    /\ Len(L) \in Nat /\ Len(M) = Len(L) + 1 /\ LastTerm(M) = t
    /\ \A k \in 1 .. Len(L) : M[k] = L[k]
    /\ M[Len(L) + 1].term = t

LEMMA AppendedLog ==
    ASSUME NEW L \in Seq(Entry), NEW e \in Entry
    PROVE  /\ Append(L, e) \in Seq(Entry) /\ Longer(Append(L, e), L, e.term)
           /\ Append(L, e)[Len(L) + 1] = e
<1>1. Append(L, e) \in Seq(Entry) /\ Len(Append(L, e)) = Len(L) + 1 /\ Len(L) \in Nat
  OBVIOUS
<1>2. \A k \in 1 .. Len(L) : Append(L, e)[k] = L[k]
  OBVIOUS
<1>3. Append(L, e)[Len(L) + 1] = e
  OBVIOUS
<1> QED BY <1>1, <1>2, <1>3 DEF LastTerm, Longer

LEMMA LogType ==
    ASSUME RaftTypes, NEW n \in Node
    PROVE  /\ Len(log[n]) \in Nat /\ LastTerm(log[n]) \in Nat /\ term[n] \in Nat
           /\ Len(log[n]) > 0 => LastTerm(log[n]) = log[n][Len(log[n])].term
           /\ Len(log[n]) = 0 => LastTerm(log[n]) = 0
           /\ \A k \in 1 .. Len(log[n]) : log[n][k] \in Entry /\ log[n][k].term \in Nat
           /\ \A k \in 1 .. Len(log[n]) : log[n][k].term > 0
<1>1. \A x \in Entry : x.term \in Nat /\ x.term > 0
  BY DEF Entry
<1>2. log[n] \in Seq(Entry) /\ term[n] \in Nat
  BY ServiceAssumption DEF RaftTypes
<1>3. \A k \in 1 .. Len(log[n]) : log[n][k] \in Entry
  BY <1>2
<1>4. Len(log[n]) \in Nat
  BY <1>2
<1> QED BY <1>1, <1>2, <1>3, <1>4 DEF LastTerm

LEMMA AgreeLess ==
    ASSUME NEW L, NEW K, Len(L) \in Nat, Len(K) \in Nat, NEW k \in Int, NEW l \in Int, l <= k,
           Agree(L, K, k)
    PROVE  Agree(L, K, l)
BY DEF Agree

LEMMA AgreeSymmetric ==
    ASSUME NEW L, NEW K, NEW k \in Int, Agree(L, K, k)
    PROVE  Agree(K, L, k)
BY DEF Agree

LEMMA AgreeTransitive ==
    ASSUME NEW L, NEW K, NEW M, NEW k \in Int, Agree(L, K, k), Agree(K, M, k)
    PROVE  Agree(L, M, k)
BY DEF Agree

\* what agrees with a log agrees with the longer log it becomes
LEMMA AgreeGrown ==
    ASSUME NEW L, NEW K, NEW M, NEW k \in Int, Len(L) \in Nat, Len(K) \in Nat, Len(M) \in Nat,
           Agree(L, K, k), Len(L) <= Len(M), \A j \in 1 .. Len(L) : M[j] = L[j]
    PROVE  Agree(M, K, k)
BY DEF Agree

------------------------------------------------------------------------------
(* What a step does to Raft's state.                                           *)

raft == <<term, log, leader, acked, applied, committed>>

\* nodes hear of later terms and stop leading
Recedes ==
    /\ UNCHANGED <<log, applied, committed>>
    /\ term' \in [Node -> 0 .. MaxTerm] /\ leader' \in [Node -> Node \cup {Nobody}]
    /\ acked' \in [Node -> [Node -> Nat]]
    /\ \A m \in Node :
          /\ term'[m] >= term[m]
          /\ leader'[m] # m => acked'[m] = NoAcks
          /\ leader'[m] = m =>
                leader[m] = m /\ acked'[m] = acked[m] /\ term'[m] = term[m] /\ m \in up'

\* n becomes leader of t by the votes of Q, which it is in
Wins(n, Q, t) ==
    /\ n \in Q /\ Q \in Majority /\ t \in 1 .. MaxTerm /\ n \in up
    /\ \A m \in Q : term[m] < t /\ UpToDate(log[n], log[m])
    /\ term' = [m \in Node |-> IF m \in Q THEN t ELSE term[m]]
    /\ leader' = [m \in Node |-> IF m = n THEN n ELSE IF m \in Q THEN Nobody ELSE leader[m]]
    /\ log' = [log EXCEPT ![n] = Append(@, [op |-> Blank, term |-> t])]
    /\ acked' = [m \in Node |-> IF m = n THEN [NoAcks EXCEPT ![n] = Len(log[n]) + 1]
                                ELSE IF m \in Q THEN NoAcks ELSE acked[m]]
    /\ UNCHANGED <<up, applied, committed>>

\* m takes over the log of n, which hears of it if heard
Copies(n, m, heard) ==
    /\ IsLeader(n) /\ n # m /\ term[m] <= term[n] /\ n \in up
    /\ term' = [term EXCEPT ![m] = term[n]]
    /\ leader' = [leader EXCEPT ![m] = n]
    /\ log' = [log EXCEPT ![m] = log[n]]
    /\ applied' = [applied EXCEPT ![m] = IF applied[n] > @ THEN applied[n] ELSE @]
    /\ acked' = [x \in Node |-> IF x = m THEN NoAcks
                    ELSE IF x = n /\ heard THEN [acked[n] EXCEPT ![m] = Len(log[n])] ELSE acked[x]]
    /\ UNCHANGED <<up, committed>>

\* leader n appends an entry of its term
Grows(n, w) ==
    /\ IsLeader(n) /\ w \in Write
    /\ log' = [log EXCEPT ![n] = Append(@, [op |-> w, term |-> term[n]])]
    /\ acked' = [acked EXCEPT ![n][n] = Len(log[n]) + 1]
    /\ UNCHANGED <<up, term, leader, applied, committed>>

\* leader n commits its next entry
Commits(n) == IsLeader(n) /\ Commit(n)

\* steps of Raft alone
RaftStep ==
    \/ Recedes
    \/ \E n \in Node, Q \in SUBSET Node, t \in Nat : Wins(n, Q, t)
    \/ \E n, m \in Node, heard \in BOOLEAN : Copies(n, m, heard)
    \/ \E n \in Node : Commits(n)

CallStep(c) ==
    \/ Connect(c) \/ NotConnected(c) \/ Redirect(c) \/ AnswerWrite(c) \/ WriteFails(c)
    \/ CheckLeader(c) \/ ReadRows(c) \/ Fails(c)

LEMMA CallsLeaveRaft ==
    ASSUME NEW c \in Call, CallStep(c)
    PROVE  UNCHANGED <<up, raft, initialized, crashes>>
BY DEF CallStep, Connect, NotConnected, Redirect, AnswerWrite, WriteFails, CheckLeader, ReadRows, Fails,
       Unreplicated, raftVars, raft

LEMMA StayingRecedes ==
    ASSUME RaftTypes, LeadersApart, UNCHANGED raft, up \subseteq up'
    PROVE  Recedes
BY ServiceAssumption DEF RaftTypes, LeadersApart, raft, Recedes, IsLeader, Owns

LEMMA CampaignKind ==
    ASSUME RaftTypes, LeadersApart, NEW n \in Node, NEW voters \in SUBSET Node, NEW won \in BOOLEAN,
           Campaign(n, voters, won)
    PROVE  RaftStep
<1> DEFINE t == term[n] + 1  Q == voters \cup {n}
<1>1. t \in 1 .. MaxTerm /\ \A m \in Q : term[m] < t
  BY ServiceAssumption DEF Campaign, RaftTypes, Peer
<1>2. CASE won
  <2>1. UpToDate(log[n], log[n])
    BY DEF UpToDate, RaftTypes
  <2>2. \A m \in Q : UpToDate(log[n], log[m])
    BY <2>1 DEF Campaign
  <2>3. Wins(n, Q, t)
    BY <1>1, <1>2, <2>2 DEF Campaign, Wins
  <2> QED BY <1>1, <2>3 DEF RaftStep
<1>3. CASE ~ won
  <2>1. UNCHANGED <<log, applied, committed, up>>
    BY <1>3 DEF Campaign
  <2>2. term' = [m \in Node |-> IF m \in Q THEN t ELSE term[m]]
    BY DEF Campaign
  <2>3. leader' = [m \in Node |-> IF m = n THEN Nobody ELSE IF m \in voters THEN Nobody ELSE leader[m]]
    BY <1>3 DEF Campaign
  <2>4. acked' = [m \in Node |-> IF m \in Q THEN NoAcks ELSE acked[m]]
    BY <1>3 DEF Campaign
  <2>5. NoAcks \in [Node -> Nat]
    BY DEF NoAcks
  <2>6. Nobody \notin Node
    BY ServiceAssumption
  <2>7. acked' \in [Node -> [Node -> Nat]] /\ leader' \in [Node -> Node \cup {Nobody}]
    BY <2>3, <2>4, <2>5 DEF RaftTypes
  <2>8. term' \in [Node -> 0 .. MaxTerm]
    BY <1>1, <2>2 DEF RaftTypes
  <2>9. \A m \in Node : term'[m] >= term[m]
    BY <1>1, <2>2 DEF RaftTypes
  <2>10. \A m \in Node : leader'[m] = m => m \notin Q /\ leader[m] = m
    BY <2>3, <2>6
  <2>11. \A m \in Node : leader'[m] # m => acked'[m] = NoAcks
    BY <2>3, <2>4 DEF LeadersApart, IsLeader
  <2>12. \A m \in Node : leader[m] = m => m \in up
    BY DEF LeadersApart, IsLeader, Owns
  <2>13. Recedes
    BY <2>1, <2>2, <2>4, <2>7, <2>8, <2>9, <2>10, <2>11, <2>12 DEF Recedes
  <2> QED BY <2>13 DEF RaftStep
<1> QED BY <1>2, <1>3

LEMMA AppendKind ==
    ASSUME RaftTypes, LeadersApart, NEW n \in Node, NEW m \in Node, NEW o \in Outcome,
           AppendEntries(n, m, o)
    PROVE  RaftStep
<1>1. IsLeader(n) /\ n # m /\ term[m] <= term[n] /\ n \in up
  BY DEF AppendEntries, Leads, IsLeader, Peer
<1>2. CASE o = "lost"
  <2>1. acked' = acked
    BY <1>1, <1>2 DEF AppendEntries, Answered, RaftTypes
  <2>2. UNCHANGED raft /\ up' = up
    BY <1>2, <2>1 DEF AppendEntries, raft
  <2> QED BY <2>2, StayingRecedes DEF RaftStep
<1>3. CASE o # "lost"
  <2> DEFINE heard == o = "ok"
  <2>1. acked' = [x \in Node |-> IF x = m THEN NoAcks
                  ELSE IF x = n /\ heard THEN [acked[n] EXCEPT ![m] = Len(log[n])] ELSE acked[x]]
    <3>1. acked' = [acked EXCEPT ![n][m] = IF heard THEN Len(log[n]) ELSE @, ![m] = NoAcks]
      BY <1>3 DEF AppendEntries, Answered
    <3> QED BY <1>1, <3>1 DEF RaftTypes
  <2>2. Copies(n, m, heard)
    BY <1>1, <1>3, <2>1 DEF AppendEntries, Copies
  <2> QED BY <2>2 DEF RaftStep
<1> QED BY <1>2, <1>3

LEMMA CrashKind ==
    ASSUME RaftTypes, LeadersApart, NEW n \in Node, Crash(n)
    PROVE  RaftStep
<1>1. Nobody \notin Node /\ NoAcks \in [Node -> Nat]
  BY ServiceAssumption DEF NoAcks
<1>2. UNCHANGED <<log, applied, committed, term>>
  BY DEF Crash
<1>3. leader' = [leader EXCEPT ![n] = Nobody] /\ acked' = [acked EXCEPT ![n] = NoAcks] /\ up' = up \ {n}
  BY DEF Crash
<1> QED BY <1>1, <1>2, <1>3 DEF RaftStep, Recedes, RaftTypes, LeadersApart, IsLeader, Owns

\* a step is one of Raft and leaves the calls alone, is a crash, or is one of a call
LEMMA StepKinds ==
    ASSUME RaftTypes, LeadersApart, [Next]_vars
    PROVE  \/ RaftStep /\ call' = call
           \/ RaftStep /\ \E n \in Node : Crash(n)
           \/ \E c \in Call : RaftStep /\ CallStep(c)
           \/ \E c \in Write : Grows(Addr[c], c) /\ ClientWrite(c)
<1>1. CASE UNCHANGED vars
  BY <1>1, StayingRecedes DEF vars, raftVars, raft, RaftStep
<1>2. ASSUME NEW n \in Node, Initialize(n) \/ Restart(n) PROVE RaftStep /\ call' = call
  <2>1. UNCHANGED raft /\ up \subseteq up' /\ call' = call
    BY <1>2 DEF Initialize, Restart, raftVars, raft
  <2> QED BY <2>1, StayingRecedes DEF RaftStep
<1>3. ASSUME NEW n \in Node, Commit(n) PROVE RaftStep
  BY <1>3 DEF Commit, Leads, IsLeader, Commits, RaftStep
<1>4. ASSUME NEW n \in Node, Crash(n) PROVE RaftStep
  BY <1>4, CrashKind
<1>5. ASSUME NEW n \in Node, NEW m \in Node, StepDown(n, m) PROVE RaftStep
  <2>1. Nobody \notin Node /\ NoAcks \in [Node -> Nat]
    BY ServiceAssumption DEF NoAcks
  <2>2. UNCHANGED <<log, applied, committed, up>>
    BY <1>5 DEF StepDown
  <2>3. /\ leader' = [leader EXCEPT ![n] = Nobody] /\ acked' = [acked EXCEPT ![n] = NoAcks]
        /\ term' = [term EXCEPT ![n] = term[m]] /\ term[m] > term[n]
    BY <1>5 DEF StepDown
  <2>4. term' \in [Node -> 0 .. MaxTerm] /\ \A x \in Node : term'[x] >= term[x]
    <3>1. term \in [Node -> 0 .. MaxTerm] /\ MaxTerm \in Nat
      BY ServiceAssumption DEF RaftTypes
    <3>2. term[m] \in 0 .. MaxTerm /\ term[n] \in 0 .. MaxTerm
      BY <3>1
    <3>3. \A x \in Node : term'[x] = IF x = n THEN term[m] ELSE term[x]
      BY <2>3, <3>1
    <3>4. term' \in [Node -> 0 .. MaxTerm]
      BY <2>3, <3>1, <3>2
    <3> QED BY <2>3, <3>1, <3>2, <3>3, <3>4
  <2>5. leader' \in [Node -> Node \cup {Nobody}] /\ acked' \in [Node -> [Node -> Nat]]
    BY <2>1, <2>3 DEF RaftTypes
  <2>6. \A x \in Node : leader'[x] # x => acked'[x] = NoAcks
    BY <2>3 DEF RaftTypes, LeadersApart, IsLeader
  <2>7. \A x \in Node : leader'[x] = x =>
            leader[x] = x /\ acked'[x] = acked[x] /\ term'[x] = term[x] /\ x \in up'
    BY <2>1, <2>2, <2>3 DEF RaftTypes, LeadersApart, IsLeader, Owns
  <2> QED BY <2>2, <2>4, <2>5, <2>6, <2>7 DEF Recedes, RaftStep
<1>6. ASSUME NEW c \in Call, Connect(c) \/ Handle(c) \/ Fails(c), ~ ClientWrite(c) PROVE RaftStep /\ CallStep(c)
  <2>1. CallStep(c)
    BY <1>6 DEF Handle, CallStep
  <2> QED BY <2>1, CallsLeaveRaft, StayingRecedes DEF RaftStep
<1>7. ASSUME NEW c \in Call, ClientWrite(c) PROVE c \in Write /\ Grows(Addr[c], c)
  BY <1>7, ServiceAssumption DEF ClientWrite, Grows, Leads, IsLeader
<1>8. ASSUME NEW n \in Node, NEW voters \in SUBSET Node, NEW won \in BOOLEAN, Campaign(n, voters, won)
      PROVE  RaftStep /\ call' = call
  BY <1>8, CampaignKind DEF Campaign
<1>9. ASSUME NEW n \in Node, NEW m \in Node, NEW o \in Outcome, AppendEntries(n, m, o)
      PROVE  RaftStep /\ call' = call
  BY <1>9, AppendKind DEF AppendEntries
<1>10. ASSUME NEW n \in Node, Commit(n) \/ \E m \in Node : StepDown(n, m) PROVE call' = call
  BY <1>10 DEF Commit, StepDown
<1>11. CASE \E c \in Call : Connect(c) \/ Handle(c) \/ Fails(c)
  BY <1>6, <1>7, <1>11
<1>12. CASE \E n \in Node :
              \/ Initialize(n) \/ Commit(n) \/ Crash(n) \/ Restart(n)
              \/ \E voters \in SUBSET Node, won \in BOOLEAN : Campaign(n, voters, won)
              \/ \E m \in Node : StepDown(n, m) \/ \E o \in Outcome : AppendEntries(n, m, o)
  BY <1>2, <1>3, <1>4, <1>5, <1>8, <1>9, <1>10, <1>12
<1> QED BY <1>1, <1>11, <1>12 DEF Next

------------------------------------------------------------------------------
(* An election.                                                                *)

LEMMA HeardStays ==
    ASSUME RaftTypes, RaftTypes', \A m \in Node : term'[m] >= term[m], NEW t \in Nat, Heard(t)
    PROVE  Heard(t)'
<1>1. PICK Q \in Majority : \A q \in Q : term[q] >= t
  BY DEF Heard
<1>2. \A q \in Q : q \in Node /\ term[q] \in Int /\ term'[q] \in Int
  BY ServiceAssumption DEF Majority, RaftTypes
<1>3. \A q \in Q : term'[q] >= t
  BY <1>1, <1>2
<1> QED BY <1>3 DEF Heard, Majority

LEMMA BlockedStays ==
    ASSUME RaftTypes, RaftTypes', \A m \in Node : term'[m] >= term[m],
           NEW n \in Node, NEW l \in Int, Blocked(n, l), term'[n] = term[n],
           \A q \in Node : acked'[n][q] = acked[n][q] \/ term[q] <= term[n]
    PROVE  Blocked(n, l)'
<1>1. PICK Q \in Majority : \A q \in Q : acked[n][q] < l /\ term[q] > term[n]
  BY DEF Blocked
<1>2. \A q \in Q : q \in Node /\ term[q] \in Int /\ term'[q] \in Int /\ term[n] \in Int
  BY ServiceAssumption DEF Majority, RaftTypes
<1>3. \A q \in Q : acked'[n][q] < l /\ term'[q] > term'[n]
  BY <1>1, <1>2
<1> QED BY <1>3 DEF Blocked, Majority

LEMMA WinsEffect ==
    ASSUME RaftTypes, LeadersApart, NEW n \in Node, NEW Q \in SUBSET Node, NEW t \in Nat, Wins(n, Q, t)
    PROVE  /\ RaftTypes'
           /\ \A x \in Node : term'[x] >= term[x] /\ term'[x] = IF x \in Q THEN t ELSE term[x]
           /\ \A x \in Node : x # n => log'[x] = log[x]
           /\ Longer(log'[n], log[n], t)
           /\ \A x \in Node : IsLeader(x)' <=> (x = n \/ (x \notin Q /\ IsLeader(x)))
           /\ acked'[n] = [NoAcks EXCEPT ![n] = Len(log[n]) + 1]
           /\ \A x \in Node : x # n => acked'[x] = IF x \in Q THEN NoAcks ELSE acked[x]
<1>1. [op |-> Blank, term |-> t] \in Entry
  BY DEF Wins, Entry
<1>2. log' \in [Node -> Seq(Entry)] /\ log'[n] = Append(log[n], [op |-> Blank, term |-> t])
  BY <1>1 DEF Wins, RaftTypes
<1>3. \A x \in Node : x # n => log'[x] = log[x]
  BY DEF Wins, RaftTypes
<1>4. \A x \in Node : term'[x] = IF x \in Q THEN t ELSE term[x]
  BY DEF Wins
<1>5. \A x \in Node : term'[x] >= term[x]
  BY <1>4, LogType DEF Wins
<1>6. term' \in [Node -> 0 .. MaxTerm]
  BY ServiceAssumption DEF Wins, RaftTypes
<1>7. Nobody \notin Node
  BY ServiceAssumption
<1>8. \A x \in Node : IsLeader(x)' <=> (x = n \/ (x \notin Q /\ IsLeader(x)))
  BY <1>7 DEF Wins, IsLeader
<1>9. leader' \in [Node -> Node \cup {Nobody}]
  BY DEF Wins, RaftTypes
<1>10. acked'[n] = [NoAcks EXCEPT ![n] = Len(log[n]) + 1]
  BY DEF Wins
<1>11. \A x \in Node : x # n => acked'[x] = IF x \in Q THEN NoAcks ELSE acked[x]
  BY DEF Wins
<1>12. acked' \in [Node -> [Node -> Nat]]
  <2>1. NoAcks \in [Node -> Nat] /\ Len(log[n]) + 1 \in Nat
    BY LogType DEF NoAcks
  <2>2. [NoAcks EXCEPT ![n] = Len(log[n]) + 1] \in [Node -> Nat]
    BY <2>1
  <2>3. \A x \in Node : acked'[x] \in [Node -> Nat]
    BY <1>10, <1>11, <2>1, <2>2 DEF RaftTypes
  <2> QED BY <2>3 DEF Wins
<1>13. RaftTypes'
  BY <1>2, <1>6, <1>9, <1>12 DEF RaftTypes, Wins
<1>14. Longer(log'[n], log[n], t)
  <2> DEFINE e == [op |-> Blank, term |-> t]
  <2>1. log[n] \in Seq(Entry) /\ e.term = t
    BY DEF RaftTypes
  <2>2. log'[n] = Append(log[n], e) /\ e \in Entry
    BY <1>1, <1>2
  <2> HIDE DEF e
  <2> QED BY <2>1, <2>2, AppendedLog
<1> QED BY <1>3, <1>4, <1>5, <1>8, <1>10, <1>11, <1>13, <1>14

\* the term of an election that is won is new
LEMMA NewTerm ==
    ASSUME RaftTypes, TermsHeard, LeadersApart,
           NEW n \in Node, NEW Q \in SUBSET Node, NEW t \in Nat, Wins(n, Q, t)
    PROVE  /\ \A s \in Nat : Heard(s) => s < t
           /\ \A m \in Node : LastTerm(log[m]) < t /\ \A k \in 1 .. Len(log[m]) : log[m][k].term < t
           /\ \A m \in Node : IsLeader(m) => term[m] < t
<1>1. ASSUME NEW s \in Nat, Heard(s) PROVE s < t
  <2>1. PICK P \in Majority : \A q \in P : term[q] >= s
    BY <1>1 DEF Heard
  <2>2. PICK q \in Node : q \in P /\ q \in Q
    BY <2>1, MajoritiesMeet DEF Wins
  <2>3. term[q] >= s /\ term[q] < t /\ term[q] \in Nat
    BY <2>1, <2>2, LogType DEF Wins
  <2> QED BY <2>3
<1>2. ASSUME NEW m \in Node PROVE LastTerm(log[m]) < t /\ \A k \in 1 .. Len(log[m]) : log[m][k].term < t
  <2>1. \A k \in 1 .. Len(log[m]) : log[m][k].term < t
    BY <1>1, LogType DEF TermsHeard
  <2>2. t > 0
    BY DEF Wins
  <2> QED BY <2>1, <2>2, LogType
<1>3. \A m \in Node : IsLeader(m) => term[m] < t
  BY <1>2 DEF LeadersApart, Owns
<1> QED BY <1>1, <1>2, <1>3

LEMMA WinsLogs ==
    ASSUME RaftTypes, TermsHeard, LeadersApart, LogsMatch,
           NEW n \in Node, NEW Q \in SUBSET Node, NEW t \in Nat, Wins(n, Q, t)
    PROVE  TermsHeard' /\ LeadersApart' /\ LogsMatch'
<1> DEFINE N == Len(log[n])
<1>1. /\ Len(log'[n]) = N + 1 /\ N \in Nat /\ LastTerm(log'[n]) = t
      /\ \A k \in 1 .. N : log'[n][k] = log[n][k]
      /\ log'[n][N + 1].term = t
  <2>1. Longer(log'[n], log[n], t)
    BY WinsEffect
  <2> QED BY <2>1 DEF Longer
<1>2. \A x \in Node : x # n => log'[x] = log[x]
  BY WinsEffect
<1>t. \A x \in Node : /\ term'[x] >= term[x] /\ term'[x] = IF x \in Q THEN t ELSE term[x]
                      /\ term[x] \in Nat /\ term'[x] \in Nat /\ Len(log[x]) \in Nat /\ n \in Q
  <2>1. n \in Q
    BY DEF Wins
  <2>2. \A x \in Node : term'[x] >= term[x] /\ term'[x] = IF x \in Q THEN t ELSE term[x]
    BY WinsEffect
  <2>3. \A x \in Node : term[x] \in Nat /\ Len(log[x]) \in Nat
    BY LogType
  <2> QED BY <2>1, <2>2, <2>3
<1>l. /\ \A x \in Node : IsLeader(x)' <=> (x = n \/ (x \notin Q /\ IsLeader(x)))
      /\ \A x \in Node : IsLeader(x) => term[x] < t
  BY WinsEffect, NewTerm
<1>3. \A x \in Node : \A k \in 1 .. Len(log[x]) : log[x][k].term < t /\ log[x][k].term \in Nat
  BY NewTerm, LogType
<1>4. TermsHeard'
  <2> DEFINE HeardNow(s) == \E P \in Majority : \A q \in P : term'[q] >= s
  <2>1. HeardNow(t)
    BY <1>t DEF Wins, Majority
  <2>2. \A s \in Nat : Heard(s) => HeardNow(s)
    BY HeardStays, WinsEffect DEF Heard
  <2> HIDE DEF HeardNow
  <2> SUFFICES ASSUME NEW x \in Node
               PROVE  /\ Sorted(log'[x])
                      /\ \A k \in 1 .. Len(log'[x]) : log'[x][k].term <= term'[x] /\ HeardNow(log'[x][k].term)
    BY DEF TermsHeard, Heard, HeardNow
  <2>4. /\ Sorted(log[x])
        /\ \A k \in 1 .. Len(log[x]) : log[x][k].term <= term[x] /\ Heard(log[x][k].term)
    BY DEF TermsHeard
  <2>5. \A k \in 1 .. Len(log[x]) : log[x][k].term <= term'[x] /\ HeardNow(log[x][k].term)
    BY <1>3, <1>t, <2>2, <2>4
  <2>6. CASE x # n
    BY <1>2, <2>4, <2>5, <2>6
  <2>7. CASE x = n
    <3>1. Sorted(log'[n])
      <4>1. \A j \in 1 .. N + 1 :
               \/ j \in 1 .. N /\ log'[n][j].term = log[n][j].term /\ log[n][j].term < t /\ log[n][j].term \in Nat
               \/ j = N + 1 /\ log'[n][j].term = t
        BY <1>1, <1>3
      <4>2. \A j, k \in 1 .. N : j <= k => log[n][j].term <= log[n][k].term
        BY <2>4, <2>7 DEF Sorted
      <4>3. \A j, k \in 1 .. N + 1 : j <= k => log'[n][j].term <= log'[n][k].term
        <5> SUFFICES ASSUME NEW j \in 1 .. N + 1, NEW k \in 1 .. N + 1, j <= k
                     PROVE  log'[n][j].term <= log'[n][k].term
          OBVIOUS
        <5>1. CASE k \in 1 .. N
          BY <1>1, <4>1, <4>2, <5>1, SMTT(30)
        <5>2. CASE k = N + 1
          <6>1. log'[n][k].term = t /\ N \in Nat
            BY <1>1, <4>1, <5>2
          <6>2. log'[n][j].term = t \/ (log'[n][j].term < t /\ log'[n][j].term \in Nat)
            BY <4>1
          <6>3. t \in Nat
            OBVIOUS
          <6> QED BY <6>1, <6>2, <6>3
        <5> QED BY <1>1, <5>1, <5>2
      <4> QED BY <1>1, <4>3 DEF Sorted
    <3>2. \A k \in 1 .. N + 1 : log'[n][k].term <= term'[n] /\ HeardNow(log'[n][k].term)
      BY <1>1, <1>t, <2>1, <2>5, <2>7 DEF Wins
    <3> QED BY <1>1, <2>7, <3>1, <3>2
  <2> QED BY <2>6, <2>7
<1>5. LeadersApart'
  <2>1. ASSUME NEW x \in Node, ~ IsLeader(x)' PROVE acked'[x] = NoAcks
    BY <2>1, WinsEffect DEF LeadersApart
  <2>2. Owns(n)'
    <3>1. n \in up' /\ Len(log'[n]) > 0 /\ LastTerm(log'[n]) = term'[n] /\ term'[n] = t
      BY <1>1, WinsEffect DEF Wins
    <3>2. ASSUME NEW m \in Node, NEW k \in 1 .. Len(log'[m]), log'[m][k].term = t PROVE m = n /\ k = N + 1
      BY <1>1, <1>2, <1>3, <3>2
    <3>3. \A m \in Node : IsLeader(m)' /\ term'[m] = t => m = n
      BY <1>l, <1>t
    <3> QED BY <1>1, <3>1, <3>2, <3>3 DEF Owns
  <2>3. ASSUME NEW x \in Node, x # n, IsLeader(x)' PROVE Owns(x)'
    <3>1. Owns(x) /\ x \notin Q /\ term'[x] = term[x] /\ term[x] < t /\ log'[x] = log[x] /\ x \in up'
      BY <2>3, <1>2, <1>l, <1>t DEF LeadersApart, Wins, Owns
    <3>2. ASSUME NEW m \in Node, NEW k \in 1 .. Len(log'[m]), log'[m][k].term = term[x]
          PROVE  k <= Len(log[x]) /\ log[x][k] = log'[m][k]
      <4>1. k \in 1 .. Len(log[m]) /\ log'[m][k] = log[m][k]
        BY <1>1, <1>2, <1>t, <3>1, <3>2, SMTT(30)
      <4> QED BY <3>1, <3>2, <4>1 DEF Owns
    <3>3. \A m \in Node : IsLeader(m)' /\ term'[m] = term[x] => m = x
      BY <1>l, <1>t, <3>1 DEF Owns
    <3> QED BY <3>1, <3>2, <3>3 DEF Owns
  <2> QED BY <2>1, <2>2, <2>3 DEF LeadersApart
<1>6. LogsMatch'
  <2> SUFFICES ASSUME NEW x \in Node, NEW m \in Node, NEW k \in 1 .. Len(log'[x]),
                      k <= Len(log'[m]), log'[x][k].term = log'[m][k].term
               PROVE  Agree(log'[x], log'[m], k)
    BY DEF LogsMatch
  <2>1. \A y \in Node : \A j \in 1 .. Len(log[y]) : log'[y][j] = log[y][j]
    BY <1>1, <1>2
  <2>2. \A y \in Node : Len(log[y]) <= Len(log'[y]) /\ Len(log[y]) \in Nat /\ Len(log'[y]) \in Nat
    BY <1>1, <1>2, <1>t
  <2>3. CASE k <= Len(log[x]) /\ k <= Len(log[m])
    <3>1. Agree(log[x], log[m], k)
      <4>1. k \in 1 .. Len(log[x]) /\ k \in 1 .. Len(log[m])
        BY <2>2, <2>3
      <4>2. log[x][k].term = log[m][k].term
        BY <2>1, <4>1
      <4> QED BY <2>3, <4>1, <4>2 DEF LogsMatch
    <3> QED BY <2>1, <2>2, <3>1, SMTT(30) DEF Agree
  <2>4. CASE ~ (k <= Len(log[x]) /\ k <= Len(log[m]))
    <3>1. x = n /\ m = n
      <4>1. \A y \in Node : k <= Len(log'[y]) =>
               \/ k \in 1 .. Len(log[y]) /\ log'[y][k].term = log[y][k].term /\ log[y][k].term < t
               \/ y = n /\ log'[y][k].term = t
        BY <1>1, <1>2, <1>3, <1>t, SMTT(30)
      <4>2. log'[x][k].term = log'[m][k].term /\ k <= Len(log'[x]) /\ k <= Len(log'[m])
        BY <2>2
      <4>3. k \in 1 .. Len(log[x]) => log[x][k].term \in Nat /\ log[x][k].term < t
        BY <1>3
      <4>4. k \in 1 .. Len(log[m]) => log[m][k].term \in Nat /\ log[m][k].term < t
        BY <1>3
      <4>5. ~ (k \in 1 .. Len(log[x]) /\ k \in 1 .. Len(log[m]))
        BY <2>4
      <4> QED BY <4>1, <4>2, <4>3, <4>4, <4>5, SMTT(30)
    <3> QED BY <3>1, LogType, <2>2 DEF Agree
  <2> QED BY <2>3, <2>4
<1> QED BY <1>4, <1>5, <1>6

LEMMA WinsAcks ==
    ASSUME RaftTypes, TermsHeard, LeadersApart, LogsMatch, AcksHeld, LaterLogsHold,
           NEW n \in Node, NEW Q \in SUBSET Node, NEW t \in Nat, Wins(n, Q, t)
    PROVE  AcksHeld' /\ LaterLogsHold'
<1> DEFINE N == Len(log[n])
<1>1. /\ Len(log'[n]) = N + 1 /\ N \in Nat /\ LastTerm(log'[n]) = t
      /\ \A k \in 1 .. N : log'[n][k] = log[n][k]
  <2>1. Longer(log'[n], log[n], t)
    BY WinsEffect
  <2> QED BY <2>1 DEF Longer
<1>2. \A x \in Node : x # n => log'[x] = log[x]
  BY WinsEffect
<1>3. n \in Q /\ \A x \in Node : term'[x] >= term[x] /\ term'[x] = IF x \in Q THEN t ELSE term[x]
  BY WinsEffect DEF Wins
<1>4. \A x \in Node : term[x] \in Nat /\ LastTerm(log[x]) \in Nat /\ Len(log[x]) \in Nat
  BY LogType
<1>5. /\ \A x \in Node : IsLeader(x)' <=> (x = n \/ (x \notin Q /\ IsLeader(x)))
      /\ \A x \in Node : IsLeader(x) => term[x] < t
  BY WinsEffect, NewTerm
<1>6. \A x \in Node : LastTerm(log[x]) < t /\ \A k \in 1 .. Len(log[x]) : log[x][k].term < t /\ log[x][k].term \in Nat
  BY NewTerm, LogType
<1>7. acked'[n] = [NoAcks EXCEPT ![n] = N + 1] /\ \A x \in Node : x # n /\ x \notin Q => acked'[x] = acked[x]
  BY WinsEffect
<1>8. \A x, y \in Node : acked[x][y] \in Nat
  BY DEF RaftTypes
<1>9. ASSUME NEW x \in Node, x # n, IsLeader(x)'
      PROVE  /\ IsLeader(x) /\ term'[x] = term[x] /\ log'[x] = log[x] /\ acked'[x] = acked[x]
             /\ term[x] < t /\ LastTerm(log[x]) = term[x] /\ term[x] > 0 /\ Owns(x)
  BY <1>2, <1>3, <1>5, <1>7, <1>9, LogType DEF LeadersApart, Owns
<1>10. AcksHeld'
  <2>1. ASSUME NEW q \in Node PROVE Holds(n, q)'
    <3>1. CASE q = n
      <4>1. acked'[n][n] = N + 1 /\ term'[n] >= term'[n]
        BY <1>3, <1>4, <1>7 DEF NoAcks
      <4>2. Agree(log'[n], log'[n], N + 1)
        BY <1>1 DEF Agree
      <4> QED BY <1>1, <3>1, <4>1, <4>2 DEF Holds
    <3>2. CASE q # n
      <4>1. acked'[n][q] = 0
        BY <1>7, <3>2 DEF NoAcks
      <4> QED BY <1>1, <4>1 DEF Holds
    <3> QED BY <3>1, <3>2
  <2>2. ASSUME NEW x \in Node, x # n, IsLeader(x)', NEW q \in Node PROVE Holds(x, q)'
    <3>1. Holds(x, q) /\ term'[q] >= term[q] /\ term'[q] \in Nat
      BY <1>3, <1>4, <1>9, <2>2 DEF AcksHeld
    <3>2. CASE q = n
      BY <1>1, <1>3, <1>4, <1>9, <2>2, <3>1, <3>2 DEF Holds
    <3>3. CASE q # n
      BY <1>2, <1>4, <1>9, <2>2, <3>1, <3>3 DEF Holds
    <3> QED BY <3>2, <3>3
  <2> QED BY <2>1, <2>2 DEF AcksHeld
<1>11. LaterLogsHold'
  <2>1. \A p \in Node : ~ (LastTerm(log'[p]) > term'[n])
    BY <1>1, <1>2, <1>3, <1>4, <1>6
  <2>2. ASSUME NEW x \in Node, x # n, IsLeader(x)', NEW l \in 1 .. Len(log'[x]),
               log'[x][l].term = term'[x], NEW p \in Node, LastTerm(log'[p]) > term'[x]
        PROVE  Agree(log'[p], log'[x], l) \/ Blocked(x, l)'
    <3>1. l \in 1 .. Len(log[x]) /\ log[x][l].term = term[x]
      BY <1>9, <2>2
    \* what holds of n's log before holds of it after
    <3>2. Agree(log[p], log[x], l) => Agree(log'[p], log'[x], l)
      <4>1. Len(log[p]) <= Len(log'[p]) /\ Len(log'[p]) \in Nat /\ \A j \in 1 .. Len(log[p]) : log'[p][j] = log[p][j]
        BY <1>1, <1>2, <1>4, SMTT(30)
      <4>2. log'[x] = log[x] /\ l \in Int
        BY <1>9, <2>2, <3>1
      <4> QED BY <1>4, <4>1, <4>2, AgreeGrown
    <3>3. Blocked(x, l) => Blocked(x, l)'
      <4>1. RaftTypes'
        BY WinsEffect
      <4>2. l \in Int
        BY <3>1
      <4> QED BY <1>3, <1>9, <2>2, <4>1, <4>2, BlockedStays
    <3>4. LastTerm(log[p]) > term[x] => Agree(log[p], log[x], l) \/ Blocked(x, l)
      BY <1>9, <2>2, <3>1 DEF LaterLogsHold
    <3>5. CASE p # n \/ LastTerm(log[p]) > term[x]
      BY <1>2, <1>9, <2>2, <3>2, <3>3, <3>4, <3>5
    <3>6. CASE p = n /\ ~ (LastTerm(log[n]) > term[x])
      <4>1. CASE \A q \in Q : acked[x][q] < l
        <5>1. \A q \in Q : q \in Node /\ acked'[x][q] < l /\ term'[q] > term'[x]
          BY <1>3, <1>9, <2>2, <4>1
        <5> QED BY <5>1 DEF Blocked, Wins, Majority
      <4>2. ASSUME NEW q \in Q, ~ (acked[x][q] < l) PROVE Agree(log[n], log[x], l)
        <5>1. q \in Node /\ acked[x][q] >= l /\ acked[x][q] > 0 /\ l \in Nat
          BY <1>8, <3>1, <4>2
        <5>2. acked[x][q] <= Len(log[x]) /\ (Agree(log[q], log[x], acked[x][q]) \/ LastTerm(log[q]) > term[x])
          BY <1>9, <2>2, <5>1 DEF AcksHeld, Holds
        <5>3. UpToDate(log[n], log[q])
          BY DEF Wins
        <5>4. Agree(log[q], log[x], acked[x][q])
          BY <1>4, <3>6, <5>1, <5>2, <5>3 DEF UpToDate
        <5>5. l \in 1 .. Len(log[q]) /\ log[q][l] = log[x][l]
          BY <1>4, <1>8, <3>1, <5>1, <5>4 DEF Agree
        <5>6. LastTerm(log[q]) >= term[x]
          <6>1. Len(log[q]) \in 1 .. Len(log[q]) /\ l <= Len(log[q])
            BY <1>4, <5>1, <5>5
          <6>2. log[q][l].term <= log[q][Len(log[q])].term
            BY <5>1, <5>5, <6>1 DEF TermsHeard, Sorted
          <6>3. LastTerm(log[q]) = log[q][Len(log[q])].term
            BY <5>1, <6>1, LogType
          <6> QED BY <3>1, <5>5, <6>2, <6>3
        <5>7. LastTerm(log[n]) = term[x] /\ Len(log[n]) >= Len(log[q])
          BY <1>4, <3>6, <5>1, <5>3, <5>6 DEF UpToDate
        <5>8. N \in 1 .. N /\ log[n][N].term = term[x] /\ N >= l
          BY <1>4, <5>1, <5>5, <5>7, LogType, SMTT(30)
        <5>9. N <= Len(log[x]) /\ log[x][N] = log[n][N]
          BY <1>9, <2>2, <5>8 DEF Owns
        <5>10. Agree(log[n], log[x], N)
          BY <5>8, <5>9 DEF LogsMatch
        <5> QED BY <1>4, <2>2, <3>1, <5>8, <5>10, AgreeLess
      <4> QED BY <3>2, <3>6, <4>1, <4>2
    <3> QED BY <3>5, <3>6
  <2> QED BY <2>1, <2>2 DEF LaterLogsHold
<1> QED BY <1>10, <1>11

\* What is chosen stays chosen, if no log that comes to reach the entry is without it,
\* none that has it loses it, and no node comes to lead its term.
LEMMA ChosenStays ==
    ASSUME RaftTypes, RaftTypes', \A x \in Node : term'[x] >= term[x],
           Len(committed) <= Len(committed'), \A j \in 1 .. Len(committed) : committed'[j] = committed[j],
           NEW t \in Nat, NEW l \in Nat, NEW k \in Nat \ {0}, Chosen(t, l, k),
           \A p \in Node : Reaches(log'[p], t, l) => Agree(log'[p], committed, k),
           \A q \in Node : Reaches(log[q], t, l) /\ term[q] >= t => Reaches(log'[q], t, l),
           \A x \in Node : IsLeader(x)' /\ term'[x] = t =>
               /\ IsLeader(x) /\ term[x] = t
               /\ Len(log'[x]) >= Len(log[x]) /\ applied'[x] >= applied[x]
    PROVE  Chosen(t, l, k)'
<1>1. k \in 1 .. Len(committed) /\ Len(committed) \in Nat /\ Len(committed') \in Nat
  BY DEF Chosen, RaftTypes
<1>2. k <= Len(committed') /\ committed'[k].term <= t
  BY <1>1 DEF Chosen
<1>3. \A p \in Node : Reaches(log'[p], t, l) => Agree(log'[p], committed', k)
  BY <1>1, <1>2 DEF Agree
<1>4. \E Q \in Majority : \A q \in Q : Reaches(log'[q], t, l) /\ term'[q] >= t
  <2>1. PICK Q \in Majority : \A q \in Q : Reaches(log[q], t, l) /\ term[q] >= t
    BY DEF Chosen
  <2>2. \A q \in Q : q \in Node /\ term[q] \in Int /\ term'[q] \in Int
    BY ServiceAssumption DEF Majority, RaftTypes
  <2> QED BY <2>1, <2>2
<1>5. ASSUME NEW x \in Node, IsLeader(x)', term'[x] = t
      PROVE  Len(log'[x]) >= l /\ applied'[x] >= k
  <2>1. Len(log[x]) >= l /\ applied[x] >= k /\ Len(log'[x]) >= Len(log[x]) /\ applied'[x] >= applied[x]
    BY <1>5 DEF Chosen
  <2>2. Len(log[x]) \in Int /\ Len(log'[x]) \in Int /\ applied[x] \in Int /\ applied'[x] \in Int
    BY DEF RaftTypes
  <2> QED BY <2>1, <2>2
<1> QED BY <1>2, <1>3, <1>4, <1>5 DEF Chosen, Majority

LEMMA WinsApplied ==
    ASSUME RaftTypes, TermsHeard, LeadersApart, AppliedChosen, AppliedBounded, AppliedAgree,
           NEW n \in Node, NEW Q \in SUBSET Node, NEW t \in Nat, Wins(n, Q, t)
    PROVE  AppliedChosen' /\ AppliedBounded' /\ AppliedAgree'
<1> DEFINE N == Len(log[n])
<1>1. /\ Len(log'[n]) = N + 1 /\ N \in Nat /\ LastTerm(log'[n]) = t
      /\ \A k \in 1 .. N : log'[n][k] = log[n][k]
  <2>1. Longer(log'[n], log[n], t)
    BY WinsEffect
  <2> QED BY <2>1 DEF Longer
<1>2. \A x \in Node : x # n => log'[x] = log[x]
  BY WinsEffect
<1>3. /\ n \in Q /\ RaftTypes' /\ committed' = committed /\ applied' = applied
      /\ \A x \in Node : term'[x] >= term[x] /\ term'[x] = IF x \in Q THEN t ELSE term[x]
  BY WinsEffect DEF Wins
<1>4. \A x \in Node : /\ term[x] \in Nat /\ LastTerm(log[x]) \in Nat /\ Len(log[x]) \in Nat
                      /\ applied[x] \in Nat /\ applied[x] <= Len(log[x]) /\ term'[x] \in Nat
  BY <1>3, LogType, ServiceAssumption DEF RaftTypes, AppliedBounded
<1>5. \A x \in Node : IsLeader(x)' => x = n \/ (IsLeader(x) /\ term'[x] = term[x])
  BY <1>3, WinsEffect
<1>6. ASSUME NEW s \in Nat, NEW l \in Nat, NEW k \in Nat \ {0}, Chosen(s, l, k) PROVE Chosen(s, l, k)'
  <2>1. PICK P \in Majority : \A q \in P : Reaches(log[q], s, l) /\ term[q] >= s
    BY <1>6 DEF Chosen
  <2>2. Heard(s)
    BY <2>1 DEF Heard
  <2>3. s < t
    BY <2>2, NewTerm
  <2>4. PICK q \in Node : q \in P /\ q \in Q
    BY <2>1, MajoritiesMeet DEF Wins
  <2>5. Reaches(log[n], s, l)
    <3>1. Reaches(log[q], s, l) /\ UpToDate(log[n], log[q])
      BY <2>1, <2>4 DEF Wins
    <3> QED BY <1>4, <3>1 DEF Reaches, UpToDate
  <2>6. Agree(log'[n], committed, k)
    <3>1. Agree(log[n], committed, k) /\ Len(committed) \in Nat
      BY <1>6, <2>5 DEF Chosen, RaftTypes
    <3>2. Len(log'[n]) \in Nat /\ Len(log[n]) \in Nat /\ Len(log[n]) <= Len(log'[n])
      BY <1>1
    <3> QED BY <1>1, <3>1, <3>2, AgreeGrown
  <2>7. \A p \in Node : Reaches(log'[p], s, l) => Agree(log'[p], committed, k)
    BY <1>2, <1>6, <2>6 DEF Chosen
  <2>8. \A x \in Node : Reaches(log[x], s, l) /\ term[x] >= s => Reaches(log'[x], s, l)
    BY <1>1, <1>2, <2>3 DEF Reaches
  <2>9. \A x \in Node : IsLeader(x)' /\ term'[x] = s =>
            IsLeader(x) /\ term[x] = s /\ Len(log'[x]) >= Len(log[x]) /\ applied'[x] >= applied[x]
    BY <1>1, <1>2, <1>3, <1>4, <1>5, <2>3
  <2>10. Len(committed) <= Len(committed') /\ \A j \in 1 .. Len(committed) : committed'[j] = committed[j]
    BY <1>3 DEF RaftTypes
  <2> QED BY <1>3, <1>6, <2>7, <2>8, <2>9, <2>10, ChosenStays
<1>7. AppliedChosen'
  <2>1. ASSUME NEW m \in Node, applied'[m] > 0
        PROVE  \E s \in 1 .. term'[m], l \in Nat : Chosen(s, l, applied[m])'
    <3>1. PICK s \in 1 .. term[m], l \in Nat : Chosen(s, l, applied[m])
      BY <1>3, <2>1 DEF AppliedChosen
    <3>2. s \in 1 .. term'[m] /\ s \in Nat /\ applied[m] \in Nat \ {0}
      BY <1>3, <1>4, <2>1
    <3>3. Chosen(s, l, applied[m])'
      BY <1>3, <1>6, <3>1, <3>2
    <3> QED BY <3>2, <3>3
  <2> QED BY <1>3, <2>1 DEF AppliedChosen
<1>8. \A x \in Node : Len(log[x]) <= Len(log'[x]) /\ \A k \in 1 .. Len(log[x]) : log'[x][k] = log[x][k]
  BY <1>1, <1>2, <1>4
<1>9. AppliedBounded'
  BY <1>1, <1>2, <1>3, <1>4 DEF AppliedBounded
<1>10. AppliedAgree'
  BY <1>3, <1>4, <1>8 DEF AppliedAgree
<1> QED BY <1>7, <1>9, <1>10

------------------------------------------------------------------------------
(* A leader's log is copied.                                                   *)

\* where the log of a node comes from
From(n, m, x) == IF x = m THEN n ELSE x

LEMMA CopiesEffect ==
    ASSUME RaftTypes, NEW n \in Node, NEW m \in Node, NEW heard \in BOOLEAN, Copies(n, m, heard)
    PROVE  /\ RaftTypes'
           /\ \A x \in Node : term'[x] >= term[x] /\ term'[x] = term[From(n, m, x)] /\ From(n, m, x) \in Node
           /\ \A x \in Node : log'[x] = log[From(n, m, x)]
           /\ \A x \in Node : IsLeader(x)' <=> (x # m /\ IsLeader(x))
           /\ \A x \in Node : applied'[x] = IF x = m /\ applied[n] > applied[m] THEN applied[n] ELSE applied[x]
           /\ acked'[m] = NoAcks
           /\ \A x \in Node : x # m => \A q \in Node :
                 acked'[x][q] = acked[x][q] \/ (x = n /\ q = m /\ acked'[x][q] = Len(log[n]))
<1>1. n # m /\ Len(log[n]) \in Nat /\ term[n] >= term[m] /\ NoAcks \in [Node -> Nat]
  BY LogType DEF Copies, NoAcks
<1>2. term' \in [Node -> 0 .. MaxTerm] /\ \A x \in Node : term'[x] = term[From(n, m, x)]
  BY <1>1 DEF Copies, RaftTypes, From
<1>3. \A x \in Node : term'[x] >= term[x] /\ From(n, m, x) \in Node
  <2>1. \A x \in Node : term[x] \in Nat
    BY LogType
  <2> QED BY <1>1, <1>2, <2>1 DEF From
<1>4. log' \in [Node -> Seq(Entry)] /\ \A x \in Node : log'[x] = log[From(n, m, x)]
  BY DEF Copies, RaftTypes, From
<1>5. leader' \in [Node -> Node \cup {Nobody}] /\ \A x \in Node : IsLeader(x)' <=> (x # m /\ IsLeader(x))
  BY <1>1 DEF Copies, RaftTypes, IsLeader
<1>6. /\ applied' \in [Node -> Nat]
      /\ \A x \in Node : applied'[x] = IF x = m /\ applied[n] > applied[m] THEN applied[n] ELSE applied[x]
  <2>1. applied' = [applied EXCEPT ![m] = IF applied[n] > applied[m] THEN applied[n] ELSE applied[m]]
    BY DEF Copies, RaftTypes
  <2> QED BY <2>1 DEF RaftTypes
<1>7. [acked[n] EXCEPT ![m] = Len(log[n])] \in [Node -> Nat]
  BY <1>1 DEF RaftTypes
<1>8. acked'[m] = NoAcks
  BY DEF Copies
<1>9. ASSUME NEW x \in Node
      PROVE  /\ acked'[x] \in [Node -> Nat]
             /\ x # m => \A q \in Node :
                   acked'[x][q] = acked[x][q] \/ (x = n /\ q = m /\ acked'[x][q] = Len(log[n]))
  <2>1. acked'[x] = IF x = m THEN NoAcks
                    ELSE IF x = n /\ heard THEN [acked[n] EXCEPT ![m] = Len(log[n])] ELSE acked[x]
    BY DEF Copies
  <2>2. acked[x] \in [Node -> Nat] /\ acked[n] \in [Node -> Nat]
    BY DEF RaftTypes
  <2> QED BY <1>1, <1>7, <2>1, <2>2
<1>10. acked' \in [Node -> [Node -> Nat]]
  BY <1>9 DEF Copies
<1>11. RaftTypes'
  BY <1>2, <1>4, <1>5, <1>6, <1>10 DEF RaftTypes, Copies
<1> QED BY <1>2, <1>3, <1>4, <1>5, <1>6, <1>8, <1>9, <1>11

LEMMA CopiesLogs ==
    ASSUME RaftTypes, TermsHeard, LeadersApart, LogsMatch,
           NEW n \in Node, NEW m \in Node, NEW heard \in BOOLEAN, Copies(n, m, heard)
    PROVE  TermsHeard' /\ LeadersApart' /\ LogsMatch'
<1> DEFINE F(x) == From(n, m, x)
<1>1. \A x \in Node : term'[x] >= term[x] /\ term'[x] = term[F(x)] /\ log'[x] = log[F(x)] /\ F(x) \in Node
  BY CopiesEffect
<1>2. \A x \in Node : IsLeader(x)' <=> (x # m /\ IsLeader(x))
  BY CopiesEffect
<1>3. \A x \in Node : x # m => F(x) = x
  BY DEF From
<1> HIDE DEF F
<1>4. TermsHeard'
  <2> DEFINE HeardNow(s) == \E P \in Majority : \A q \in P : term'[q] >= s
  <2>1. \A s \in Nat : Heard(s) => HeardNow(s)
    BY HeardStays, CopiesEffect DEF Heard
  <2> HIDE DEF HeardNow
  <2> SUFFICES ASSUME NEW x \in Node
               PROVE  /\ Sorted(log[F(x)])
                      /\ \A k \in 1 .. Len(log[F(x)]) :
                            log[F(x)][k].term <= term[F(x)] /\ HeardNow(log[F(x)][k].term)
    BY <1>1 DEF TermsHeard, Heard, HeardNow
  <2> QED BY <1>1, <2>1, LogType DEF TermsHeard
<1>5. LeadersApart'
  <2>1. ASSUME NEW x \in Node, ~ IsLeader(x)' PROVE acked'[x] = NoAcks
    <3>1. CASE x = m
      BY <3>1, CopiesEffect
    <3>2. CASE x # m
      <4>1. ~ IsLeader(x) /\ x # n
        BY <1>2, <2>1, <3>2 DEF Copies
      <4> QED BY <3>2, <4>1 DEF LeadersApart, Copies
    <3> QED BY <3>1, <3>2
  <2>2. ASSUME NEW x \in Node, IsLeader(x)' PROVE Owns(x)'
    <3>1. Owns(x) /\ term'[x] = term[x] /\ log'[x] = log[x] /\ x \in up' /\ IsLeader(x)
      BY <1>1, <1>2, <1>3, <2>2 DEF LeadersApart, Owns, Copies
    <3>2. ASSUME NEW y \in Node, NEW k \in 1 .. Len(log'[y]), log'[y][k].term = term[x]
          PROVE  k <= Len(log[x]) /\ log[x][k] = log'[y][k]
      BY <1>1, <3>1, <3>2 DEF Owns
    <3>3. ASSUME NEW y \in Node, IsLeader(y)', term'[y] = term[x] PROVE y = x
      <4>1. IsLeader(y) /\ term[y] = term[x]
        BY <1>1, <1>2, <1>3, <3>3
      <4> QED BY <3>1, <4>1 DEF Owns
    <3> QED BY <3>1, <3>2, <3>3 DEF Owns
  <2> QED BY <2>1, <2>2 DEF LeadersApart
<1>6. LogsMatch'
  BY <1>1 DEF LogsMatch
<1> QED BY <1>4, <1>5, <1>6

LEMMA CopiesAcks ==
    ASSUME RaftTypes, TermsHeard, LeadersApart, LogsMatch, AcksHeld, LaterLogsHold,
           NEW n \in Node, NEW m \in Node, NEW heard \in BOOLEAN, Copies(n, m, heard)
    PROVE  AcksHeld' /\ LaterLogsHold'
<1> DEFINE F(x) == From(n, m, x)
<1>1. \A x \in Node : term'[x] >= term[x] /\ term'[x] = term[F(x)] /\ log'[x] = log[F(x)] /\ F(x) \in Node
  BY CopiesEffect
<1>2. \A x \in Node : IsLeader(x)' <=> (x # m /\ IsLeader(x))
  BY CopiesEffect
<1>3. F(m) = n /\ \A x \in Node : x # m => F(x) = x
  BY DEF From
<1> HIDE DEF F
<1>4. \A x \in Node : x # m => \A q \in Node :
          acked'[x][q] = acked[x][q] \/ (x = n /\ q = m /\ acked'[x][q] = Len(log[n]))
  BY CopiesEffect
<1>5. IsLeader(n) /\ Owns(n) /\ n # m /\ term[m] <= term[n]
  BY DEF Copies, LeadersApart
<1>6. \A x \in Node : term[x] \in Nat /\ LastTerm(log[x]) \in Nat /\ Len(log[x]) \in Nat
  BY LogType
<1>7. \A x, q \in Node : acked[x][q] \in Nat
  BY DEF RaftTypes
<1>8. ASSUME NEW x \in Node, IsLeader(x)'
      PROVE  x # m /\ IsLeader(x) /\ term'[x] = term[x] /\ log'[x] = log[x]
  BY <1>1, <1>2, <1>3, <1>8
<1>9. AcksHeld'
  <2> SUFFICES ASSUME NEW x \in Node, IsLeader(x)', NEW q \in Node PROVE Holds(x, q)'
    BY DEF AcksHeld
  <2>1. Holds(x, q)
    BY <1>8 DEF AcksHeld
  <2>2. CASE q # m
    <3>1. acked'[x][q] = acked[x][q] /\ log'[q] = log[q] /\ term'[q] = term[q]
      BY <1>1, <1>3, <1>4, <1>8, <2>2
    <3> QED BY <1>8, <2>1, <3>1 DEF Holds
  <2>3. CASE q = m /\ x = n
    <3>1. acked'[x][q] <= Len(log[n]) /\ acked'[x][q] \in Nat
      BY <1>4, <1>5, <1>6, <1>7, <2>1, <2>3 DEF Holds
    <3>2. log'[q] = log[n] /\ log'[x] = log[n] /\ term'[q] = term[n] /\ term'[x] = term[n]
      BY <1>1, <1>3, <1>8, <2>3
    <3>3. Agree(log[n], log[n], acked'[x][q])
      BY <3>1 DEF Agree
    <3> QED BY <1>6, <3>1, <3>2, <3>3 DEF Holds
  <2>4. CASE q = m /\ x # n
    <3>1. acked'[x][q] = acked[x][q] /\ log'[q] = log[n] /\ term'[q] = term[n]
      BY <1>1, <1>3, <1>4, <1>8, <2>4
    <3>2. term[n] # term[x] /\ LastTerm(log[n]) = term[n]
      BY <1>5, <1>8, <2>4 DEF Owns
    <3>3. acked[x][q] > 0 => term[m] >= term[x]
      BY <2>1, <2>4 DEF Holds
    <3>4. acked[x][q] > 0 => term[n] > term[x]
      BY <1>5, <1>6, <3>2, <3>3
    <3>5. acked[x][q] > 0 => term'[q] >= term'[x] /\ LastTerm(log'[q]) > term'[x]
      BY <1>6, <1>8, <3>1, <3>2, <3>4
    <3>6. acked'[x][q] <= Len(log'[x])
      BY <1>8, <2>1, <3>1 DEF Holds
    <3> QED BY <3>1, <3>5, <3>6 DEF Holds
  <2> QED BY <2>2, <2>3, <2>4
<1>10. LaterLogsHold'
  <2> SUFFICES ASSUME NEW x \in Node, IsLeader(x)', NEW l \in 1 .. Len(log'[x]),
                      log'[x][l].term = term'[x], NEW p \in Node, LastTerm(log'[p]) > term'[x]
               PROVE  Agree(log'[p], log'[x], l) \/ Blocked(x, l)'
    BY DEF LaterLogsHold
  <2>1. Agree(log[F(p)], log[x], l) \/ Blocked(x, l)
    BY <1>1, <1>8 DEF LaterLogsHold
  <2>2. ASSUME Blocked(x, l) PROVE Blocked(x, l)'
    <3>1. \A q \in Node : acked'[x][q] = acked[x][q] \/ term[q] <= term[x]
      BY <1>4, <1>5, <1>8
    <3>2. RaftTypes'
      BY CopiesEffect
    <3>3. l \in Int
      OBVIOUS
    <3> QED BY <1>1, <1>8, <2>2, <3>1, <3>2, <3>3, BlockedStays
  <2> QED BY <1>1, <1>8, <2>1, <2>2
<1> QED BY <1>9, <1>10

\* a leader that is not behind a chosen entry's term has the entry
LEMMA LeaderReaches ==
    ASSUME RaftTypes, NEW n \in Node, IsLeader(n), Owns(n),
           NEW t \in Nat, NEW l \in Nat, NEW k \in Nat, Chosen(t, l, k), t <= term[n]
    PROVE  Reaches(log[n], t, l) /\ Agree(log[n], committed, k)
<1>1. LastTerm(log[n]) = term[n] /\ term[n] \in Nat /\ (term[n] = t => Len(log[n]) >= l)
  BY LogType DEF Owns, Chosen
<1>2. Reaches(log[n], t, l)
  BY <1>1 DEF Reaches
<1> QED BY <1>2 DEF Chosen

LEMMA CopiesApplied ==
    ASSUME RaftTypes, LeadersApart, AppliedChosen, AppliedBounded, AppliedAgree,
           NEW n \in Node, NEW m \in Node, NEW heard \in BOOLEAN, Copies(n, m, heard)
    PROVE  AppliedChosen' /\ AppliedBounded' /\ AppliedAgree'
<1> DEFINE F(x) == From(n, m, x)
<1>1. \A x \in Node : term'[x] >= term[x] /\ term'[x] = term[F(x)] /\ log'[x] = log[F(x)] /\ F(x) \in Node
  BY CopiesEffect
<1>2. \A x \in Node : IsLeader(x)' <=> (x # m /\ IsLeader(x))
  BY CopiesEffect
<1>3. F(m) = n /\ \A x \in Node : x # m => F(x) = x
  BY DEF From
<1> HIDE DEF F
<1>4. IsLeader(n) /\ Owns(n) /\ n # m /\ term[m] <= term[n] /\ committed' = committed
  BY DEF Copies, LeadersApart
<1>5. \A x \in Node : term[x] \in Nat /\ LastTerm(log[x]) \in Nat /\ Len(log[x]) \in Nat
  BY LogType
<1>6. /\ RaftTypes' /\ \A x \in Node : applied[x] \in Nat /\ applied'[x] \in Nat
      /\ \A x \in Node : applied'[x] = IF x = m /\ applied[n] > applied[m] THEN applied[n] ELSE applied[x]
  <2>1. RaftTypes'
    BY CopiesEffect
  <2>2. \A x \in Node : applied'[x] = IF x = m /\ applied[n] > applied[m] THEN applied[n] ELSE applied[x]
    BY CopiesEffect
  <2> QED BY <2>1, <2>2 DEF RaftTypes
<1>7. ASSUME NEW s \in Nat, NEW l \in Nat, NEW k \in Nat \ {0}, Chosen(s, l, k) PROVE Chosen(s, l, k)'
  <2>1. \A p \in Node : Reaches(log'[p], s, l) => Agree(log'[p], committed, k)
    BY <1>1, <1>7 DEF Chosen
  <2>2. ASSUME NEW q \in Node, Reaches(log[q], s, l), term[q] >= s PROVE Reaches(log'[q], s, l)
    <3>1. CASE q = m
      <4>1. s <= term[n]
        BY <1>4, <1>5, <2>2, <3>1
      <4> QED BY <1>1, <1>3, <1>4, <1>7, <3>1, <4>1, LeaderReaches
    <3>2. CASE q # m
      BY <1>1, <1>3, <2>2, <3>2
    <3> QED BY <3>1, <3>2
  <2>3. \A x \in Node : IsLeader(x)' /\ term'[x] = s =>
            IsLeader(x) /\ term[x] = s /\ Len(log'[x]) >= Len(log[x]) /\ applied'[x] >= applied[x]
    BY <1>1, <1>2, <1>3, <1>5, <1>6
  <2>4. Len(committed) <= Len(committed') /\ \A j \in 1 .. Len(committed) : committed'[j] = committed[j]
    BY <1>4 DEF RaftTypes
  <2> QED BY <1>1, <1>6, <1>7, <2>1, <2>2, <2>3, <2>4, ChosenStays
\* what m has applied is where it was in the log it took over
<1>8. ASSUME applied[m] > 0 PROVE Agree(log[n], committed, applied[m])
  <2>1. PICK s \in 1 .. term[m], l \in Nat : Chosen(s, l, applied[m])
    BY <1>8 DEF AppliedChosen
  <2>2. s \in Nat /\ s <= term[n]
    BY <1>4, <1>5, <2>1
  <2> QED BY <1>4, <1>6, <2>1, <2>2, LeaderReaches
<1>9. AppliedChosen'
  <2>1. ASSUME NEW x \in Node, NEW k \in Nat \ {0}, applied'[x] = k
        PROVE  \E s \in 1 .. term'[x], l \in Nat : Chosen(s, l, k)'
    <3>1. PICK y \in Node : applied[y] = k /\ term[y] <= term'[x]
      <4>1. CASE x = m /\ applied[n] > applied[m]
        BY <1>1, <1>3, <1>5, <1>6, <2>1, <4>1
      <4>2. CASE ~ (x = m /\ applied[n] > applied[m])
        BY <1>1, <1>6, <2>1, <4>2
      <4> QED BY <4>1, <4>2
    <3>2. PICK s \in 1 .. term[y], l \in Nat : Chosen(s, l, k)
      BY <2>1, <3>1 DEF AppliedChosen
    <3>3. s \in 1 .. term'[x] /\ s \in Nat
      BY <1>1, <1>5, <3>1, <3>2
    <3>4. Chosen(s, l, k)'
      BY <1>7, <3>2, <3>3
    <3> QED BY <3>3, <3>4
  <2>2. ASSUME committed # <<>> PROVE \E x \in Node : applied'[x] = Len(committed)
    <3>1. PICK x \in Node : applied[x] = Len(committed)
      BY <2>2 DEF AppliedChosen
    <3>2. applied[n] <= Len(committed) /\ Len(committed) \in Nat
      BY DEF AppliedAgree, RaftTypes
    <3>3. applied'[x] = Len(committed)
      BY <1>6, <3>1, <3>2
    <3> QED BY <3>3
  <2>3. ASSUME NEW x \in Node, applied'[x] > 0
        PROVE  (\E s \in 1 .. term[x], l \in Nat : Chosen(s, l, applied[x]))'
    <3>1. applied'[x] \in Nat \ {0}
      BY <1>6, <2>3
    <3> QED BY <2>1, <3>1
  <2> QED BY <1>4, <2>2, <2>3 DEF AppliedChosen
<1>10. ASSUME NEW x \in Node
       PROVE  /\ applied'[x] <= Len(log'[x]) /\ applied'[x] <= Len(committed)
              /\ \A k \in 1 .. applied'[x] : log'[x][k] = committed[k]
  <2>1. CASE x # m
    BY <1>1, <1>3, <1>6, <2>1 DEF AppliedBounded, AppliedAgree
  <2>2. CASE x = m /\ applied[n] > applied[m]
    BY <1>1, <1>3, <1>6, <2>2 DEF AppliedBounded, AppliedAgree
  <2>3. CASE x = m /\ ~ (applied[n] > applied[m])
    <3>1. applied'[x] = applied[m] /\ log'[x] = log[n]
      BY <1>1, <1>3, <1>6, <2>3
    <3>2. CASE applied[m] > 0
      BY <1>6, <1>8, <3>1, <3>2 DEF Agree
    <3>3. CASE applied[m] = 0
      <4>1. Len(committed) \in Nat
        BY DEF RaftTypes
      <4> QED BY <1>5, <3>1, <3>3, <4>1
    <3> QED BY <1>6, <3>2, <3>3
  <2> QED BY <2>1, <2>2, <2>3
<1>11. AppliedBounded' /\ AppliedAgree'
  BY <1>4, <1>10 DEF AppliedBounded, AppliedAgree
<1> QED BY <1>9, <1>11

------------------------------------------------------------------------------
(* A leader's log grows.                                                       *)

LEMMA GrowsEffect ==
    ASSUME RaftTypes, LeadersApart, NEW n \in Node, NEW w \in Write, Grows(n, w)
    PROVE  /\ RaftTypes'
           /\ \A x \in Node : x # n => log'[x] = log[x]
           /\ Longer(log'[n], log[n], term[n]) /\ log'[n][Len(log[n]) + 1].op = w
           /\ \A x, q \in Node : acked'[x][q] = IF x = n /\ q = n THEN Len(log[n]) + 1 ELSE acked[x][q]
           /\ \A x \in Node : x # n => acked'[x] = acked[x]
           /\ \A x \in Node : IsLeader(x)' <=> IsLeader(x)
<1> DEFINE e == [op |-> w, term |-> term[n]]
<1>1. term[n] \in 1 .. MaxTerm
  <2>1. Len(log[n]) > 0 /\ LastTerm(log[n]) = term[n]
    BY DEF Grows, LeadersApart, Owns
  <2>2. term[n] > 0
    BY <2>1, LogType
  <2> QED BY <2>2, ServiceAssumption DEF RaftTypes
<1>2. e \in Entry /\ e.term = term[n] /\ e.op = w
  BY <1>1 DEF Entry
<1>3. log' = [log EXCEPT ![n] = Append(log[n], e)]
  BY DEF Grows
<1> HIDE DEF e
<1>4. log[n] \in Seq(Entry) /\ Len(log[n]) \in Nat
  BY DEF RaftTypes
<1>5. Append(log[n], e) \in Seq(Entry) /\ Longer(Append(log[n], e), log[n], term[n])
      /\ Append(log[n], e)[Len(log[n]) + 1] = e
  BY <1>2, <1>4, AppendedLog
<1>6. log' \in [Node -> Seq(Entry)] /\ log'[n] = Append(log[n], e) /\ \A x \in Node : x # n => log'[x] = log[x]
  BY <1>3, <1>5 DEF RaftTypes
<1>7. acked' = [acked EXCEPT ![n][n] = Len(log[n]) + 1]
  BY DEF Grows
<1>8. acked' \in [Node -> [Node -> Nat]]
  BY <1>4, <1>7 DEF RaftTypes
<1>9. /\ \A x, q \in Node : acked'[x][q] = IF x = n /\ q = n THEN Len(log[n]) + 1 ELSE acked[x][q]
      /\ \A x \in Node : x # n => acked'[x] = acked[x]
  BY <1>7 DEF RaftTypes
<1>10. RaftTypes'
  BY <1>6, <1>8 DEF RaftTypes, Grows
<1>11. \A x \in Node : IsLeader(x)' <=> IsLeader(x)
  BY DEF Grows, IsLeader
<1> QED BY <1>2, <1>5, <1>6, <1>9, <1>10, <1>11

LEMMA GrowsLogs ==
    ASSUME RaftTypes, TermsHeard, LeadersApart, LogsMatch, NEW n \in Node, NEW w \in Write, Grows(n, w)
    PROVE  TermsHeard' /\ LeadersApart' /\ LogsMatch'
<1> DEFINE N == Len(log[n])
<1>1. /\ Len(log'[n]) = N + 1 /\ N \in Nat /\ LastTerm(log'[n]) = term[n]
      /\ \A k \in 1 .. N : log'[n][k] = log[n][k]
      /\ log'[n][N + 1].term = term[n]
  <2>1. Longer(log'[n], log[n], term[n])
    BY GrowsEffect
  <2> QED BY <2>1 DEF Longer
<1>2. \A x \in Node : x # n => log'[x] = log[x]
  BY GrowsEffect
<1>3. term' = term /\ up' = up /\ IsLeader(n) /\ Owns(n)
  BY DEF Grows, LeadersApart
<1>4. \A x \in Node : IsLeader(x)' <=> IsLeader(x)
  BY GrowsEffect
<1>5. \A x \in Node : Len(log[x]) \in Nat /\ term[x] \in Nat /\ \A k \in 1 .. Len(log[x]) : log[x][k].term \in Nat
  BY LogType
<1>6. N \in 1 .. N /\ log[n][N].term = term[n]
  BY <1>3, <1>5, LogType DEF Owns
<1>7. \A y \in Node : /\ \A j \in 1 .. Len(log[y]) : log'[y][j] = log[y][j]
                      /\ Len(log[y]) <= Len(log'[y]) /\ Len(log'[y]) \in Nat
  BY <1>1, <1>2, <1>5, SMTT(30)
<1>8. ASSUME NEW y \in Node, NEW k \in 1 .. Len(log'[y])
      PROVE  \/ k \in 1 .. Len(log[y]) /\ log'[y][k] = log[y][k]
             \/ y = n /\ k = N + 1 /\ log'[y][k].term = term[n]
  BY <1>1, <1>2, <1>8
<1>9. TermsHeard'
  <2>1. Heard(term[n])
    BY <1>6 DEF TermsHeard
  <2>2. \A s : Heard(s)' <=> Heard(s)
    BY <1>3 DEF Heard
  <2> DEFINE HeardNow(s) == \E P \in Majority : \A q \in P : term'[q] >= s
  <2>3. \A s : Heard(s) => HeardNow(s)
    BY <1>3 DEF Heard
  <2> HIDE DEF HeardNow
  <2> SUFFICES ASSUME NEW x \in Node
               PROVE  /\ Sorted(log'[x])
                      /\ \A k \in 1 .. Len(log'[x]) : log'[x][k].term <= term[x] /\ HeardNow(log'[x][k].term)
    BY <1>3 DEF TermsHeard, Heard, HeardNow
  <2>4. /\ Sorted(log[x])
        /\ \A k \in 1 .. Len(log[x]) : log[x][k].term <= term[x] /\ HeardNow(log[x][k].term)
    BY <2>3 DEF TermsHeard
  <2>5. \A k \in 1 .. Len(log'[x]) : log'[x][k].term <= term[x] /\ HeardNow(log'[x][k].term)
    BY <1>5, <1>8, <2>1, <2>3, <2>4
  <2>6. ASSUME NEW j \in 1 .. Len(log'[x]), NEW k \in 1 .. Len(log'[x]), j <= k
        PROVE  log'[x][j].term <= log'[x][k].term
    <3>1. CASE k \in 1 .. Len(log[x])
      <4>1. j \in 1 .. Len(log[x])
        BY <1>5, <2>6, <3>1
      <4> QED BY <1>7, <2>4, <2>6, <3>1, <4>1 DEF Sorted
    <3>2. CASE x = n /\ k = N + 1 /\ log'[x][k].term = term[n]
      BY <2>5, <3>2
    <3> QED BY <1>8, <3>1, <3>2
  <2> QED BY <2>5, <2>6 DEF Sorted
<1>10. LeadersApart'
  <2>1. ASSUME NEW x \in Node, ~ IsLeader(x)' PROVE acked'[x] = NoAcks
    BY <1>3, <1>4, <2>1, GrowsEffect DEF LeadersApart
  <2>2. ASSUME NEW x \in Node, IsLeader(x)' PROVE Owns(x)'
    <3>1. Owns(x) /\ IsLeader(x)
      BY <1>4, <2>2 DEF LeadersApart
    <3>2. Len(log'[x]) > 0 /\ LastTerm(log'[x]) = term[x]
      BY <1>1, <1>2, <1>5, <3>1 DEF Owns
    <3>3. ASSUME NEW y \in Node, NEW k \in 1 .. Len(log'[y]), log'[y][k].term = term[x]
          PROVE  k <= Len(log'[x]) /\ log'[x][k] = log'[y][k]
      <4>1. CASE k \in 1 .. Len(log[y]) /\ log'[y][k] = log[y][k]
        <5>1. k <= Len(log[x]) /\ log[x][k] = log[y][k]
          BY <3>1, <3>3, <4>1 DEF Owns
        <5> QED BY <1>5, <1>7, <4>1, <5>1
      <4>2. CASE y = n /\ k = N + 1 /\ log'[y][k].term = term[n]
        <5>1. x = n
          BY <1>3, <3>1, <3>3, <4>2 DEF Owns
        <5> QED BY <1>1, <4>2, <5>1
      <4> QED BY <1>8, <4>1, <4>2
    <3>4. \A y \in Node : IsLeader(y)' /\ term'[y] = term'[x] => y = x
      BY <1>3, <1>4, <3>1 DEF Owns
    <3> QED BY <1>3, <3>1, <3>2, <3>3, <3>4 DEF Owns
  <2> QED BY <2>1, <2>2 DEF LeadersApart
<1>11. LogsMatch'
  <2> SUFFICES ASSUME NEW x \in Node, NEW m \in Node, NEW k \in 1 .. Len(log'[x]),
                      k <= Len(log'[m]), log'[x][k].term = log'[m][k].term
               PROVE  Agree(log'[x], log'[m], k)
    BY DEF LogsMatch
  <2>1. k \in 1 .. Len(log'[m])
    BY <1>7
  <2>2. CASE k \in 1 .. Len(log[x]) /\ k \in 1 .. Len(log[m])
    <3>1. log[x][k].term = log[m][k].term /\ k <= Len(log[m])
      BY <1>7, <2>2, SMTT(30)
    <3>2. Agree(log[x], log[m], k)
      BY <2>2, <3>1 DEF LogsMatch
    <3> QED BY <1>5, <1>7, <2>2, <3>2, SMTT(30) DEF Agree
  <2>3. CASE x = m
    BY <2>1, <2>3 DEF Agree
  <2>4. ASSUME x # m, ~ (k \in 1 .. Len(log[x]) /\ k \in 1 .. Len(log[m])) PROVE FALSE
    <3>1. PICK y \in {x, m} : k \in 1 .. Len(log[y]) /\ log[y][k].term = term[n] /\ k = N + 1
      BY <1>8, <2>1, <2>4
    <3>2. k <= N
      BY <1>3, <3>1 DEF Owns
    <3> QED BY <1>1, <3>1, <3>2
  <2> QED BY <2>2, <2>3, <2>4
<1> QED BY <1>9, <1>10, <1>11

LEMMA GrowsAcks ==
    ASSUME RaftTypes, TermsHeard, LeadersApart, LogsMatch, AcksHeld, LaterLogsHold,
           NEW n \in Node, NEW w \in Write, Grows(n, w)
    PROVE  AcksHeld' /\ LaterLogsHold'
<1> DEFINE N == Len(log[n])
<1>1. /\ Len(log'[n]) = N + 1 /\ N \in Nat /\ LastTerm(log'[n]) = term[n]
      /\ \A k \in 1 .. N : log'[n][k] = log[n][k]
      /\ log'[n][N + 1].term = term[n]
  <2>1. Longer(log'[n], log[n], term[n])
    BY GrowsEffect
  <2> QED BY <2>1 DEF Longer
<1>2. \A x \in Node : x # n => log'[x] = log[x]
  BY GrowsEffect
<1>3. term' = term /\ IsLeader(n) /\ LastTerm(log[n]) = term[n]
  BY DEF Grows, LeadersApart, Owns
<1>4. \A x \in Node : IsLeader(x)' <=> IsLeader(x)
  BY GrowsEffect
<1>5. \A x \in Node : Len(log[x]) \in Nat /\ term[x] \in Nat /\ LastTerm(log[x]) \in Nat
  BY LogType
<1>6. \A x \in Node : /\ \A j \in 1 .. Len(log[x]) : log'[x][j] = log[x][j]
                      /\ Len(log[x]) <= Len(log'[x]) /\ Len(log'[x]) \in Nat
                      /\ LastTerm(log'[x]) = LastTerm(log[x])
  BY <1>1, <1>2, <1>3, <1>5
<1>7. \A x, q \in Node : /\ acked[x][q] \in Nat
                         /\ acked'[x][q] = IF x = n /\ q = n THEN N + 1 ELSE acked[x][q]
  <2>1. \A x, q \in Node : acked'[x][q] = IF x = n /\ q = n THEN N + 1 ELSE acked[x][q]
    BY GrowsEffect
  <2> QED BY <2>1 DEF RaftTypes
\* what two logs have in common they keep
<1>8. ASSUME NEW p \in Node, NEW x \in Node, NEW k \in Int, Agree(log[p], log[x], k)
      PROVE  Agree(log'[p], log'[x], k)
  <2>1. Agree(log'[p], log[x], k)
    BY <1>5, <1>6, <1>8, AgreeGrown
  <2>2. Agree(log[x], log'[p], k)
    BY <2>1, AgreeSymmetric
  <2>3. Agree(log'[x], log'[p], k)
    BY <1>5, <1>6, <2>2, AgreeGrown
  <2> QED BY <2>3, AgreeSymmetric
<1>9. AcksHeld'
  <2> SUFFICES ASSUME NEW x \in Node, IsLeader(x)', NEW q \in Node PROVE Holds(x, q)'
    BY DEF AcksHeld
  <2>1. Holds(x, q)
    BY <1>4 DEF AcksHeld
  <2>2. CASE x = n /\ q = n
    <3>1. acked'[x][q] = N + 1
      BY <1>7, <2>2
    <3>2. Agree(log'[n], log'[n], N + 1)
      BY <1>1 DEF Agree
    <3> QED BY <1>1, <1>3, <1>5, <2>2, <3>1, <3>2 DEF Holds
  <2>3. CASE ~ (x = n /\ q = n)
    <3>1. acked'[x][q] = acked[x][q] /\ acked[x][q] \in Nat
      BY <1>7, <2>3
    <3>2. acked[x][q] <= Len(log'[x])
      BY <1>5, <1>6, <2>1, <3>1 DEF Holds
    <3>3. Agree(log[q], log[x], acked[x][q]) => Agree(log'[q], log'[x], acked[x][q])
      BY <1>8, <3>1
    <3>4. LastTerm(log'[q]) = LastTerm(log[q])
      BY <1>6
    <3> QED BY <1>3, <2>1, <3>1, <3>2, <3>3, <3>4 DEF Holds
  <2> QED BY <2>2, <2>3
<1>10. LaterLogsHold'
  <2> SUFFICES ASSUME NEW x \in Node, IsLeader(x)', NEW l \in 1 .. Len(log'[x]),
                      log'[x][l].term = term[x], NEW p \in Node, LastTerm(log[p]) > term[x]
               PROVE  Agree(log'[p], log'[x], l) \/ Blocked(x, l)'
    BY <1>3, <1>6 DEF LaterLogsHold
  <2>1. CASE l \in 1 .. Len(log[x])
    <3>1. Agree(log[p], log[x], l) \/ Blocked(x, l)
      BY <1>4, <1>6, <2>1 DEF LaterLogsHold
    <3>2. ASSUME Blocked(x, l) PROVE Blocked(x, l)'
      <4>1. \A q \in Node : acked'[x][q] = acked[x][q] \/ term[q] <= term[x]
        BY <1>5, <1>7
      <4>2. RaftTypes'
        BY GrowsEffect
      <4>3. l \in Int /\ \A y \in Node : term'[y] >= term[y] /\ term'[y] = term[y]
        BY <1>3, <1>5
      <4> QED BY <3>2, <4>1, <4>2, <4>3, BlockedStays
    <3>3. l \in Int
      OBVIOUS
    <3> QED BY <1>8, <3>1, <3>2, <3>3
  \* a majority has heard of the term of p's log, and cannot have acknowledged what is new
  <2>2. CASE x = n /\ l = N + 1
    <3>1. Len(log[p]) \in 1 .. Len(log[p]) /\ LastTerm(log[p]) = log[p][Len(log[p])].term
      BY <1>5, LogType
    <3>2. Heard(LastTerm(log[p]))
      BY <3>1 DEF TermsHeard
    <3>3. PICK Q \in Majority : \A q \in Q : term[q] >= LastTerm(log[p])
      BY <3>2 DEF Heard
    <3>4. ASSUME NEW q \in Q PROVE acked'[n][q] < l /\ term[q] > term[n]
      <4>1. q \in Node /\ term[q] > term[n]
        BY <1>5, <2>2, <3>3 DEF Majority
      <4>2. acked'[n][q] = acked[n][q] /\ acked[n][q] \in Nat
        BY <1>5, <1>7, <4>1
      <4>3. acked[n][q] <= N
        BY <1>3, <4>1 DEF AcksHeld, Holds
      <4> QED BY <1>1, <2>2, <4>1, <4>2, <4>3
    <3> QED BY <1>3, <2>2, <3>4 DEF Blocked, Majority
  <2>3. l \in 1 .. Len(log[x]) \/ (x = n /\ l = N + 1)
    BY <1>1, <1>2
  <2> QED BY <2>1, <2>2, <2>3
<1> QED BY <1>9, <1>10

LEMMA GrowsApplied ==
    ASSUME RaftTypes, LeadersApart, AppliedChosen, AppliedBounded, AppliedAgree,
           NEW n \in Node, NEW w \in Write, Grows(n, w)
    PROVE  AppliedChosen' /\ AppliedBounded' /\ AppliedAgree'
<1>1. Longer(log'[n], log[n], term[n])
  BY GrowsEffect
<1>2. \A x \in Node : x # n => log'[x] = log[x]
  BY GrowsEffect
<1>3. /\ UNCHANGED <<term, applied, committed, leader>> /\ IsLeader(n)
      /\ LastTerm(log[n]) = term[n] /\ \A x \in Node : IsLeader(x)' <=> IsLeader(x)
  BY DEF Grows, LeadersApart, Owns, IsLeader
<1>4. \A x \in Node : /\ Len(log[x]) \in Nat /\ term[x] \in Nat /\ LastTerm(log[x]) \in Nat
                      /\ applied[x] \in Nat /\ applied[x] <= Len(log[x])
  BY LogType DEF RaftTypes, AppliedBounded
<1>5. \A x \in Node : /\ \A j \in 1 .. Len(log[x]) : log'[x][j] = log[x][j]
                      /\ Len(log[x]) <= Len(log'[x]) /\ Len(log'[x]) \in Nat
                      /\ LastTerm(log'[x]) = LastTerm(log[x])
  BY <1>1, <1>2, <1>3, <1>4 DEF Longer
<1>6. RaftTypes'
  BY GrowsEffect
<1>7. ASSUME NEW s \in Nat, NEW l \in Nat, NEW k \in Nat \ {0}, Chosen(s, l, k) PROVE Chosen(s, l, k)'
  <2>1. ASSUME NEW p \in Node, Reaches(log'[p], s, l) PROVE Agree(log'[p], committed, k)
    <3>1. Reaches(log[p], s, l)
      <4>1. CASE p # n
        BY <1>2, <2>1, <4>1
      <4>2. CASE p = n
        <5>1. term[n] = s => Len(log[n]) >= l
          BY <1>3, <1>7 DEF Chosen
        <5> QED BY <1>3, <1>5, <2>1, <4>2, <5>1 DEF Reaches
      <4> QED BY <4>1, <4>2
    <3>2. Agree(log[p], committed, k) /\ Len(committed) \in Nat
      BY <1>7, <3>1 DEF Chosen, RaftTypes
    <3> QED BY <1>4, <1>5, <3>2, AgreeGrown
  <2>2. \A q \in Node : Reaches(log[q], s, l) /\ term[q] >= s => Reaches(log'[q], s, l)
    BY <1>4, <1>5 DEF Reaches
  <2>3. \A x \in Node : IsLeader(x)' /\ term'[x] = s =>
            IsLeader(x) /\ term[x] = s /\ Len(log'[x]) >= Len(log[x]) /\ applied'[x] >= applied[x]
    BY <1>3, <1>4, <1>5
  <2>4. Len(committed) <= Len(committed') /\ \A j \in 1 .. Len(committed) : committed'[j] = committed[j]
    BY <1>3 DEF RaftTypes
  <2>5. \A x \in Node : term'[x] >= term[x]
    BY <1>3, <1>4
  <2> QED BY <1>6, <1>7, <2>1, <2>2, <2>3, <2>4, <2>5, ChosenStays
<1>8. ASSUME NEW m \in Node, applied[m] > 0 PROVE \E s \in 1 .. term[m], l \in Nat : Chosen(s, l, applied[m])'
  <2>1. PICK s \in 1 .. term[m], l \in Nat : Chosen(s, l, applied[m])
    BY <1>8 DEF AppliedChosen
  <2>2. applied[m] \in Nat \ {0} /\ s \in Nat
    BY <1>4, <1>8, <2>1
  <2>3. Chosen(s, l, applied[m])'
    BY <1>3, <1>7, <2>1, <2>2
  <2> QED BY <2>3
<1>9. AppliedChosen'
  BY <1>3, <1>8 DEF AppliedChosen
<1>10. AppliedBounded' /\ AppliedAgree'
  BY <1>3, <1>4, <1>5 DEF AppliedBounded, AppliedAgree
<1> QED BY <1>9, <1>10

------------------------------------------------------------------------------
(* Nodes recede.                                                               *)

LEMMA RecedesKeeps ==
    ASSUME RaftInv, Recedes
    PROVE  RaftInv'
<1>1. RaftTypes /\ TermsHeard /\ LeadersApart /\ LogsMatch /\ AcksHeld /\ LaterLogsHold
      /\ AppliedChosen /\ AppliedBounded /\ AppliedAgree
  BY DEF RaftInv
<1>2. RaftTypes'
  BY <1>1 DEF RaftTypes, Recedes
<1>3. UNCHANGED <<log, applied, committed>> /\ \A x \in Node : term'[x] >= term[x]
  BY DEF Recedes
<1>4. ASSUME NEW x \in Node, IsLeader(x)'
      PROVE  IsLeader(x) /\ acked'[x] = acked[x] /\ term'[x] = term[x] /\ x \in up'
  BY <1>4 DEF Recedes, IsLeader
<1>5. \A x \in Node : term[x] \in Nat /\ term'[x] \in Nat /\ Len(log[x]) \in Nat /\ applied[x] \in Nat
  BY <1>1, <1>2, LogType, ServiceAssumption DEF RaftTypes
<1>6. TermsHeard'
  <2> DEFINE HeardNow(s) == \E P \in Majority : \A q \in P : term'[q] >= s
  <2>1. \A s \in Nat : Heard(s) => HeardNow(s)
    BY <1>1, <1>2, <1>3, HeardStays DEF Heard
  <2> HIDE DEF HeardNow
  <2> SUFFICES ASSUME NEW x \in Node
               PROVE  /\ Sorted(log[x])
                      /\ \A k \in 1 .. Len(log[x]) : log[x][k].term <= term'[x] /\ HeardNow(log[x][k].term)
    BY <1>3 DEF TermsHeard, Heard, HeardNow
  <2>2. \A k \in 1 .. Len(log[x]) : log[x][k].term \in Nat
    BY <1>1, LogType
  <2> QED BY <1>1, <1>3, <1>5, <2>1, <2>2 DEF TermsHeard
<1>7. LeadersApart'
  <2>1. ASSUME NEW x \in Node, ~ IsLeader(x)' PROVE acked'[x] = NoAcks
    BY <2>1 DEF Recedes, IsLeader
  <2>2. ASSUME NEW x \in Node, IsLeader(x)' PROVE Owns(x)'
    <3>1. Owns(x)
      BY <1>1, <1>4, <2>2 DEF LeadersApart
    <3>2. \A y \in Node : IsLeader(y)' /\ term'[y] = term'[x] => y = x
      BY <1>4, <2>2, <3>1 DEF Owns
    <3> QED BY <1>3, <1>4, <2>2, <3>1, <3>2 DEF Owns
  <2> QED BY <2>1, <2>2 DEF LeadersApart
<1>8. LogsMatch'
  BY <1>1, <1>3 DEF LogsMatch
<1>9. AcksHeld'
  <2> SUFFICES ASSUME NEW x \in Node, IsLeader(x)', NEW q \in Node PROVE Holds(x, q)'
    BY DEF AcksHeld
  <2>1. Holds(x, q)
    BY <1>1, <1>4 DEF AcksHeld
  <2>2. term[q] >= term[x] => term'[q] >= term'[x]
    BY <1>3, <1>4, <1>5
  <2> QED BY <1>3, <1>4, <2>1, <2>2 DEF Holds
<1>10. LaterLogsHold'
  <2> SUFFICES ASSUME NEW x \in Node, IsLeader(x)', NEW l \in 1 .. Len(log[x]),
                      log[x][l].term = term[x], NEW p \in Node, LastTerm(log[p]) > term[x]
               PROVE  Agree(log[p], log[x], l) \/ Blocked(x, l)'
    BY <1>3, <1>4 DEF LaterLogsHold
  <2>1. Agree(log[p], log[x], l) \/ Blocked(x, l)
    BY <1>1, <1>4 DEF LaterLogsHold
  <2>2. Blocked(x, l) => Blocked(x, l)'
    BY <1>1, <1>2, <1>3, <1>4, BlockedStays
  <2> QED BY <2>1, <2>2
<1>11. ASSUME NEW s \in Nat, NEW l \in Nat, NEW k \in Nat \ {0}, Chosen(s, l, k) PROVE Chosen(s, l, k)'
  <2>1. \A p \in Node : Reaches(log'[p], s, l) => Agree(log'[p], committed, k)
    BY <1>3, <1>11 DEF Chosen
  <2>2. \A x \in Node : IsLeader(x)' /\ term'[x] = s =>
            IsLeader(x) /\ term[x] = s /\ Len(log'[x]) >= Len(log[x]) /\ applied'[x] >= applied[x]
    BY <1>3, <1>4, <1>5
  <2>3. Len(committed) <= Len(committed') /\ \A j \in 1 .. Len(committed) : committed'[j] = committed[j]
    BY <1>1, <1>3 DEF RaftTypes
  <2> QED BY <1>1, <1>2, <1>3, <1>11, <2>1, <2>2, <2>3, ChosenStays
<1>12. AppliedChosen'
  <2>1. ASSUME NEW m \in Node, applied[m] > 0
        PROVE  \E s \in 1 .. term'[m], l \in Nat : Chosen(s, l, applied[m])'
    <3>1. PICK s \in 1 .. term[m], l \in Nat : Chosen(s, l, applied[m])
      BY <1>1, <2>1 DEF AppliedChosen
    <3>2. applied[m] \in Nat \ {0} /\ s \in Nat /\ s \in 1 .. term'[m]
      BY <1>3, <1>5, <2>1, <3>1
    <3>3. Chosen(s, l, applied[m])'
      BY <1>3, <1>11, <3>1, <3>2
    <3> QED BY <3>2, <3>3
  <2> QED BY <1>1, <1>3, <2>1 DEF AppliedChosen
<1>13. AppliedBounded' /\ AppliedAgree'
  BY <1>1, <1>3 DEF AppliedBounded, AppliedAgree
<1> QED BY <1>2, <1>6, <1>7, <1>8, <1>9, <1>10, <1>12, <1>13 DEF RaftInv

------------------------------------------------------------------------------
(* An entry is committed.                                                      *)

\* what a majority acknowledged up to an entry of the leader's term is in every log
\* that reaches that entry, and a majority's logs do
LEMMA AcknowledgedChosen ==
    ASSUME RaftInv, NEW n \in Node, IsLeader(n), NEW l \in 1 .. Len(log[n]), NEW Q \in Majority,
           log[n][l].term = term[n], \A m \in Q : acked[n][m] >= l
    PROVE  /\ \A p \in Node : Reaches(log[p], term[n], l) => Agree(log[p], log[n], l)
           /\ \A q \in Q : Reaches(log[q], term[n], l) /\ term[q] >= term[n]
<1>1. RaftTypes /\ TermsHeard /\ LogsMatch /\ AcksHeld /\ LaterLogsHold /\ Owns(n)
  BY DEF RaftInv, LeadersApart
<1>2. \A x \in Node : Len(log[x]) \in Nat /\ term[x] \in Nat /\ LastTerm(log[x]) \in Nat
  BY <1>1, LogType
<1>3. \A x, q \in Node : acked[x][q] \in Nat
  BY <1>1 DEF RaftTypes
<1>4. ASSUME NEW p \in Node, Reaches(log[p], term[n], l) PROVE Agree(log[p], log[n], l)
  <2>1. CASE LastTerm(log[p]) > term[n]
    <3>1. ~ Blocked(n, l)
      <4> SUFFICES ASSUME NEW P \in Majority, \A q \in P : acked[n][q] < l PROVE FALSE
        BY DEF Blocked
      <4>1. PICK q \in Node : q \in P /\ q \in Q
        BY MajoritiesMeet
      <4> QED BY <1>3, <4>1
    <3> QED BY <1>1, <2>1, <3>1 DEF LaterLogsHold
  <2>2. CASE LastTerm(log[p]) = term[n] /\ Len(log[p]) >= l
    <3> DEFINE N == Len(log[p])
    <3>1. N \in 1 .. N /\ log[p][N].term = term[n]
      BY <1>1, <1>2, <2>2, LogType
    <3>2. N <= Len(log[n]) /\ log[n][N] = log[p][N]
      BY <1>1, <3>1 DEF Owns
    <3>3. Agree(log[p], log[n], N)
      BY <1>1, <3>1, <3>2 DEF LogsMatch
    <3>4. l \in Int /\ N \in Int /\ l <= N /\ Len(log[p]) \in Nat /\ Len(log[n]) \in Nat
      BY <1>2, <2>2
    <3> QED BY <3>3, <3>4, AgreeLess
  <2> QED BY <1>4, <2>1, <2>2 DEF Reaches
<1>5. ASSUME NEW q \in Q PROVE Reaches(log[q], term[n], l) /\ term[q] >= term[n]
  <2>1. q \in Node /\ acked[n][q] >= l /\ acked[n][q] > 0 /\ acked[n][q] \in Nat
    BY <1>2, <1>3 DEF Majority
  <2>2. Holds(n, q)
    BY <1>1, <2>1 DEF AcksHeld
  <2>3. term[q] >= term[n]
    BY <2>1, <2>2 DEF Holds
  <2>4. CASE LastTerm(log[q]) > term[n]
    BY <2>3, <2>4 DEF Reaches
  <2>5. CASE Agree(log[q], log[n], acked[n][q])
    <3>1. l \in 1 .. Len(log[q]) /\ log[q][l] = log[n][l] /\ Len(log[q]) \in 1 .. Len(log[q])
      BY <1>2, <2>1, <2>5 DEF Agree
    <3>2. log[q][l].term <= log[q][Len(log[q])].term
      BY <1>1, <2>1, <3>1 DEF TermsHeard, Sorted
    <3>3. LastTerm(log[q]) = log[q][Len(log[q])].term
      BY <1>1, <2>1, <3>1, LogType
    <3>4. LastTerm(log[q]) >= term[n] /\ Len(log[q]) >= l
      BY <3>1, <3>2, <3>3
    <3> QED BY <1>2, <2>1, <2>3, <3>4 DEF Reaches
  <2> QED BY <2>1, <2>2, <2>4, <2>5 DEF Holds
<1> QED BY <1>4, <1>5

LEMMA CommitsChosen ==
    ASSUME RaftInv, NEW n \in Node, Commits(n), NEW k \in Nat, k = applied[n] + 1
    PROVE  /\ RaftTypes'
           /\ applied'[n] = k /\ \A x \in Node : x # n => applied'[x] = applied[x]
           /\ \/ committed' = committed /\ k <= Len(committed)
              \/ Len(committed') = k /\ Len(committed) = applied[n]
           /\ \A j \in 1 .. Len(committed) : committed'[j] = committed[j]
           /\ Agree(log[n], committed', k)
           /\ term[n] > 0 /\ \E l \in Nat : Chosen(term[n], l, k)'
<1>1. RaftTypes /\ TermsHeard /\ Owns(n) /\ IsLeader(n) /\ AppliedChosen /\ AppliedAgree
  BY DEF RaftInv, LeadersApart, Commits
<1>2. PICK l \in k .. Len(log[n]), Q \in Majority :
         log[n][l].term = term[n] /\ \A m \in Q : acked[n][m] >= l
  BY DEF Commits, Commit
<1>3. /\ applied' = [applied EXCEPT ![n] = k]
      /\ committed' = IF k > Len(committed) THEN Append(committed, log[n][k]) ELSE committed
      /\ UNCHANGED <<term, log, leader, acked>>
  BY DEF Commits, Commit
<1>4. /\ k \in Nat \ {0} /\ l \in 1 .. Len(log[n]) /\ k \in 1 .. Len(log[n]) /\ k <= l /\ l \in Nat
      /\ Len(log[n]) \in Nat /\ Len(committed) \in Nat /\ log[n][k] \in Entry /\ term[n] \in Nat
      /\ applied[n] \in Nat
  <2>1. applied[n] \in Nat /\ Len(log[n]) \in Nat /\ Len(committed) \in Nat /\ term[n] \in Nat
    BY <1>1, LogType DEF RaftTypes
  <2>2. k \in 1 .. Len(log[n])
    BY <1>2, <2>1
  <2>3. log[n][k] \in Entry
    BY <1>1, <2>2, LogType
  <2> QED BY <1>2, <2>1, <2>2, <2>3
<1>5. /\ \A p \in Node : Reaches(log[p], term[n], l) => Agree(log[p], log[n], l)
      /\ \A q \in Q : Reaches(log[q], term[n], l) /\ term[q] >= term[n]
  BY <1>1, <1>2, <1>4, AcknowledgedChosen
<1>6. applied[n] <= Len(committed) /\ \A j \in 1 .. applied[n] : log[n][j] = committed[j]
  BY <1>1 DEF AppliedAgree
<1>7. /\ committed' \in Seq(Entry)
      /\ \/ committed' = committed /\ k <= Len(committed)
         \/ Len(committed') = k /\ Len(committed) = applied[n] /\ committed'[k] = log[n][k]
      /\ \A j \in 1 .. Len(committed) : committed'[j] = committed[j]
  <2>1. committed \in Seq(Entry)
    BY <1>1 DEF RaftTypes
  <2>2. CASE k <= Len(committed)
    BY <1>3, <1>4, <2>1, <2>2
  <2>3. CASE k > Len(committed)
    <3>1. Len(committed) = applied[n]
      BY <1>4, <1>6, <2>3
    <3>2. committed' = Append(committed, log[n][k])
      BY <1>3, <2>3
    <3>3. /\ committed' \in Seq(Entry) /\ Len(committed') = Len(committed) + 1
          /\ committed'[Len(committed) + 1] = log[n][k]
          /\ \A j \in 1 .. Len(committed) : committed'[j] = committed[j]
      BY <1>4, <2>1, <3>2
    <3> QED BY <3>1, <3>3
  <2> QED BY <1>4, <2>2, <2>3
<1>8. Agree(log[n], committed', k)
  <2>1. CASE committed' = committed /\ k <= Len(committed)
    <3>1. committed # <<>>
      BY <1>1, <1>4, <2>1 DEF RaftTypes
    <3>2. PICK m \in Node : applied[m] = Len(committed)
      BY <1>1, <3>1 DEF AppliedChosen
    <3>3. PICK s \in 1 .. term[m], i \in Nat : Chosen(s, i, Len(committed))
      BY <1>1, <1>4, <2>1, <3>2 DEF AppliedChosen
    <3>4. PICK P \in Majority : \A q \in P : Reaches(log[q], s, i)
      BY <3>3 DEF Chosen
    <3>5. PICK q \in Node : q \in P /\ q \in Q
      BY MajoritiesMeet
    <3>6. Agree(log[q], committed, Len(committed)) /\ Agree(log[q], log[n], l)
      BY <1>5, <3>3, <3>4, <3>5 DEF Chosen
    <3> QED BY <1>4, <2>1, <3>6 DEF Agree
  <2>2. CASE Len(committed') = k /\ Len(committed) = applied[n] /\ committed'[k] = log[n][k]
    <3>1. \A j \in 1 .. k : log[n][j] = committed'[j]
      BY <1>4, <1>6, <1>7, <2>2, SMTT(30)
    <3> QED BY <1>4, <2>2, <3>1 DEF Agree
  <2> QED BY <1>7, <2>1, <2>2
<1>9. Chosen(term[n], l, k)'
  <2>1. k <= Len(committed') /\ committed'[k].term <= term[n]
    <3>1. committed'[k] = log[n][k] /\ k <= Len(committed')
      BY <1>4, <1>8 DEF Agree
    <3>2. log[n][k].term <= log[n][l].term
      BY <1>1, <1>4 DEF TermsHeard, Sorted
    <3> QED BY <1>2, <3>1, <3>2
  <2>2. ASSUME NEW p \in Node, Reaches(log[p], term[n], l) PROVE Agree(log[p], committed', k)
    <3>1. Agree(log[p], log[n], l) /\ Len(log[p]) \in Nat
      BY <1>1, <1>5, <2>2, LogType
    <3>2. Agree(log[p], log[n], k)
      BY <1>4, <3>1, AgreeLess
    <3> QED BY <1>4, <1>8, <3>2, AgreeTransitive
  <2>3. \A x \in Node : IsLeader(x) /\ term[x] = term[n] => Len(log[x]) >= l /\ applied'[x] >= k
    <3>1. applied'[n] = k
      BY <1>1, <1>3 DEF RaftTypes
    <3> QED BY <1>1, <1>4, <3>1 DEF Owns
  <2>4. \A x \in Node : (IsLeader(x) <=> IsLeader(x)')
    BY <1>3 DEF IsLeader
  <2> QED BY <1>3, <1>5, <2>1, <2>2, <2>3, <2>4 DEF Chosen, Majority
<1>10. RaftTypes' /\ applied'[n] = k /\ \A x \in Node : x # n => applied'[x] = applied[x]
  BY <1>1, <1>3, <1>4, <1>7 DEF RaftTypes
<1>11. term[n] > 0
  BY <1>1, <1>2, <1>4, LogType
<1> QED BY <1>3, <1>4, <1>7, <1>8, <1>9, <1>10, <1>11

LEMMA CommitsKeeps ==
    ASSUME RaftInv, NEW n \in Node, Commits(n)
    PROVE  RaftInv'
<1>1. RaftTypes /\ TermsHeard /\ LeadersApart /\ LogsMatch /\ AcksHeld /\ LaterLogsHold
      /\ AppliedChosen /\ AppliedBounded /\ AppliedAgree
  BY DEF RaftInv
<1>2. UNCHANGED <<up, term, log, leader, acked>>
  BY DEF Commits, Commit
<1>3. PICK k \in Nat : k = applied[n] + 1
  BY <1>1 DEF RaftTypes
<1>4. RaftTypes' /\ applied'[n] = k /\ \A x \in Node : x # n => applied'[x] = applied[x]
  BY <1>3, CommitsChosen
<1>5. /\ \/ committed' = committed /\ k <= Len(committed)
         \/ Len(committed') = k /\ Len(committed) = applied[n]
      /\ \A j \in 1 .. Len(committed) : committed'[j] = committed[j]
  BY <1>3, CommitsChosen
<1>6. Agree(log[n], committed', k) /\ term[n] > 0 /\ \E l \in Nat : Chosen(term[n], l, k)'
  BY <1>3, CommitsChosen
<1>7. \A x \in Node : /\ term[x] \in Nat /\ Len(log[x]) \in Nat /\ applied[x] \in Nat
                      /\ applied[x] <= Len(committed)
  BY <1>1, LogType DEF RaftTypes, AppliedAgree
<1>8. Len(committed) \in Nat /\ Len(committed') \in Nat /\ Len(committed) <= Len(committed')
  <2>1. Len(committed) \in Nat /\ Len(committed') \in Nat
    BY <1>1, <1>4 DEF RaftTypes
  <2> QED BY <1>3, <1>5, <1>7, <2>1
<1>9. (TermsHeard /\ LeadersApart /\ LogsMatch /\ AcksHeld /\ LaterLogsHold)'
  BY <1>1, <1>2 DEF TermsHeard, Heard, LeadersApart, IsLeader, Owns, LogsMatch, AcksHeld, Holds,
                    LaterLogsHold, Blocked
<1>10. ASSUME NEW s \in Nat, NEW l \in Nat, NEW i \in Nat \ {0}, Chosen(s, l, i) PROVE Chosen(s, l, i)'
  <2>1. \A p \in Node : Reaches(log'[p], s, l) => Agree(log'[p], committed, i)
    BY <1>2, <1>10 DEF Chosen
  <2>2. \A x \in Node : term'[x] >= term[x]
    BY <1>2, <1>7
  <2>3. \A x \in Node : applied'[x] >= applied[x]
    BY <1>3, <1>4, <1>7
  <2>4. \A x \in Node : IsLeader(x)' /\ term'[x] = s =>
            IsLeader(x) /\ term[x] = s /\ Len(log'[x]) >= Len(log[x]) /\ applied'[x] >= applied[x]
    BY <1>2, <1>7, <2>3 DEF IsLeader
  <2>5. \A q \in Node : Reaches(log[q], s, l) /\ term[q] >= s => Reaches(log'[q], s, l)
    BY <1>2
  <2> QED BY <1>1, <1>4, <1>5, <1>8, <1>10, <2>1, <2>2, <2>4, <2>5, ChosenStays
<1>11. ASSUME NEW m \in Node, NEW i \in Nat \ {0}, applied'[m] = i
       PROVE  \E s \in 1 .. term'[m], l \in Nat : Chosen(s, l, i)'
  <2>1. CASE m = n
    <3>1. term[n] \in 1 .. term'[m] /\ i = k
      BY <1>2, <1>4, <1>6, <1>7, <1>11, <2>1
    <3>2. PICK l \in Nat : Chosen(term[n], l, k)'
      BY <1>6
    <3>3. PICK s \in 1 .. term'[m] : s = term[n]
      BY <3>1
    <3>4. Chosen(s, l, i)'
      BY <1>2, <3>1, <3>2, <3>3
    <3> QED BY <3>4
  <2>2. CASE m # n
    <3>1. PICK s \in 1 .. term[m], l \in Nat : Chosen(s, l, i)
      BY <1>1, <1>4, <1>11, <2>2 DEF AppliedChosen
    <3>2. s \in Nat /\ s \in 1 .. term'[m]
      BY <1>2, <1>7, <3>1
    <3>3. Chosen(s, l, i)'
      BY <1>10, <3>1, <3>2
    <3> QED BY <3>2, <3>3
  <2> QED BY <2>1, <2>2
<1>12. AppliedChosen'
  <2>1. ASSUME NEW m \in Node, applied'[m] > 0
        PROVE  (\E s \in 1 .. term[m], l \in Nat : Chosen(s, l, applied[m]))'
    <3>1. applied'[m] \in Nat \ {0}
      BY <1>4, <2>1 DEF RaftTypes
    <3> QED BY <1>11, <3>1
  <2>2. \E m \in Node : applied'[m] = Len(committed')
    <3>1. CASE committed' = committed /\ k <= Len(committed)
      <4>1. committed # <<>>
        BY <1>1, <1>3, <1>7, <3>1 DEF RaftTypes
      <4>2. PICK m \in Node : applied[m] = Len(committed)
        BY <1>1, <4>1 DEF AppliedChosen
      <4>3. m # n
        BY <1>3, <1>7, <3>1, <4>2
      <4> QED BY <1>4, <3>1, <4>2, <4>3
    <3>2. CASE Len(committed') = k
      BY <1>4, <3>2
    <3> QED BY <1>5, <3>1, <3>2
  <2> QED BY <2>1, <2>2 DEF AppliedChosen
<1>13. ASSUME NEW x \in Node
       PROVE  /\ applied'[x] <= Len(log[x]) /\ applied'[x] <= Len(committed')
              /\ \A j \in 1 .. applied'[x] : log[x][j] = committed'[j]
  <2>1. CASE x = n
    BY <1>4, <1>6, <2>1 DEF Agree
  <2>2. CASE x # n
    BY <1>1, <1>4, <1>5, <1>7, <1>8, <2>2 DEF AppliedBounded, AppliedAgree
  <2> QED BY <2>1, <2>2
<1>14. AppliedBounded' /\ AppliedAgree'
  BY <1>2, <1>13 DEF AppliedBounded, AppliedAgree
<1> QED BY <1>4, <1>9, <1>12, <1>14 DEF RaftInv

------------------------------------------------------------------------------
(* The invariant of Raft holds.                                                *)

LEMMA RaftInit == Init => RaftInv
<1> SUFFICES ASSUME Init PROVE RaftInv
  OBVIOUS
<1>1. RaftTypes
  BY ServiceAssumption DEF Init, RaftTypes
<1>2. \A n \in Node : Len(log[n]) = 0 /\ LastTerm(log[n]) = 0 /\ term[n] = 0 /\ applied[n] = 0 /\ ~ IsLeader(n)
  BY ServiceAssumption DEF Init, LastTerm, IsLeader
<1>3. TermsHeard /\ LogsMatch /\ AcksHeld /\ LaterLogsHold /\ AppliedBounded
  BY <1>2 DEF TermsHeard, Sorted, LogsMatch, AcksHeld, LaterLogsHold, AppliedBounded
<1>4. LeadersApart
  BY <1>2 DEF LeadersApart, Init, NoAcks
<1>5. AppliedChosen /\ AppliedAgree
  BY <1>2 DEF Init, AppliedChosen, AppliedAgree
<1> QED BY <1>1, <1>3, <1>4, <1>5 DEF RaftInv

LEMMA RaftKeeps ==
    ASSUME RaftInv, [Next]_vars
    PROVE  RaftInv'
<1>1. RaftTypes /\ TermsHeard /\ LeadersApart /\ LogsMatch /\ AcksHeld /\ LaterLogsHold
      /\ AppliedChosen /\ AppliedBounded /\ AppliedAgree
  BY DEF RaftInv
<1>2. RaftStep \/ \E c \in Write : Grows(Addr[c], c)
  BY <1>1, StepKinds
<1>3. ASSUME NEW n \in Node, NEW Q \in SUBSET Node, NEW t \in Nat, Wins(n, Q, t) PROVE RaftInv'
  <2>1. RaftTypes'
    BY <1>1, <1>3, WinsEffect
  <2>2. TermsHeard' /\ LeadersApart' /\ LogsMatch'
    BY <1>1, <1>3, WinsLogs
  <2>3. AcksHeld' /\ LaterLogsHold'
    BY <1>1, <1>3, WinsAcks
  <2>4. AppliedChosen' /\ AppliedBounded' /\ AppliedAgree'
    BY <1>1, <1>3, WinsApplied
  <2> QED BY <2>1, <2>2, <2>3, <2>4 DEF RaftInv
<1>4. ASSUME NEW n \in Node, NEW m \in Node, NEW heard \in BOOLEAN, Copies(n, m, heard) PROVE RaftInv'
  <2>1. RaftTypes'
    BY <1>1, <1>4, CopiesEffect
  <2>2. TermsHeard' /\ LeadersApart' /\ LogsMatch'
    BY <1>1, <1>4, CopiesLogs
  <2>3. AcksHeld' /\ LaterLogsHold'
    BY <1>1, <1>4, CopiesAcks
  <2>4. AppliedChosen' /\ AppliedBounded' /\ AppliedAgree'
    BY <1>1, <1>4, CopiesApplied
  <2> QED BY <2>1, <2>2, <2>3, <2>4 DEF RaftInv
<1>5. ASSUME NEW n \in Node, NEW w \in Write, Grows(n, w) PROVE RaftInv'
  <2>1. RaftTypes'
    BY <1>1, <1>5, GrowsEffect
  <2>2. TermsHeard' /\ LeadersApart' /\ LogsMatch'
    BY <1>1, <1>5, GrowsLogs
  <2>3. AcksHeld' /\ LaterLogsHold'
    BY <1>1, <1>5, GrowsAcks
  <2>4. AppliedChosen' /\ AppliedBounded' /\ AppliedAgree'
    BY <1>1, <1>5, GrowsApplied
  <2> QED BY <2>1, <2>2, <2>3, <2>4 DEF RaftInv
<1>6. \A c \in Write : Addr[c] \in Node
  BY ServiceAssumption
<1> QED BY <1>2, <1>3, <1>4, <1>5, <1>6, RecedesKeeps, CommitsKeeps DEF RaftStep

LEMMA RaftHolds == Spec => []RaftInv
<1>1. Init => RaftInv
  BY RaftInit
<1>2. RaftInv /\ [Next]_vars => RaftInv'
  BY RaftKeeps
<1> QED BY <1>1, <1>2, PTL DEF Spec


\* What the nodes have applied is the beginning of one sequence, whichever nodes win
\* elections, crash, are cut off or take over the log of another.
THEOREM OneSequence == Spec => []AppliedAgree
<1>1. RaftInv => AppliedAgree
  BY DEF RaftInv
<1> QED BY <1>1, RaftHolds, PTL

------------------------------------------------------------------------------
(* The invariant of the calls.                                                 *)

CallTypes ==
    /\ up \subseteq Node /\ initialized \subseteq Node /\ crashes \in 0 .. MaxCrashes
    /\ call \in [Call -> [pc : InHandler \cup Ended \cup {"idle", "unreachable"},
                          from : Nat, shown : Nat, term : 0 .. MaxTerm, index : Nat]]

\* a request is in no two places
WrittenOnce == \A n, m \in Node : \A j \in 1 .. Len(log[n]), k \in 1 .. Len(log[m]) :
    log[n][j].op # Blank /\ log[n][j].op = log[m][k].op => j = k

\* where the handler of a write is its entry, as long as it need not fail
Writing(c) ==
    At(c, "writing") =>
        /\ c \in Write /\ call[c].term <= term[Addr[c]] /\ call[c].index > 0
        /\ IsLeader(Addr[c]) /\ term[Addr[c]] = call[c].term =>
              /\ call[c].index <= Len(log[Addr[c]])
              /\ log[Addr[c]][call[c].index].op = c

CallRight(c) ==
    /\ call[c].pc \in {"idle", "unreachable", "arrived"} =>
          \A n \in Node : \A k \in 1 .. Len(log[n]) : log[n][k].op # c
    /\ At(c, "checked") => c \notin Write /\ call[c].from <= applied[Addr[c]]
    /\ Writing(c)
    /\ ~ At(c, "ok") => call[c].shown = 0
    /\ At(c, "ok") /\ c \in Write =>
          call[c].shown \in 1 .. Len(committed) /\ committed[call[c].shown].op = c
    \* what was known when the call was made was committed before it
    /\ \A k \in 1 .. Len(committed) : committed[k].op = c => call[c].from < k
    /\ call[c].from <= Len(committed) /\ call[c].shown <= Len(committed)

CallInv == CallTypes /\ WrittenOnce /\ \A c \in Call : CallRight(c)

\* what is committed is in a log
LEMMA CommittedLogged ==
    ASSUME RaftInv, NEW k \in 1 .. Len(committed)
    PROVE  \E m \in Node : k \in 1 .. Len(log[m]) /\ log[m][k] = committed[k]
<1>1. RaftTypes /\ AppliedChosen /\ AppliedAgree /\ AppliedBounded
  BY DEF RaftInv
<1>2. committed # <<>>
  BY <1>1 DEF RaftTypes
<1>3. PICK m \in Node : applied[m] = Len(committed)
  BY <1>1, <1>2 DEF AppliedChosen
<1>4. Len(log[m]) \in Nat /\ Len(committed) \in Nat /\ Len(committed) <= Len(log[m])
  BY <1>1, <1>3, LogType DEF AppliedBounded, RaftTypes
<1>5. k \in 1 .. Len(log[m]) /\ log[m][k] = committed[k]
  BY <1>1, <1>3, <1>4 DEF AppliedAgree
<1> QED BY <1>5

\* What the calls see of a step of Raft: terms and tables only grow, a leader that
\* stays leads with the same log, entries stay where they are or are Raft's own, and
\* one that stands in a log after all that are committed may be committed.
Advances ==
    /\ \A x \in Node : term'[x] >= term[x] /\ applied'[x] >= applied[x]
    /\ \A x \in Node : IsLeader(x)' /\ term'[x] = term[x] => IsLeader(x) /\ log'[x] = log[x]
    /\ \A x \in Node : \A k \in 1 .. Len(log'[x]) :
          log'[x][k].op = Blank \/ \E y \in Node : k \in 1 .. Len(log[y]) /\ log'[x][k] = log[y][k]
    /\ \A k \in 1 .. Len(committed') :
          \/ k \in 1 .. Len(committed) /\ committed'[k] = committed[k]
          \/ k = Len(committed) + 1 /\ \E y \in Node : k \in 1 .. Len(log[y]) /\ committed'[k] = log[y][k]
    /\ Len(committed') >= Len(committed) /\ \A k \in 1 .. Len(committed) : committed'[k] = committed[k]

LEMMA RaftAdvances ==
    ASSUME RaftInv, RaftStep
    PROVE  Advances
<1>1. RaftTypes /\ LeadersApart /\ TermsHeard
  BY DEF RaftInv
<1>2. \A x \in Node : /\ term[x] \in Nat /\ applied[x] \in Nat /\ Len(log[x]) \in Nat
                      /\ Len(committed) \in Nat
  BY <1>1, LogType DEF RaftTypes
<1>3. CASE Recedes
  <2>1. UNCHANGED <<log, applied, committed>>
    BY <1>3 DEF Recedes
  <2>2. \A x \in Node : term'[x] >= term[x] /\ (IsLeader(x)' => IsLeader(x))
    BY <1>3 DEF Recedes, IsLeader
  <2> QED BY <1>2, <2>1, <2>2 DEF Advances
<1>4. ASSUME NEW n \in Node, NEW Q \in SUBSET Node, NEW t \in Nat, Wins(n, Q, t) PROVE Advances
  <2>1. UNCHANGED <<applied, committed>> /\ n \in Q /\ term[n] < t
    BY <1>4 DEF Wins
  <2>2. \A x \in Node : term'[x] >= term[x] /\ term'[x] = IF x \in Q THEN t ELSE term[x]
    BY <1>1, <1>4, WinsEffect
  <2>3. \A x \in Node : x # n => log'[x] = log[x]
    BY <1>1, <1>4, WinsEffect
  <2>4. \A x \in Node : IsLeader(x)' <=> (x = n \/ (x \notin Q /\ IsLeader(x)))
    BY <1>1, <1>4, WinsEffect
  <2> DEFINE e == [op |-> Blank, term |-> t]
  <2>5. log'[n] = Append(log[n], e) /\ e \in Entry /\ log[n] \in Seq(Entry) /\ e.op = Blank
    BY <1>1, <1>4 DEF Wins, RaftTypes, Entry
  <2> HIDE DEF e
  <2>6. Longer(log'[n], log[n], e.term) /\ log'[n][Len(log[n]) + 1] = e
    BY <2>5, AppendedLog
  <2>7. ASSUME NEW x \in Node, NEW k \in 1 .. Len(log'[x])
        PROVE  log'[x][k].op = Blank \/ \E y \in Node : k \in 1 .. Len(log[y]) /\ log'[x][k] = log[y][k]
    <3>1. CASE x # n
      BY <2>3, <3>1
    <3>2. CASE x = n
      <4>1. k \in 1 .. Len(log[n]) \/ k = Len(log[n]) + 1
        BY <2>6, <2>7, <3>2 DEF Longer
      <4> QED BY <2>5, <2>6, <3>2, <4>1 DEF Longer
    <3> QED BY <3>1, <3>2
  <2>8. \A x \in Node : IsLeader(x)' /\ term'[x] = term[x] => IsLeader(x) /\ log'[x] = log[x]
    BY <1>2, <2>1, <2>2, <2>3, <2>4
  <2> QED BY <1>2, <2>1, <2>2, <2>7, <2>8 DEF Advances
<1>5. ASSUME NEW n \in Node, NEW m \in Node, NEW heard \in BOOLEAN, Copies(n, m, heard) PROVE Advances
  <2>1. \A x \in Node : term'[x] >= term[x] /\ log'[x] = log[From(n, m, x)] /\ From(n, m, x) \in Node
    BY <1>1, <1>5, CopiesEffect
  <2>2. \A x \in Node : IsLeader(x)' <=> (x # m /\ IsLeader(x))
    BY <1>1, <1>5, CopiesEffect
  <2>3. \A x \in Node : applied'[x] = IF x = m /\ applied[n] > applied[m] THEN applied[n] ELSE applied[x]
    BY <1>1, <1>5, CopiesEffect
  <2>4. \A x \in Node : x # m => From(n, m, x) = x
    BY DEF From
  <2>5. committed' = committed
    BY <1>5 DEF Copies
  <2>6. \A x \in Node : applied'[x] >= applied[x]
    BY <1>2, <2>3
  <2>7. \A x \in Node : IsLeader(x)' => IsLeader(x) /\ log'[x] = log[x]
    BY <2>1, <2>2, <2>4
  <2>8. \A x \in Node : \A k \in 1 .. Len(log'[x]) :
            \E y \in Node : k \in 1 .. Len(log[y]) /\ log'[x][k] = log[y][k]
    BY <2>1
  <2>9. \A x \in Node : term'[x] >= term[x]
    BY <2>1
  <2> QED BY <1>2, <2>5, <2>6, <2>7, <2>8, <2>9 DEF Advances
<1>6. ASSUME NEW n \in Node, Commits(n) PROVE Advances
  <2>1. UNCHANGED <<term, log, leader>>
    BY <1>6 DEF Commits, Commit
  <2>2. PICK k \in Nat : k = applied[n] + 1
    BY <1>2
  <2>3. applied'[n] = k /\ \A x \in Node : x # n => applied'[x] = applied[x]
    BY <1>6, <2>2, CommitsChosen
  <2>4. \/ committed' = committed
        \/ Len(committed') = Len(committed) + 1 /\ k = Len(committed) + 1
    BY <1>2, <1>6, <2>2, CommitsChosen
  <2>5. \A j \in 1 .. Len(committed) : committed'[j] = committed[j]
    BY <1>6, <2>2, CommitsChosen
  <2>6. Agree(log[n], committed', k)
    BY <1>6, <2>2, CommitsChosen
  <2>7. k \in 1 .. Len(log[n]) /\ (k = Len(committed) + 1 => committed'[k] = log[n][k])
    BY <1>2, <2>2, <2>6 DEF Agree
  <2>8. \A x \in Node : IsLeader(x)' => IsLeader(x)
    BY <2>1 DEF IsLeader
  <2>9. \A x \in Node : applied'[x] >= applied[x]
    BY <1>2, <2>2, <2>3
  <2>10. \A j \in 1 .. Len(committed') :
            \/ j \in 1 .. Len(committed) /\ committed'[j] = committed[j]
            \/ j = Len(committed) + 1 /\ \E y \in Node : j \in 1 .. Len(log[y]) /\ committed'[j] = log[y][j]
    BY <1>2, <2>4, <2>5, <2>7
  <2>11. Len(committed') >= Len(committed)
    BY <1>2, <2>4
  <2> QED BY <1>2, <2>1, <2>5, <2>8, <2>9, <2>10, <2>11 DEF Advances
<1> QED BY <1>3, <1>4, <1>5, <1>6 DEF RaftStep

LEMMA StayingAdvances ==
    ASSUME RaftInv, UNCHANGED raft
    PROVE  Advances
<1>1. \A x \in Node : term[x] \in Nat /\ applied[x] \in Nat /\ Len(log[x]) \in Nat /\ Len(committed) \in Nat
  BY LogType DEF RaftTypes, RaftInv
<1> QED BY <1>1 DEF raft, Advances, IsLeader

\* A call that a step of Raft leaves alone, or ends with an error, stays right.
LEMMA AdvancesKeeps ==
    ASSUME RaftInv, RaftInv', CallInv, Advances, CallTypes', NEW c \in Call,
           call'[c] = call[c] \/ call'[c] = Ending(call[c], "error", 0)
    PROVE  CallRight(c)'
<1> DEFINE a == Addr[c]
<1>1. CallRight(c) /\ a \in Node /\ c # Blank
  BY ServiceAssumption DEF CallInv
<1>2. /\ call[c] \in [pc : InHandler \cup Ended \cup {"idle", "unreachable"},
                      from : Nat, shown : Nat, term : 0 .. MaxTerm, index : Nat]
      /\ call[c].from \in Nat /\ call[c].shown \in Nat /\ call[c].term \in Nat /\ call[c].index \in Nat
  BY ServiceAssumption DEF CallInv, CallTypes
<1>3. /\ term[a] \in Nat /\ term'[a] \in Nat /\ applied[a] \in Nat /\ applied'[a] \in Nat
      /\ Len(committed) \in Nat /\ Len(committed') \in Nat
  BY <1>1, ServiceAssumption DEF RaftInv, RaftTypes
<1>4. term'[a] >= term[a] /\ applied'[a] >= applied[a] /\ Len(committed') >= Len(committed)
      /\ \A k \in 1 .. Len(committed) : committed'[k] = committed[k]
  BY <1>1 DEF Advances
<1>5. call'[c].from = call[c].from
  BY <1>2 DEF Ending
<1>6. ASSUME NEW k \in 1 .. Len(committed'), committed'[k].op = c PROVE call[c].from < k
  <2>1. CASE k \in 1 .. Len(committed) /\ committed'[k] = committed[k]
    BY <1>1, <1>6, <2>1 DEF CallRight
  <2>2. CASE k = Len(committed) + 1
    BY <1>1, <1>2, <1>3, <2>2 DEF CallRight
  <2> QED BY <2>1, <2>2 DEF Advances
<1>7. call[c].from <= Len(committed') /\ call[c].shown <= Len(committed')
  BY <1>1, <1>2, <1>3, <1>4 DEF CallRight
<1>8. CASE call'[c] = Ending(call[c], "error", 0)
  <2>1. call'[c].pc = "error" /\ call'[c].shown = 0
    BY <1>2, <1>8 DEF Ending
  <2> QED BY <1>3, <1>5, <1>6, <1>7, <2>1 DEF CallRight, Writing, At
<1>9. CASE call'[c] = call[c]
  <2>1. ASSUME call[c].pc \in {"idle", "unreachable", "arrived"},
               NEW n \in Node, NEW k \in 1 .. Len(log'[n])
        PROVE  log'[n][k].op # c
    <3>1. log'[n][k].op = Blank \/ \E y \in Node : k \in 1 .. Len(log[y]) /\ log'[n][k] = log[y][k]
      BY DEF Advances
    <3> QED BY <1>1, <2>1, <3>1 DEF CallRight
  <2>2. At(c, "checked") => c \notin Write /\ call[c].from <= applied'[a]
    BY <1>1, <1>2, <1>3, <1>4 DEF CallRight
  <2>3. At(c, "writing") => c \in Write /\ call[c].term <= term'[a] /\ call[c].index > 0
    BY <1>1, <1>2, <1>3, <1>4 DEF CallRight, Writing
  <2>4. ASSUME At(c, "writing"), IsLeader(a)', term'[a] = call[c].term
        PROVE  call[c].index <= Len(log'[a]) /\ log'[a][call[c].index].op = c
    <3>1. term'[a] = term[a]
      BY <1>1, <1>2, <1>3, <1>4, <2>4 DEF CallRight, Writing
    <3>2. IsLeader(a) /\ log'[a] = log[a]
      BY <1>1, <2>4, <3>1 DEF Advances
    <3> QED BY <1>1, <2>4, <3>1, <3>2 DEF CallRight, Writing
  <2>5. Writing(c)'
    BY <1>9, <2>3, <2>4 DEF Writing, At
  <2>6. At(c, "ok") /\ c \in Write =>
            call[c].shown \in 1 .. Len(committed') /\ committed'[call[c].shown].op = c
    BY <1>1, <1>3, <1>4 DEF CallRight
  <2>7. ~ At(c, "ok") => call[c].shown = 0
    BY <1>1 DEF CallRight
  <2> QED BY <1>6, <1>7, <1>9, <2>1, <2>2, <2>5, <2>6, <2>7 DEF CallRight, At
<1> QED BY <1>8, <1>9

LEMMA AdvancesOnce ==
    ASSUME WrittenOnce, Advances
    PROVE  WrittenOnce'
<1> SUFFICES ASSUME NEW n \in Node, NEW m \in Node, NEW j \in 1 .. Len(log'[n]), NEW k \in 1 .. Len(log'[m]),
                    log'[n][j].op # Blank, log'[n][j].op = log'[m][k].op
             PROVE  j = k
  BY DEF WrittenOnce
<1>1. PICK x \in Node : j \in 1 .. Len(log[x]) /\ log'[n][j] = log[x][j]
  BY DEF Advances
<1>2. PICK y \in Node : k \in 1 .. Len(log[y]) /\ log'[m][k] = log[y][k]
  BY DEF Advances
<1> QED BY <1>1, <1>2 DEF WrittenOnce

\* how much of the database the answers have shown
LEMMA KnownIsGreatest ==
    ASSUME RaftTypes, CallInv
    PROVE  /\ Known \in Nat /\ Known <= Len(committed)
           /\ \A c \in Call : call[c].shown <= Known
           /\ Known = 0 \/ \E c \in Call : call[c].shown = Known
<1> DEFINE S == {0} \cup {call[c].shown : c \in Call}
           B == Len(committed)
           T == {b \in Nat : B - b \in S}
<1>1. B \in Nat /\ \A s \in S : s \in Nat /\ s <= B
  <2>1. B \in Nat
    BY DEF RaftTypes
  <2>2. \A c \in Call : call[c].shown \in Nat /\ call[c].shown <= B
    BY DEF CallInv, CallTypes, CallRight
  <2> QED BY <2>1, <2>2
<1>2. B \in T
  BY <1>1
<1>3. PICK b \in T : \A y \in T : ~ (y < b)
  <2>1. T \subseteq Nat /\ T # {}
    BY <1>2
  <2>2. PICK b \in T : \A y \in T : ~ (<<y, b>> \in OpToRel(<, Nat))
    BY <2>1, NatLessThanWellFounded, WFMin
  <2>3. \A y \in T : y < b => <<y, b>> \in OpToRel(<, Nat)
    BY <2>1 DEF OpToRel
  <2> QED BY <2>2, <2>3
<1>4. B - b \in S /\ \A s \in S : s <= B - b
  <2>1. \A s \in S : B - s \in T
    BY <1>1
  <2> QED BY <1>1, <1>3, <2>1
<1>5. \E k \in S : \A c \in Call : call[c].shown <= k
  BY <1>4
<1>6. Known \in S /\ \A c \in Call : call[c].shown <= Known
  BY <1>5 DEF Known
<1> QED BY <1>1, <1>6

\* a leader that a majority confirms, and that has committed in its term, has applied
\* all there is
LEMMA ConfirmedIsCurrent ==
    ASSUME RaftInv, NEW n \in Node, Confirmed(n)
    PROVE  applied[n] = Len(committed)
<1> DEFINE L == Len(committed)
<1>1. RaftTypes /\ TermsHeard /\ IsLeader(n) /\ Owns(n) /\ AppliedChosen /\ AppliedAgree /\ AppliedBounded
  BY DEF RaftInv, LeadersApart, Confirmed, Leads, IsLeader
<1>2. \A x \in Node : term[x] \in Nat /\ applied[x] \in Nat /\ Len(log[x]) \in Nat /\ L \in Nat
  BY <1>1, LogType DEF RaftTypes
<1>3. applied[n] > 0 /\ applied[n] <= L /\ applied[n] <= Len(log[n]) /\ log[n][applied[n]].term = term[n]
  BY <1>1 DEF Confirmed, AppliedAgree, AppliedBounded
<1>4. committed # <<>>
  BY <1>1, <1>2, <1>3 DEF RaftTypes
<1>5. PICK m \in Node : applied[m] = L
  BY <1>1, <1>4 DEF AppliedChosen
<1>6. PICK s \in 1 .. term[m], l \in Nat : Chosen(s, l, L)
  BY <1>1, <1>2, <1>3, <1>5 DEF AppliedChosen
<1>7. s \in Nat /\ s <= term[n]
  <2>1. PICK Q \in Majority : \A q \in Q : term[q] >= s
    BY <1>6 DEF Chosen
  <2> DEFINE P == {x \in up : term[x] <= term[n]}
  <2>2. P \in Majority
    BY DEF Confirmed
  <2>3. PICK q \in Node : q \in P /\ q \in Q
    BY <2>1, <2>2, MajoritiesMeet
  <2> QED BY <1>2, <1>6, <2>1, <2>3
<1>8. Agree(log[n], committed, L)
  BY <1>1, <1>2, <1>6, <1>7, LeaderReaches
<1>9. CASE s = term[n]
  BY <1>1, <1>2, <1>3, <1>6, <1>9 DEF Chosen
<1>10. ASSUME s < term[n], applied[n] < L PROVE FALSE
  <2>1. L \in 1 .. Len(log[n]) /\ applied[n] \in 1 .. Len(log[n]) /\ log[n][L] = committed[L]
    BY <1>2, <1>3, <1>8 DEF Agree
  <2>2. log[n][applied[n]].term <= log[n][L].term
    BY <1>1, <1>2, <1>10, <2>1 DEF TermsHeard, Sorted
  <2>3. committed[L].term <= s /\ log[n][L].term \in Nat
    BY <1>1, <1>6, <2>1, LogType DEF Chosen
  <2> QED BY <1>2, <1>3, <1>7, <1>10, <2>1, <2>2, <2>3
<1> QED BY <1>2, <1>3, <1>7, <1>9, <1>10

\* the entry a write waited for, once it is answered
LEMMA AnsweredIsCommitted ==
    ASSUME RaftInv, CallInv, NEW c \in Call, AnswerWrite(c)
    PROVE  /\ c \in Write /\ call[c].index \in 1 .. Len(committed)
           /\ committed[call[c].index].op = c /\ call[c].from < call[c].index
<1> DEFINE a == Addr[c]  i == call[c].index
<1>1. a \in Node /\ RaftTypes /\ AppliedAgree /\ AppliedBounded /\ CallRight(c) /\ At(c, "writing")
  BY ServiceAssumption DEF RaftInv, CallInv, AnswerWrite
<1>2. IsLeader(a) /\ term[a] = call[c].term /\ applied[a] >= i
  BY DEF AnswerWrite, Deposed, Leads, IsLeader, IsApplied
<1>3. c \in Write /\ i > 0 /\ log[a][i].op = c
  BY <1>1, <1>2 DEF CallRight, Writing
<1>4. i \in Nat /\ applied[a] \in Nat /\ Len(committed) \in Nat
  BY <1>1 DEF RaftTypes, CallInv, CallTypes
<1>5. i \in 1 .. applied[a] /\ applied[a] <= Len(committed)
  BY <1>1, <1>2, <1>3, <1>4 DEF AppliedAgree
<1>6. committed[i] = log[a][i] /\ i \in 1 .. Len(committed)
  BY <1>1, <1>4, <1>5 DEF AppliedAgree
<1> QED BY <1>1, <1>3, <1>6 DEF CallRight

LEMMA EndingType ==
    ASSUME NEW P, NEW T, NEW h \in [pc : P, from : Nat, shown : Nat, term : T, index : Nat],
           NEW p \in P, NEW k \in Nat, 0 \in T
    PROVE  Ending(h, p, k) \in [pc : P, from : Nat, shown : Nat, term : T, index : Nat]
BY DEF Ending

LEMMA CallTypesKept ==
    ASSUME RaftTypes, LeadersApart, CallInv, [Next]_vars
    PROVE  CallTypes'
<1> DEFINE Handler == [pc : InHandler \cup Ended \cup {"idle", "unreachable"},
                       from : Nat, shown : Nat, term : 0 .. MaxTerm, index : Nat]
<1>1. CallTypes /\ call \in [Call -> Handler]
  BY DEF CallInv, CallTypes
<1>2. \A h \in Handler : \A k \in Nat :
         Ending(h, "error", 0) \in Handler /\ Ending(h, "ok", k) \in Handler
  <2> SUFFICES ASSUME NEW h \in Handler, NEW k \in Nat, NEW pc \in Ended PROVE Ending(h, pc, k) \in Handler
    BY DEF Ended
  <2>1. pc \in InHandler \cup Ended \cup {"idle", "unreachable"}
    OBVIOUS
  <2>2. 0 \in 0 .. MaxTerm
    BY ServiceAssumption
  <2> QED BY <2>1, <2>2, EndingType, ZenonT(60)
<1>3. ASSUME NEW c \in Call, CallStep(c) PROVE call' \in [Call -> Handler]
  <2>1. PICK h \in Handler : call' = [call EXCEPT ![c] = h]
    <3>1. CASE Connect(c)
      <4>1. Known \in Nat
        BY KnownIsGreatest
      <4> DEFINE h == [call[c] EXCEPT !.pc = IF Addr[c] \in up THEN "arrived" ELSE "unreachable", !.from = Known]
      <4>2. h \in Handler
        BY <1>1, <4>1 DEF InHandler
      <4>3. call' = [call EXCEPT ![c] = h]
        BY <1>1, <3>1 DEF Connect
      <4> QED BY <4>2, <4>3
    <3>2. CASE CheckLeader(c)
      <4> DEFINE h == [call[c] EXCEPT !.pc = "checked"]
      <4>1. h \in Handler
        BY <1>1 DEF InHandler
      <4>2. call' = [call EXCEPT ![c] = h]
        BY <1>1, <3>2 DEF CheckLeader, Go
      <4> QED BY <4>1, <4>2
    <3>3. CASE AnswerWrite(c)
      <4>1. call' = [call EXCEPT ![c] = Ending(call[c], "ok", call[c].index)] /\ call[c].index \in Nat
        BY <1>1, <3>3 DEF AnswerWrite, End
      <4> QED BY <1>1, <1>2, <4>1
    <3>4. CASE ReadRows(c)
      <4>1. \/ call' = [call EXCEPT ![c] = Ending(call[c], "ok", applied[Addr[c]])]
            \/ call' = [call EXCEPT ![c] = Ending(call[c], "error", 0)]
        BY <3>4 DEF ReadRows, End
      <4>2. applied[Addr[c]] \in Nat
        BY ServiceAssumption DEF RaftTypes
      <4> QED BY <1>1, <1>2, <4>1, <4>2
    <3>5. CASE NotConnected(c) \/ Redirect(c) \/ WriteFails(c) \/ Fails(c)
      <4>1. call' = [call EXCEPT ![c] = Ending(call[c], "error", 0)]
        BY <3>5 DEF NotConnected, Redirect, WriteFails, Fails, End
      <4> QED BY <1>1, <1>2, <4>1
    <3> QED BY <1>3, <3>1, <3>2, <3>3, <3>4, <3>5 DEF CallStep
  <2> QED BY <1>1, <2>1
<1>4. ASSUME NEW c \in Call, ClientWrite(c) PROVE call' \in [Call -> Handler]
  <2> DEFINE n == Addr[c]
             h == [call[c] EXCEPT !.pc = "writing", !.term = term[n], !.index = Len(log[n]) + 1]
  <2>1. n \in Node /\ term[n] \in 0 .. MaxTerm /\ Len(log[n]) + 1 \in Nat
    BY ServiceAssumption, LogType DEF RaftTypes
  <2>2. h \in Handler
    BY <1>1, <2>1 DEF InHandler
  <2>3. call' = [call EXCEPT ![c] = h]
    BY <1>1, <1>4 DEF ClientWrite
  <2> QED BY <1>1, <2>2, <2>3
<1>5. ASSUME NEW n \in Node, Crash(n) PROVE call' \in [Call -> Handler]
  BY <1>1, <1>2, <1>5 DEF Crash
<1>6. call' \in [Call -> Handler]
  BY <1>1, <1>3, <1>4, <1>5, StepKinds, ServiceAssumption
<1>7. up' \subseteq Node /\ initialized' \subseteq Node /\ crashes' \in 0 .. MaxCrashes
  <2>0. up \subseteq Node /\ initialized \subseteq Node /\ crashes \in 0 .. MaxCrashes /\ MaxCrashes \in Nat
    BY <1>1, ServiceAssumption DEF CallTypes
  <2>1. CASE UNCHANGED vars
    BY <2>0, <2>1 DEF vars, raftVars
  <2>2. ASSUME NEW c \in Call, Connect(c) \/ Handle(c) \/ Fails(c)
        PROVE  UNCHANGED <<up, initialized, crashes>>
    BY <2>2, CallsLeaveRaft DEF CallStep, Handle, ClientWrite
  <2>3. ASSUME NEW n \in Node, Initialize(n) \/ Commit(n) \/ Restart(n)
        PROVE  up' \subseteq Node /\ initialized' \subseteq Node /\ crashes' = crashes
    BY <2>0, <2>3 DEF Initialize, Commit, Restart, raftVars
  <2>4. ASSUME NEW n \in Node, Crash(n)
        PROVE  up' \subseteq Node /\ initialized' \subseteq Node /\ crashes' \in 0 .. MaxCrashes
    BY <2>0, <2>4 DEF Crash
  <2>5. ASSUME NEW n \in Node, NEW voters \in SUBSET Node, NEW won \in BOOLEAN, Campaign(n, voters, won)
        PROVE  UNCHANGED <<up, initialized, crashes>>
    BY <2>5 DEF Campaign
  <2>6. ASSUME NEW n \in Node, NEW m \in Node, StepDown(n, m)
        PROVE  UNCHANGED <<up, initialized, crashes>>
    BY <2>6 DEF StepDown
  <2>7. ASSUME NEW n \in Node, NEW m \in Node, NEW o \in Outcome, AppendEntries(n, m, o)
        PROVE  up' = up /\ initialized' \subseteq Node /\ crashes' = crashes
    BY <2>0, <2>7 DEF AppendEntries
  <2> QED BY <2>0, <2>1, <2>2, <2>3, <2>4, <2>5, <2>6, <2>7 DEF Next
<1> QED BY <1>6, <1>7 DEF CallTypes

\* no two calls are changed by a step of one
LEMMA OthersKept ==
    ASSUME RaftInv, RaftInv', CallInv, Advances, CallTypes', NEW c \in Call,
           \A d \in Call \ {c} : call'[d] = call[d], CallRight(c)'
    PROVE  \A d \in Call : CallRight(d)'
BY AdvancesKeeps

LEMMA CallStepKeeps ==
    ASSUME RaftInv, RaftInv', CallInv, CallTypes', NEW c \in Call, CallStep(c)
    PROVE  CallInv'
<1> DEFINE a == Addr[c]
<1>1. UNCHANGED raft /\ Advances /\ UNCHANGED <<log, committed, applied, term, leader>>
  BY CallsLeaveRaft, StayingAdvances DEF raft
<1>2. WrittenOnce'
  BY <1>1, AdvancesOnce DEF CallInv
<1>3. call[c] \in [pc : InHandler \cup Ended \cup {"idle", "unreachable"},
                   from : Nat, shown : Nat, term : 0 .. MaxTerm, index : Nat]
      /\ CallRight(c) /\ call \in [Call -> [pc : InHandler \cup Ended \cup {"idle", "unreachable"},
                   from : Nat, shown : Nat, term : 0 .. MaxTerm, index : Nat]]
  BY DEF CallInv, CallTypes
<1>4. Len(committed) \in Nat /\ applied[a] \in Nat /\ applied[a] <= Len(committed)
  BY ServiceAssumption DEF RaftInv, RaftTypes, AppliedAgree
<1>5. CASE Connect(c)
  <2>1. At(c, "idle") /\ \A n \in Node : \A k \in 1 .. Len(log[n]) : log[n][k].op # c
    BY <1>3, <1>5 DEF Connect, CallRight, At
  <2>2. \A k \in 1 .. Len(committed) : committed[k].op # c
    BY <2>1, CommittedLogged
  <2>3. Known \in Nat /\ Known <= Len(committed)
    BY KnownIsGreatest DEF RaftInv
  <2>4. call'[c].pc \in {"arrived", "unreachable"} /\ call'[c].from = Known /\ call'[c].shown = call[c].shown
    BY <1>3, <1>5 DEF Connect
  <2>5. call[c].shown = 0
    BY <1>3, <2>1 DEF CallRight, At
  <2>6. CallRight(c)'
    BY <1>1, <1>4, <2>1, <2>2, <2>3, <2>4, <2>5 DEF CallRight, Writing, At
  <2>7. \A d \in Call \ {c} : call'[d] = call[d]
    BY <1>3, <1>5 DEF Connect
  <2> QED BY <1>1, <1>2, <2>6, <2>7, OthersKept DEF CallInv
<1>6. CASE CheckLeader(c)
  <2>1. applied[a] = Len(committed) /\ c \notin Write
    BY <1>6, ConfirmedIsCurrent, ServiceAssumption DEF CheckLeader, EnsureLeaderRead
  <2>2. call'[c] = [call[c] EXCEPT !.pc = "checked"] /\ \A d \in Call \ {c} : call'[d] = call[d]
    BY <1>3, <1>6 DEF CheckLeader, Go
  <2>3. call'[c].pc = "checked" /\ call'[c].from = call[c].from /\ call'[c].shown = call[c].shown
    BY <1>3, <2>2
  <2>4. call[c].shown = 0
    BY <1>3, <1>6 DEF CallRight, At, CheckLeader
  <2>5. CallRight(c)'
    BY <1>1, <1>3, <1>4, <2>1, <2>3, <2>4 DEF CallRight, Writing, At
  <2> QED BY <1>1, <1>2, <2>2, <2>5, OthersKept DEF CallInv
<1>7. ASSUME NEW k \in 0 .. Len(committed), call' = [call EXCEPT ![c] = Ending(call[c], "ok", k)],
             c \in Write => k > 0 /\ committed[k].op = c
      PROVE  CallInv'
  <2>1. call'[c] = Ending(call[c], "ok", k) /\ \A d \in Call \ {c} : call'[d] = call[d]
    BY <1>3, <1>7
  <2>2. call'[c].pc = "ok" /\ call'[c].shown = k /\ call'[c].from = call[c].from
    BY <1>3, <2>1 DEF Ending
  <2>3. c \in Write => k \in 1 .. Len(committed)
    BY <1>4, <1>7
  <2>4. CallRight(c)'
    BY <1>1, <1>3, <1>4, <1>7, <2>2, <2>3 DEF CallRight, Writing, At
  <2> QED BY <1>1, <1>2, <2>1, <2>4, OthersKept DEF CallInv
<1>8. CASE AnswerWrite(c)
  <2>1. /\ call[c].index \in 1 .. Len(committed) /\ committed[call[c].index].op = c
        /\ call' = [call EXCEPT ![c] = Ending(call[c], "ok", call[c].index)]
    BY <1>8, AnsweredIsCommitted DEF AnswerWrite, End
  <2>2. call[c].index \in 0 .. Len(committed) /\ call[c].index > 0
    BY <1>4, <2>1
  <2> QED BY <1>7, <2>1, <2>2
<1>9. ASSUME call' = [call EXCEPT ![c] = Ending(call[c], "error", 0)] PROVE CallInv'
  <2>1. \A d \in Call : call'[d] = call[d] \/ call'[d] = Ending(call[d], "error", 0)
    BY <1>3, <1>9
  <2> QED BY <1>1, <1>2, <2>1, AdvancesKeeps DEF CallInv
<1>10. CASE ReadRows(c)
  <2>1. c \notin Write
    BY <1>3, <1>10 DEF ReadRows, CallRight
  <2>2. \/ call' = [call EXCEPT ![c] = Ending(call[c], "ok", applied[a])]
        \/ call' = [call EXCEPT ![c] = Ending(call[c], "error", 0)]
    BY <1>10 DEF ReadRows, End
  <2> QED BY <1>4, <1>7, <1>9, <2>1, <2>2
<1>11. CASE NotConnected(c) \/ Redirect(c) \/ WriteFails(c) \/ Fails(c)
  BY <1>9, <1>11 DEF NotConnected, Redirect, WriteFails, Fails, End
<1> QED BY <1>5, <1>6, <1>8, <1>10, <1>11 DEF CallStep

LEMMA ClientWriteKeeps ==
    ASSUME RaftInv, RaftInv', CallInv, CallTypes', NEW c \in Write, Grows(Addr[c], c), ClientWrite(c)
    PROVE  CallInv'
<1> DEFINE a == Addr[c]  N == Len(log[a])
<1>1. a \in Node /\ c \in Call /\ c # Blank /\ CallRight(c) /\ RaftTypes /\ LeadersApart
      /\ \A d \in Call : CallRight(d) /\ d # Blank
  BY ServiceAssumption DEF CallInv, RaftInv
<1>2. Longer(log'[a], log[a], term[a]) /\ log'[a][N + 1].op = c
  BY <1>1, GrowsEffect
<1>3. \A x \in Node : x # a => log'[x] = log[x]
  BY <1>1, GrowsEffect
<1>4. /\ UNCHANGED <<term, leader, applied, committed>> /\ At(c, "arrived")
      /\ \A d \in Call \ {c} : call'[d] = call[d]
      /\ call'[c] = [call[c] EXCEPT !.pc = "writing", !.term = term[a], !.index = N + 1]
  BY <1>1 DEF Grows, ClientWrite, CallInv, CallTypes
<1>5. \A n \in Node : \A k \in 1 .. Len(log[n]) : log[n][k].op # c
  BY <1>1, <1>4 DEF CallRight, At
<1>6. ASSUME NEW x \in Node, NEW k \in 1 .. Len(log'[x])
      PROVE  \/ k \in 1 .. Len(log[x]) /\ log'[x][k] = log[x][k]
             \/ x = a /\ k = N + 1 /\ log'[x][k].op = c
  BY <1>2, <1>3, SMTT(30) DEF Longer
<1>7. WrittenOnce'
  <2> SUFFICES ASSUME NEW n \in Node, NEW m \in Node, NEW j \in 1 .. Len(log'[n]), NEW k \in 1 .. Len(log'[m]),
                      log'[n][j].op # Blank, log'[n][j].op = log'[m][k].op
               PROVE  j = k
    BY DEF WrittenOnce
  <2>1. CASE j \in 1 .. Len(log[n]) /\ log'[n][j] = log[n][j] /\ k \in 1 .. Len(log[m]) /\ log'[m][k] = log[m][k]
    BY <2>1 DEF CallInv, WrittenOnce
  <2>2. \/ j \in 1 .. Len(log[n]) /\ log'[n][j] = log[n][j]
        \/ j = N + 1 /\ log'[n][j].op = c
    BY <1>6
  <2>3. \/ k \in 1 .. Len(log[m]) /\ log'[m][k] = log[m][k]
        \/ k = N + 1 /\ log'[m][k].op = c
    BY <1>6
  <2>4. \A x \in Node : \A i \in 1 .. Len(log[x]) : log[x][i].op # c
    BY <1>5
  <2> QED BY <2>1, <2>2, <2>3, <2>4
<1>8. CallRight(c)'
  <2>1. /\ call'[c].pc = "writing" /\ call'[c].from = call[c].from /\ call'[c].shown = call[c].shown
        /\ call'[c].term = term[a] /\ call'[c].index = N + 1
    BY <1>1, <1>4 DEF CallInv, CallTypes
  <2>2. call[c].shown = 0
    BY <1>1, <1>4 DEF CallRight, At
  <2>3. N \in Nat /\ term[a] \in Nat /\ N + 1 <= Len(log'[a])
    BY <1>1, <1>2, LogType DEF Longer
  <2>4. Writing(c)'
    BY <1>2, <1>4, <2>1, <2>3 DEF Writing
  <2> QED BY <1>1, <1>4, <2>1, <2>2, <2>4 DEF CallRight, At
<1>9. ASSUME NEW d \in Call, d # c PROVE CallRight(d)'
  <2>1. CallRight(d) /\ call'[d] = call[d] /\ Addr[d] \in Node
    BY <1>1, <1>4, <1>9, ServiceAssumption
  <2>2. call[d].pc \in {"idle", "unreachable", "arrived"} =>
            \A n \in Node : \A k \in 1 .. Len(log'[n]) : log'[n][k].op # d
    BY <1>6, <1>9, <2>1 DEF CallRight
  <2>3. Writing(d)'
    <3>1. ASSUME At(d, "writing"), IsLeader(Addr[d]), term[Addr[d]] = call[d].term
          PROVE  call[d].index <= Len(log'[Addr[d]]) /\ log'[Addr[d]][call[d].index].op = d
      <4>1. /\ call[d].index \in 1 .. Len(log[Addr[d]])
            /\ log[Addr[d]][call[d].index].op = d
        BY <2>1, <3>1 DEF CallRight, Writing, CallInv, CallTypes
      <4>2. CASE Addr[d] = a
        BY <1>2, <4>1, <4>2 DEF Longer
      <4>3. CASE Addr[d] # a
        BY <1>3, <2>1, <4>1, <4>3
      <4> QED BY <4>2, <4>3
    <3> QED BY <1>4, <2>1, <3>1 DEF CallRight, Writing, At, IsLeader
  <2> QED BY <1>4, <2>1, <2>2, <2>3 DEF CallRight, At
<1> QED BY <1>7, <1>8, <1>9 DEF CallInv

LEMMA CallsKeep ==
    ASSUME RaftInv, RaftInv', CallInv, [Next]_vars
    PROVE  CallInv'
<1>1. RaftTypes /\ LeadersApart
  BY DEF RaftInv
<1>2. CallTypes'
  BY <1>1, CallTypesKept
<1>3. ASSUME RaftStep, \A c \in Call : call'[c] = call[c] \/ call'[c] = Ending(call[c], "error", 0)
      PROVE  CallInv'
  <2>1. Advances
    BY <1>3, RaftAdvances
  <2>2. WrittenOnce'
    BY <2>1, AdvancesOnce DEF CallInv
  <2> QED BY <1>2, <1>3, <2>1, <2>2, AdvancesKeeps DEF CallInv
<1>4. CASE \E n \in Node : Crash(n)
  <2>1. \A c \in Call : call'[c] = call[c] \/ call'[c] = Ending(call[c], "error", 0)
    BY <1>4 DEF Crash
  <2>2. RaftStep
    BY <1>1, <1>4, CrashKind
  <2> QED BY <1>3, <2>1, <2>2
<1>5. CASE \E c \in Call : CallStep(c)
  BY <1>2, <1>5, CallStepKeeps
<1>6. CASE \E c \in Write : Grows(Addr[c], c) /\ ClientWrite(c)
  BY <1>2, <1>6, ClientWriteKeeps
<1> QED BY <1>1, <1>3, <1>4, <1>5, <1>6, StepKinds

LEMMA CallsInit == Init => CallInv
<1> SUFFICES ASSUME Init PROVE CallInv
  OBVIOUS
<1>1. CallTypes
  BY ServiceAssumption DEF Init, CallTypes, NotCalled
<1>2. \A n \in Node : Len(log[n]) = 0
  BY DEF Init
<1>3. WrittenOnce
  BY <1>2 DEF WrittenOnce
<1>4. \A c \in Call : call[c] = NotCalled /\ committed = <<>>
  BY DEF Init
<1>5. \A c \in Call : CallRight(c)
  BY <1>2, <1>4 DEF CallRight, Writing, At, NotCalled
<1> QED BY <1>1, <1>3, <1>5 DEF CallInv

ServiceInv == RaftInv /\ CallInv

LEMMA ServiceHolds == Spec => []ServiceInv
<1>1. Init => ServiceInv
  BY RaftInit, CallsInit DEF ServiceInv
<1>2. ServiceInv /\ [Next]_vars => ServiceInv'
  BY RaftKeeps, CallsKeep DEF ServiceInv
<1> QED BY <1>1, <1>2, PTL DEF Spec

------------------------------------------------------------------------------
(* What holds of the service.                                                  *)

\* Every part of the state is of its type; no node is taken to have acknowledged,
\* or has applied, more than the log has, and no call has been shown more than is
\* committed.
THEOREM TypeCorrect == Spec => []TypeOK
<1>1. ServiceInv => TypeOK
  <2> SUFFICES ASSUME ServiceInv PROVE TypeOK
    OBVIOUS
  <2>1. RaftTypes /\ CallTypes /\ AppliedBounded /\ AcksHeld /\ LeadersApart
    BY DEF ServiceInv, RaftInv, CallInv
  <2>2. ASSUME NEW n \in Node, NEW m \in Node PROVE acked[n][m] <= Len(log[n])
    <3>1. CASE IsLeader(n)
      BY <2>1, <3>1 DEF AcksHeld, Holds
    <3>2. CASE ~ IsLeader(n)
      <4>1. acked[n][m] = 0 /\ Len(log[n]) \in Nat
        BY <2>1, <3>2, LogType DEF LeadersApart, NoAcks
      <4> QED BY <4>1
    <3> QED BY <3>1, <3>2
  <2>3. \A c \in Call : call[c].from <= Len(committed) /\ call[c].shown <= Len(committed)
    BY DEF ServiceInv, CallInv, CallRight
  <2> QED BY <2>1, <2>2, <2>3 DEF TypeOK, RaftTypes, CallTypes, AppliedBounded
<1> QED BY <1>1, ServiceHolds, PTL

\* A write that was answered is in the logs of a majority, where its answer saw it.
THEOREM AnsweredIsKept == Spec => []AcknowledgedKept
<1>1. ServiceInv => AcknowledgedKept
  <2> SUFFICES ASSUME ServiceInv, NEW c \in Write, At(c, "ok")
               PROVE  {n \in Node : call[c].shown <= Len(log[n]) /\ log[n][call[c].shown].op = c} \in Majority
    BY DEF AcknowledgedKept
  <2> DEFINE k == call[c].shown  L == Len(committed)
  <2>1. RaftInv /\ RaftTypes /\ AppliedChosen
    BY DEF ServiceInv, RaftInv
  <2>2. k \in 1 .. L /\ committed[k].op = c /\ L \in Nat
    BY <2>1, ServiceAssumption DEF ServiceInv, CallInv, CallRight, RaftTypes
  <2>3. committed # <<>>
    BY <2>1, <2>2 DEF RaftTypes
  <2>4. PICK m \in Node : applied[m] = L
    BY <2>1, <2>3 DEF AppliedChosen
  <2>5. PICK s \in 1 .. term[m], l \in Nat : Chosen(s, l, L)
    BY <2>1, <2>2, <2>4 DEF AppliedChosen
  <2>6. PICK Q \in Majority : \A q \in Q : Reaches(log[q], s, l)
    BY <2>5 DEF Chosen
  <2>7. ASSUME NEW q \in Q PROVE q \in Node /\ k <= Len(log[q]) /\ log[q][k].op = c
    <3>1. q \in Node
      BY DEF Majority
    <3>2. Agree(log[q], committed, L) /\ Len(log[q]) \in Nat
      BY <2>1, <2>5, <2>6, <3>1, LogType DEF Chosen
    <3> QED BY <2>2, <3>1, <3>2 DEF Agree
  <2> QED BY <2>7, MajorityGrows
<1> QED BY <1>1, ServiceHolds, PTL

------------------------------------------------------------------------------
(* The replicated database is one database.                                    *)

\* the state of ProductDatabase that a state of the service stands for
Order == [k \in DOMAIN committed |-> committed[k].op]
States == [c \in Call |-> StateOf(call[c].pc)]
Froms == [c \in Call |-> call[c].from]
Showns == [c \in Call |-> call[c].shown]

LEMMA OrderType ==
    ASSUME RaftTypes
    PROVE  /\ Order \in Seq(Write \cup {Blank}) /\ Len(Order) = Len(committed) /\ Len(committed) \in Nat
           /\ \A k \in 1 .. Len(committed) : Order[k] = committed[k].op
<1>1. committed \in Seq(Entry) /\ Len(committed) \in Nat /\ DOMAIN committed = 1 .. Len(committed)
  BY DEF RaftTypes
<1>2. \A k \in 1 .. Len(committed) : committed[k] \in Entry
  BY <1>1
<1>3. \A e \in Entry : e.op \in Write \cup {Blank}
  BY DEF Entry
<1>4. Order = [k \in 1 .. Len(committed) |-> committed[k].op]
  BY <1>1 DEF Order
<1>5. \A k \in 1 .. Len(committed) : committed[k].op \in Write \cup {Blank}
  BY <1>2, <1>3
<1> QED BY <1>1, <1>4, <1>5

\* a step that appends to what is committed appends to the order
LEMMA OrderAppends ==
    ASSUME RaftTypes, RaftTypes', NEW w \in Write \cup {Blank},
           Len(committed') = Len(committed) + 1, \A k \in 1 .. Len(committed) : committed'[k] = committed[k],
           committed'[Len(committed) + 1].op = w
    PROVE  Order' = Append(Order, w)
<1>1. Order \in Seq(Write \cup {Blank}) /\ Len(Order) = Len(committed) /\ Len(committed) \in Nat
  BY OrderType
<1>2. \A k \in 1 .. Len(committed) : Order[k] = committed[k].op
  BY OrderType
<1>3. DOMAIN committed' = 1 .. Len(committed) + 1
  BY DEF RaftTypes
<1>4. Order' = [k \in 1 .. Len(committed) + 1 |-> committed'[k].op]
  BY <1>3 DEF Order
<1>5. \A k \in 1 .. Len(committed) + 1 : committed'[k].op = IF k = Len(committed) + 1 THEN w ELSE Order[k]
  BY <1>1, <1>2
<1>6. Order' \in Seq(Write \cup {Blank}) /\ Len(Order') = Len(committed) + 1
  <2>1. \A k \in 1 .. Len(committed) + 1 : committed'[k].op \in Write \cup {Blank}
    <3>1. \A k \in 1 .. Len(committed) + 1 : committed'[k] \in Entry
      BY <1>3 DEF RaftTypes
    <3> QED BY <3>1 DEF Entry
  <2> QED BY <1>1, <1>4, <2>1
<1>7. /\ Append(Order, w) \in Seq(Write \cup {Blank}) /\ Len(Append(Order, w)) = Len(Order) + 1
      /\ \A k \in 1 .. Len(Order) : Append(Order, w)[k] = Order[k]
      /\ Append(Order, w)[Len(Order) + 1] = w
  BY <1>1, AppendProperties
<1>8. Len(Order') = Len(Append(Order, w))
  BY <1>1, <1>6, <1>7
<1>9. \A k \in 1 .. Len(Order') : Order'[k] = Append(Order, w)[k]
  <2> SUFFICES ASSUME NEW k \in 1 .. Len(committed) + 1 PROVE Order'[k] = Append(Order, w)[k]
    BY <1>6
  <2>1. Order'[k] = IF k = Len(committed) + 1 THEN w ELSE Order[k]
    BY <1>4, <1>5
  <2>2. k = Len(committed) + 1 \/ k \in 1 .. Len(committed)
    BY <1>1
  <2> QED BY <1>1, <1>7, <2>1, <2>2
<1> QED BY <1>6, <1>7, <1>8, <1>9, SeqEqual

LEMMA StatesOf ==
    ASSUME CallTypes
    PROVE  \A c \in Call : /\ States[c] = StateOf(call[c].pc)
                           /\ Froms[c] = call[c].from /\ Froms[c] \in Nat
                           /\ Showns[c] = call[c].shown /\ Showns[c] \in Nat
BY DEF CallTypes, States, Froms, Showns

\* a step of one call
LEMMA OneState ==
    ASSUME CallTypes, NEW c \in Call, \A d \in Call \ {c} : call'[d] = call[d]
    PROVE  /\ States' = [States EXCEPT ![c] = StateOf(call'[c].pc)]
           /\ Froms' = [Froms EXCEPT ![c] = call'[c].from]
           /\ Showns' = [Showns EXCEPT ![c] = call'[c].shown]
BY DEF States, Froms, Showns

LEMMA Stutters ==
    ASSUME committed' = committed,
           \A c \in Call : /\ StateOf(call'[c].pc) = StateOf(call[c].pc)
                           /\ call'[c].from = call[c].from /\ call'[c].shown = call[c].shown
    PROVE  UNCHANGED PD!vars
BY DEF PD!vars

LEMMA EndingFields ==
    ASSUME NEW P, NEW T, NEW h \in [pc : P, from : Nat, shown : Nat, term : T, index : Nat], NEW p, NEW k
    PROVE  Ending(h, p, k).pc = p /\ Ending(h, p, k).from = h.from /\ Ending(h, p, k).shown = k
BY DEF Ending

LEMMA RefinesInit == Init => PD!Init
<1> SUFFICES ASSUME Init PROVE PD!Init
  OBVIOUS
<1>1. \A c \in Call : call[c].pc = "idle" /\ call[c].from = 0 /\ call[c].shown = 0
  BY DEF Init, NotCalled
<1>2. committed = <<>>
  BY DEF Init
<1>3. \A c \in Call : StateOf(call[c].pc) = "idle"
  BY <1>1 DEF StateOf, InHandler
<1>4. [k \in DOMAIN committed |-> committed[k].op] = <<>>
  BY <1>2
<1> QED BY <1>1, <1>3, <1>4 DEF PD!Init

\* Committing an entry is the moment its write takes effect.
LEMMA RefinesCommit ==
    ASSUME ServiceInv, ServiceInv', RaftStep, call' = call
    PROVE  [PD!Next]_(PD!vars)
<1>1. RaftInv /\ RaftTypes /\ RaftTypes' /\ CallInv /\ Advances
  BY RaftAdvances DEF ServiceInv, RaftInv
<1>2. Len(committed) \in Nat /\ Len(committed') \in Nat
  BY <1>1 DEF RaftTypes
<1>3. CASE Len(committed') = Len(committed)
  <2>1. \A k \in 1 .. Len(committed) : committed'[k] = committed[k]
    BY <1>1 DEF Advances
  <2>2. committed' = committed
    <3>1. committed \in Seq(Entry) /\ committed' \in Seq(Entry)
      BY <1>1 DEF RaftTypes
    <3> QED BY <1>3, <2>1, <3>1, SeqEqual
  <2> QED BY <2>2, Stutters
<1>4. CASE Len(committed') # Len(committed)
  <2> DEFINE k == Len(committed) + 1
  <2>1. Len(committed') = Len(committed) + 1
    <3>1. Len(committed') \in 1 .. Len(committed') /\ Len(committed') > Len(committed)
      BY <1>1, <1>2, <1>4 DEF Advances
    <3> QED BY <1>1, <1>2, <3>1 DEF Advances
  <2>2. PICK y \in Node : k \in 1 .. Len(log[y]) /\ committed'[k] = log[y][k]
    <3>1. k \in 1 .. Len(committed') /\ ~ (k \in 1 .. Len(committed))
      BY <1>2, <2>1
    <3> QED BY <1>1, <3>1 DEF Advances
  <2>3. PICK w \in Write \cup {Blank} : w = committed'[k].op
    <3>1. committed'[k] \in Entry
      BY <1>1, <2>2, LogType
    <3> QED BY <3>1 DEF Entry
  <2>4. Order' = Append(Order, w)
    BY <1>1, <2>1, <2>3, OrderAppends DEF Advances
  <2>5. w = Blank \/ (w \in Write /\ States[w] # "idle" /\ \A j \in 1 .. Len(Order) : Order[j] # w)
    <3> SUFFICES ASSUME w # Blank PROVE w \in Write /\ States[w] # "idle" /\ \A j \in 1 .. Len(Order) : Order[j] # w
      OBVIOUS
    <3>1. w \in Write /\ w \in Call /\ log[y][k].op = w
      BY <2>2, <2>3, ServiceAssumption
    <3>2. call[w].pc # "idle"
      BY <1>1, <2>2, <3>1 DEF CallInv, CallRight
    <3>3. States[w] # "idle"
      BY <3>1, <3>2 DEF States, StateOf
    <3>4. ASSUME NEW j \in 1 .. Len(committed), committed[j].op = w PROVE FALSE
      <4>1. PICK m \in Node : j \in 1 .. Len(log[m]) /\ log[m][j] = committed[j]
        BY <1>1, CommittedLogged
      <4>2. j = k
        BY <1>1, <2>2, <3>1, <3>4, <4>1 DEF CallInv, WrittenOnce
      <4> QED BY <1>2, <4>2
    <3> QED BY <1>1, <3>1, <3>3, <3>4, OrderType
  <2>6. PD!Execute(w)
    BY <2>4, <2>5 DEF PD!Execute, PD!TookEffect, Order, States
  <2>7. CASE w = Blank
    <3>1. PD!Execute(Blank)
      BY <2>6, <2>7
    <3> QED BY <3>1 DEF PD!Next
  <2>8. CASE w # Blank
    <3>1. w \in Call
      BY <2>5, <2>8, ServiceAssumption
    <3> QED BY <2>6, <3>1 DEF PD!Next
  <2> QED BY <2>7, <2>8
<1> QED BY <1>3, <1>4

\* Calls fail, one by one or with their node.
LEMMA RefinesFail ==
    ASSUME CallTypes, committed' = committed, NEW failing \in SUBSET Call,
           \A c \in failing : call[c].pc \in InHandler \cup {"unreachable"} /\ call'[c] = Ending(call[c], "error", 0),
           \A c \in failing : call[c].shown = 0,
           \A c \in Call \ failing : call'[c] = call[c]
    PROVE  PD!Next
<1>1. \A c \in failing : StateOf(call[c].pc) = "running"
  BY DEF StateOf
<1>2. ASSUME NEW c \in Call PROVE call'[c].from = call[c].from /\ call'[c].shown = call[c].shown
  <2>1. CASE c \in failing
    <3>1. call'[c] = Ending(call[c], "error", 0) /\ call[c].shown = 0
      BY <2>1
    <3>2. call[c] \in [pc : InHandler \cup Ended \cup {"idle", "unreachable"},
                       from : Nat, shown : Nat, term : 0 .. MaxTerm, index : Nat]
      BY DEF CallTypes
    <3> QED BY <3>1, <3>2 DEF Ending
  <2>2. CASE c \notin failing
    BY <2>2
  <2> QED BY <2>1, <2>2
<1>3. \A c \in failing : call'[c].pc = "error"
  BY DEF CallTypes, Ending
<1>4. \A c \in Call : StateOf(call'[c].pc) = IF c \in failing THEN "error" ELSE StateOf(call[c].pc)
  BY <1>3 DEF StateOf, InHandler
<1>5. PD!Fail(failing)
  BY <1>1, <1>2, <1>4 DEF PD!Fail
<1> QED BY <1>5 DEF PD!Next


LEMMA RefinesAnswer ==
    ASSUME RaftTypes, CallTypes, committed' = committed, NEW c \in Call, NEW k \in call[c].from .. Len(committed),
           call[c].pc \in {"writing", "checked"}, call' = [call EXCEPT ![c] = Ending(call[c], "ok", k)],
           c \in Write => k > 0 /\ committed[k].op = c
    PROVE  PD!Next
<1>1. call[c] \in [pc : InHandler \cup Ended \cup {"idle", "unreachable"},
                   from : Nat, shown : Nat, term : 0 .. MaxTerm, index : Nat]
      /\ \A d \in Call \ {c} : call'[d] = call[d]
  BY DEF CallTypes
<1>2. call'[c] = Ending(call[c], "ok", k)
  BY DEF CallTypes
<1>3. call'[c].pc = "ok" /\ call'[c].from = call[c].from /\ call'[c].shown = k
  BY <1>1, <1>2, EndingFields
<1>4. StateOf(call[c].pc) = "running" /\ StateOf("ok") = "ok"
  BY DEF StateOf, InHandler
<1>5. States' = [States EXCEPT ![c] = "ok"]
  <2>1. States' = [States EXCEPT ![c] = StateOf(call'[c].pc)]
    BY <1>1, OneState
  <2> QED BY <1>3, <1>4, <2>1
<1>6. Froms' = Froms
  <2>1. Froms' = [Froms EXCEPT ![c] = call'[c].from]
    BY <1>1, OneState
  <2>2. Froms[c] = call[c].from
    BY DEF Froms
  <2> QED BY <1>3, <2>1, <2>2 DEF Froms
<1>7. Showns' = [Showns EXCEPT ![c] = k]
  <2>1. Showns' = [Showns EXCEPT ![c] = call'[c].shown]
    BY <1>1, OneState
  <2> QED BY <1>3, <2>1
<1>8. States[c] = "running" /\ Froms[c] = call[c].from
  BY <1>4 DEF States, Froms
<1>9. k \in Froms[c] .. Len(Order) /\ (c \in Write => k > 0 /\ Order[k] = c)
  <2>1. call[c].from \in Nat /\ Len(Order) = Len(committed)
    BY <1>1, OrderType
  <2>2. c \in Write => k \in 1 .. Len(committed)
    BY <2>1, OrderType
  <2>3. \A j \in 1 .. Len(committed) : Order[j] = committed[j].op
    BY OrderType
  <2> QED BY <1>8, <2>1, <2>2, <2>3
<1>10. Order' = Order
  BY DEF Order
<1>11. PD!Answer(c)
  BY <1>5, <1>6, <1>7, <1>8, <1>9, <1>10 DEF PD!Answer, Order, States, Froms, Showns
<1> QED BY <1>11 DEF PD!Next

LEMMA RefinesConnect ==
    ASSUME RaftTypes, CallInv, committed' = committed, NEW c \in Call, Connect(c)
    PROVE  PD!Next
<1>1. call[c] \in [pc : InHandler \cup Ended \cup {"idle", "unreachable"},
                   from : Nat, shown : Nat, term : 0 .. MaxTerm, index : Nat]
      /\ \A d \in Call \ {c} : call'[d] = call[d]
  BY DEF CallInv, CallTypes, Connect
<1>2. PICK k \in Nat : k = Known
  BY KnownIsGreatest
<1>3. call'[c] = [call[c] EXCEPT !.pc = IF Addr[c] \in up THEN "arrived" ELSE "unreachable", !.from = k]
  BY <1>2 DEF Connect, CallInv, CallTypes
<1>4. call'[c].pc \in {"arrived", "unreachable"} /\ call'[c].from = k /\ call'[c].shown = call[c].shown
  BY <1>1, <1>3
<1>5. StateOf(call[c].pc) = "idle" /\ StateOf(call'[c].pc) = "running"
  BY <1>4 DEF Connect, At, StateOf, InHandler
<1>6. States' = [States EXCEPT ![c] = "running"]
  <2>1. States' = [States EXCEPT ![c] = StateOf(call'[c].pc)]
    BY <1>1, OneState DEF CallInv
  <2> QED BY <1>5, <2>1
<1>7. Froms' = [Froms EXCEPT ![c] = k]
  <2>1. Froms' = [Froms EXCEPT ![c] = call'[c].from]
    BY <1>1, OneState DEF CallInv
  <2> QED BY <1>4, <2>1
<1>8. Showns' = Showns
  <2>1. Showns' = [Showns EXCEPT ![c] = call'[c].shown]
    BY <1>1, OneState DEF CallInv
  <2>2. Showns[c] = call[c].shown
    BY DEF Showns
  <2> QED BY <1>4, <2>1, <2>2 DEF Showns
<1>9. k \in 0 .. Len(Order) /\ (\A d \in Call : Showns[d] <= k) /\ (k = 0 \/ \E d \in Call : Showns[d] = k)
  <2>1. k <= Len(committed) /\ Len(Order) = Len(committed) /\ Len(committed) \in Nat
    BY <1>2, KnownIsGreatest, OrderType
  <2>2. \A d \in Call : Showns[d] = call[d].shown
    BY DEF Showns
  <2>3. (\A d \in Call : call[d].shown <= k) /\ (k = 0 \/ \E d \in Call : call[d].shown = k)
    BY <1>2, KnownIsGreatest
  <2> QED BY <2>1, <2>2, <2>3
<1>10. Order' = Order /\ States[c] = "idle"
  BY <1>5 DEF Order, States
<1>11. PD!Invoke(c)
  BY <1>6, <1>7, <1>8, <1>9, <1>10 DEF PD!Invoke, PD!IsKnown, Order, States, Froms, Showns
<1> QED BY <1>11 DEF PD!Next

LEMMA RefinesCallStep ==
    ASSUME ServiceInv, NEW c \in Call, CallStep(c)
    PROVE  [PD!Next]_(PD!vars)
<1>1. RaftInv /\ RaftTypes /\ CallInv /\ CallTypes /\ CallRight(c)
  BY DEF ServiceInv, RaftInv, CallInv
<1>2. call[c] \in [pc : InHandler \cup Ended \cup {"idle", "unreachable"},
                   from : Nat, shown : Nat, term : 0 .. MaxTerm, index : Nat]
      /\ call \in [Call -> [pc : InHandler \cup Ended \cup {"idle", "unreachable"},
                   from : Nat, shown : Nat, term : 0 .. MaxTerm, index : Nat]]
  BY <1>1 DEF CallTypes
<1>3. committed' = committed
  BY CallsLeaveRaft DEF raft
<1>4. ASSUME call[c].pc \in InHandler \cup {"unreachable"}, call' = [call EXCEPT ![c] = Ending(call[c], "error", 0)]
      PROVE  PD!Next
  <2>1. call'[c] = Ending(call[c], "error", 0) /\ \A d \in Call \ {c} : call'[d] = call[d]
    BY <1>2, <1>4
  <2>2. call[c].shown = 0
    BY <1>1, <1>4 DEF CallRight, At, InHandler
  <2> QED BY <1>1, <1>3, <1>4, <2>1, <2>2, RefinesFail
<1>5. CASE Connect(c)
  BY <1>1, <1>3, <1>5, RefinesConnect
<1>6. CASE NotConnected(c) \/ Redirect(c) \/ WriteFails(c) \/ Fails(c)
  <2>1. call' = [call EXCEPT ![c] = Ending(call[c], "error", 0)]
    BY <1>6 DEF NotConnected, Redirect, WriteFails, Fails, End
  <2>2. call[c].pc \in InHandler \cup {"unreachable"}
    BY <1>6 DEF NotConnected, Redirect, WriteFails, Fails, At, InHandler
  <2> QED BY <1>4, <2>1, <2>2
<1>7. CASE AnswerWrite(c)
  <2> DEFINE k == call[c].index
  <2>1. c \in Write /\ k \in 1 .. Len(committed) /\ committed[k].op = c /\ call[c].from < k
    BY <1>1, <1>7, AnsweredIsCommitted
  <2>2. call[c].pc = "writing" /\ call' = [call EXCEPT ![c] = Ending(call[c], "ok", k)]
    BY <1>7 DEF AnswerWrite, At, End
  <2>3. k \in call[c].from .. Len(committed) /\ k > 0
    BY <1>2, <2>1
  <2> QED BY <1>1, <1>3, <2>1, <2>2, <2>3, RefinesAnswer
<1>8. CASE CheckLeader(c)
  <2>1. call'[c] = [call[c] EXCEPT !.pc = "checked"] /\ \A d \in Call \ {c} : call'[d] = call[d]
    BY <1>2, <1>8 DEF CheckLeader, Go
  <2>2. call'[c].pc = "checked" /\ call'[c].from = call[c].from /\ call'[c].shown = call[c].shown
    BY <1>2, <2>1
  <2>3. StateOf(call'[c].pc) = StateOf(call[c].pc)
    BY <1>8, <2>2 DEF CheckLeader, At, StateOf, InHandler
  <2> QED BY <1>3, <2>1, <2>2, <2>3, Stutters
<1>9. CASE ReadRows(c)
  <2> DEFINE k == applied[Addr[c]]
  <2>1. call[c].pc = "checked" /\ c \notin Write /\ call[c].from <= k
    BY <1>1, <1>9 DEF ReadRows, CallRight, At
  <2>2. k \in Nat /\ k <= Len(committed) /\ Len(committed) \in Nat
    BY <1>1, ServiceAssumption DEF RaftInv, RaftTypes, AppliedAgree
  <2>3. k \in call[c].from .. Len(committed)
    BY <1>2, <2>1, <2>2
  <2>4. CASE call' = [call EXCEPT ![c] = Ending(call[c], "ok", k)]
    BY <1>1, <1>3, <2>1, <2>3, <2>4, RefinesAnswer
  <2>5. CASE call' = [call EXCEPT ![c] = Ending(call[c], "error", 0)]
    BY <1>4, <2>1, <2>5 DEF InHandler
  <2> QED BY <1>9, <2>4, <2>5 DEF ReadRows, End
<1> QED BY <1>5, <1>6, <1>7, <1>8, <1>9 DEF CallStep

LEMMA RefinesStep ==
    ASSUME ServiceInv, ServiceInv', [Next]_vars
    PROVE  [PD!Next]_(PD!vars)
<1>1. RaftTypes /\ LeadersApart /\ CallInv /\ CallTypes
  BY DEF ServiceInv, RaftInv, CallInv
<1>2. CASE RaftStep /\ call' = call
  BY <1>2, RefinesCommit
<1>3. ASSUME NEW n \in Node, Crash(n) PROVE PD!Next
  <2> DEFINE failing == {c \in Call : Addr[c] = n /\ call[c].pc \in InHandler}
  <2>1. committed' = committed
    BY <1>3 DEF Crash
  <2>2. \A c \in failing : call[c].pc \in InHandler \cup {"unreachable"} /\ call'[c] = Ending(call[c], "error", 0)
    BY <1>3 DEF Crash
  <2>3. \A c \in failing : call[c].shown = 0
    BY <1>1 DEF CallInv, CallRight, At, InHandler
  <2>4. \A c \in Call \ failing : call'[c] = call[c]
    BY <1>3 DEF Crash
  <2> QED BY <1>1, <2>1, <2>2, <2>3, <2>4, RefinesFail
<1>4. CASE \E c \in Call : CallStep(c)
  BY <1>4, RefinesCallStep
<1>5. ASSUME NEW c \in Write, ClientWrite(c) PROVE UNCHANGED PD!vars
  <2>1. c \in Call /\ committed' = committed /\ At(c, "arrived")
    BY <1>5, ServiceAssumption DEF ClientWrite
  <2>2. call[c] \in [pc : InHandler \cup Ended \cup {"idle", "unreachable"},
                     from : Nat, shown : Nat, term : 0 .. MaxTerm, index : Nat]
    BY <1>1, <2>1 DEF CallTypes
  <2>3. \A d \in Call \ {c} : call'[d] = call[d]
    BY <1>1, <1>5, <2>1 DEF ClientWrite, CallTypes
  <2>4. call'[c] = [call[c] EXCEPT !.pc = "writing", !.term = term[Addr[c]], !.index = Len(log[Addr[c]]) + 1]
    BY <1>1, <1>5, <2>1 DEF ClientWrite, CallTypes
  <2>5. call'[c].pc = "writing" /\ call'[c].from = call[c].from /\ call'[c].shown = call[c].shown
    BY <2>2, <2>4
  <2>6. StateOf(call'[c].pc) = StateOf(call[c].pc)
    BY <2>1, <2>5 DEF At, StateOf, InHandler
  <2> QED BY <2>1, <2>3, <2>5, <2>6, Stutters
<1> QED BY <1>1, <1>2, <1>3, <1>4, <1>5, StepKinds

\* To its callers the replicated database is one database: a write takes effect once,
\* when its entry is committed, and a read, which asks one node and reads its tables a
\* step later, shows no less than any answer before it.
THEOREM IsOneDatabase == Spec => ImplementsProductDatabase
<1>1. ServiceInv /\ ServiceInv' /\ [Next]_vars => [PD!Next]_(PD!vars)
  BY RefinesStep
<1> QED BY <1>1, RefinesInit, ServiceHolds, PTL DEF Spec, ImplementsProductDatabase, PD!Spec
==============================================================================
