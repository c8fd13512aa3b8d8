---------------------------- MODULE ProductStore ----------------------------
(***************************************************************************)
(* The Raft storage of the product database: class ProductDbStore of       *)
(* product_db/src/storage.rs, one SQLite file per node that holds the      *)
(* tables, the log, last_applied and the hard state.  Each statement       *)
(* commits by itself, so every statement that a crash can separate from    *)
(* the next one is an action.                                              *)
(*                                                                         *)
(* Raft itself is the async-raft library and external: here it has one log *)
(* with the entries 1, 2, ...; it replicates them in order, commits what a *)
(* majority holds, applies what is committed, and sends a snapshot to a    *)
(* node whose log is behind it.  What a request does to the tables is not  *)
(* modelled here: the tables are the effects of the requests applied, and  *)
(* each application leaves an effect of its own <<index, node, count>>, as *)
(* a created item gets a random id and an addition is added once more.     *)
(***************************************************************************)
EXTENDS Integers, FiniteSets

CONSTANTS
    Node,
    Candidate,   \* whom votes are given to
    MaxLog,      \* bound: log entries
    MaxTerm,     \* bound: terms
    MaxVoters,   \* bound: nodes that vote
    MaxSnapshots, \* bound: nodes that make a snapshot
    MaxCrashes   \* bound: crashes

Index == 1 .. MaxLog
Majority == Cardinality(Node) \div 2 + 1
Nobody == "nobody"
HardState == [term : 0 .. MaxTerm, voted_for : Candidate \cup {Nobody}]

ASSUME StoreAssumption ==
    /\ MaxLog \in Nat /\ MaxTerm \in Nat /\ MaxCrashes \in Nat
    /\ MaxVoters \in Nat /\ MaxSnapshots \in Nat
    /\ Nobody \notin Candidate
ASSUME NodesAssumption == IsFiniteSet(Node)

VARIABLES
    file,           \* [Node -> the SQLite file]
    conn,           \* [Node -> what the connection is open on: "file" or "memory"]
    snapshot_info,  \* [Node -> the current snapshot, in a set: its label and the file copied]
    status,         \* [Node -> "up", "down" (the process), "stopped" (its Raft)]
    last_applied,   \* [Node -> Raft's own count of entries applied]
    hard_state,     \* [Node -> Raft's own term and vote]
    batch,          \* [Node -> the entries handed over to be applied, in a set: [next, last, step]]
    compacting,     \* [Node -> index read by a compaction that has not copied, in a set]
    installing,     \* [Node -> snapshot being installed, in a set: its snapshot and step]
    commit,         \* entries committed
    applications,   \* how often each node has applied each entry
    votes,          \* votes given: [node, term, candidate]
    crashes, installed, erased, foreign   \* history: how many, and which nodes

storeVars == <<file, conn, snapshot_info>>
raftVars == <<status, last_applied, hard_state, batch, compacting, installing, commit>>
history == <<applications, votes, crashes, installed, erased, foreign>>
vars == <<storeVars, raftVars, history>>

\* again is history: the entries whose effects the file holds and that Raft, for a
\* reason there is, may have applied to it once more
EmptyFile == [effects |-> {}, log |-> 0, applied |-> 0,
              hard_state |-> [term |-> 0, voted_for |-> Nobody], again |-> {}]
Effect == Index \X Node \X Nat
File == [effects : SUBSET Effect, log : 0 .. MaxLog, applied : 0 .. MaxLog, hard_state : HardState,
         again : SUBSET Index]
Snapshot == [index : 0 .. MaxLog, file : File]
\* a batch waits for the connection, is applied, then counted, or ended by an error
Batch == [next : 1 .. MaxLog + 1, last : Index, step : {"handed", "applying", "counted", "failed"}]

TypeOK ==
    /\ file \in [Node -> File]
    /\ conn \in [Node -> {"file", "memory"}]
    /\ snapshot_info \in [Node -> SUBSET Snapshot]
    /\ status \in [Node -> {"up", "down", "stopped"}]
    /\ last_applied \in [Node -> 0 .. MaxLog]
    /\ hard_state \in [Node -> HardState]
    /\ batch \in [Node -> SUBSET Batch]
    /\ compacting \in [Node -> SUBSET (0 .. MaxLog)]
    /\ installing \in [Node -> SUBSET [snapshot : Snapshot, step : {"open", "truncate", "copy", "reopen"}]]
    /\ commit \in 0 .. MaxLog
    /\ \A i \in Node : conn[i] = "memory" => installing[i] # {}
    /\ applications \in [Node -> [Index -> Nat]]
    /\ votes \subseteq [node : Node, term : 0 .. MaxTerm, candidate : Candidate]

Init ==
    /\ file = [i \in Node |-> EmptyFile]
    /\ conn = [i \in Node |-> "file"]
    /\ snapshot_info = [i \in Node |-> {}]
    /\ status = [i \in Node |-> "up"]
    /\ last_applied = [i \in Node |-> 0]
    /\ hard_state = [i \in Node |-> EmptyFile.hard_state]
    /\ batch = [i \in Node |-> {}]
    /\ compacting = [i \in Node |-> {}]
    /\ installing = [i \in Node |-> {}]
    /\ commit = 0
    /\ applications = [i \in Node |-> [k \in Index |-> 0]]
    /\ votes = {}
    /\ crashes = 0 /\ installed = {} /\ erased = {} /\ foreign = {}

\* one row of the file of node i
Put(i, f) == file' = [file EXCEPT ![i] = f]

\* Raft's main task is free to call the storage
Free(i) == status[i] = "up" /\ installing[i] = {}

------------------------------------------------------------------------------
(* The log and the hard state.                                                 *)

\* append_entry_to_log and replicate_to_log, one entry
ReplicateToLog(i) ==
    /\ Free(i)
    /\ file[i].log < MaxLog
    /\ Put(i, [file[i] EXCEPT !.log = @ + 1])
    /\ UNCHANGED <<conn, snapshot_info, raftVars, history>>

\* external: an entry is committed once a majority holds it
Commit ==
    /\ commit < MaxLog
    /\ Cardinality({i \in Node : file[i].log > commit}) >= Majority
    /\ commit' = commit + 1
    /\ UNCHANGED <<storeVars, status, last_applied, hard_state, batch, compacting, installing, history>>

\* mutant: the vote is answered and not saved
KeepHardState(f, h) == f
SaveHardState(f, h) == [f EXCEPT !.hard_state = h]

\* a vote is saved before it is answered
Vote(i, t, c) ==
    LET h == [term |-> t, voted_for |-> c]
    IN  /\ Free(i)
        /\ Cardinality({v.node : v \in votes} \cup {i}) <= MaxVoters
        /\ t > hard_state[i].term \/ (t = hard_state[i].term /\ hard_state[i].voted_for \in {Nobody, c})
        /\ hard_state' = [hard_state EXCEPT ![i] = h]
        /\ Put(i, SaveHardState(file[i], h))
        /\ votes' = votes \cup {[node |-> i, term |-> t, candidate |-> c]}
        /\ UNCHANGED <<conn, snapshot_info, status, last_applied, batch, compacting, installing, commit,
                       applications, crashes, installed, erased, foreign>>

------------------------------------------------------------------------------
(* Applying entries.                                                           *)

\* Raft hands over the next committed entries, one of them
\* (apply_entry_to_state_machine) or several (replicate_to_state_machine)
StartApply(i) ==
    /\ Free(i)
    /\ batch[i] = {}
    /\ \E last \in last_applied[i] + 1 .. commit :
          /\ last <= file[i].log
          /\ batch' = [batch EXCEPT ![i] = {[next |-> last_applied[i] + 1, last |-> last,
                                             step |-> "handed"]}]
    /\ UNCHANGED <<storeVars, status, last_applied, hard_state, compacting, installing, commit, history>>

\* the batch as it is after this step of it
Goes(i, b, next, step) == batch' = [batch EXCEPT ![i] = {[next |-> next, last |-> b.last, step |-> step]}]

\* apply_request of one entry of the batch; from the first to the last one the
\* connection is locked
Apply(i) == \E b \in batch[i] :
    LET count == applications[i][b.next] + 1
    IN  /\ status[i] = "up" /\ conn[i] = "file"
        /\ b.step \in {"handed", "applying"} /\ b.next <= b.last
        /\ Put(i, [file[i] EXCEPT !.effects = @ \cup {<<b.next, i, count>>}])
        /\ applications' = [applications EXCEPT ![i][b.next] = count]
        /\ Goes(i, b, b.next + 1, "applying")
        /\ UNCHANGED <<conn, snapshot_info, status, last_applied, hard_state, compacting, installing, commit,
                       votes, crashes, installed, erased, foreign>>

\* the connection may be on an empty database by the time the batch gets it
ApplyFails(i) == \E b \in batch[i] :
    /\ status[i] = "up" /\ conn[i] = "memory"
    /\ b.step = "handed"
    /\ Goes(i, b, b.next, "failed")
    /\ UNCHANGED <<storeVars, status, last_applied, hard_state, compacting, installing, commit, history>>

\* mutants: last_applied is set to the entry before the last one, or after it
OneShort(last) == last - 1
OneOver(last) == last + 1
Applied(last) == last

\* set_last_applied takes the lock again; there may be no table by then
SetLastApplied(i) == \E b \in batch[i] :
    /\ status[i] = "up"
    /\ b.step = "applying" /\ b.next > b.last
    /\ IF conn[i] = "file"
       THEN Put(i, [file[i] EXCEPT !.applied = Applied(b.last)]) /\ Goes(i, b, b.next, "counted")
       ELSE Goes(i, b, b.next, "failed") /\ UNCHANGED file
    /\ UNCHANGED <<conn, snapshot_info, status, last_applied, hard_state, compacting, installing, commit,
                   history>>

\* external: Raft's main task learns how the batch ended once it is free, also from a
\* snapshot it was installing meanwhile; an error stops it
EndBatch(i) == \E b \in batch[i] :
    /\ Free(i)
    /\ batch' = [batch EXCEPT ![i] = {}]
    /\ \/ /\ b.step = "counted"
          /\ last_applied' = [last_applied EXCEPT ![i] = b.last]
          /\ UNCHANGED status
       \/ /\ b.step = "failed"
          /\ status' = [status EXCEPT ![i] = "stopped"]
          /\ UNCHANGED last_applied
    /\ UNCHANGED <<storeVars, hard_state, compacting, installing, commit, history>>

------------------------------------------------------------------------------
(* Snapshots.                                                                  *)

\* Raft compacts when it has applied more than its snapshot holds;
\* do_log_compaction reads last_applied, in a task of its own
StartCompaction(i) ==
    /\ Free(i)
    /\ compacting[i] = {}
    /\ Cardinality({j \in Node \ {i} : snapshot_info[j] # {} \/ compacting[j] # {}}) < MaxSnapshots
    /\ file[i].applied > 0
    /\ \A s \in snapshot_info[i] : file[i].applied > s.index
    /\ compacting' = [compacting EXCEPT ![i] = {file[i].applied}]
    /\ UNCHANGED <<storeVars, status, last_applied, hard_state, batch, installing, commit, history>>

\* the entries in file f that are beyond n, or beyond what f says is applied
Ahead(f, n) == {e[1] : e \in {e \in f.effects : e[1] > n \/ e[1] > f.applied}}

\* it then copies the file as it is by now, without the lock: with all that has been
\* applied since, and what a batch under way has applied so far
CopyFile(i) == \E label \in compacting[i] :
    LET copy == [file[i] EXCEPT !.again = @ \cup Ahead(file[i], label)]
    IN  /\ status[i] = "up"
        /\ snapshot_info' = [snapshot_info EXCEPT ![i] = {[index |-> label, file |-> copy]}]
        /\ compacting' = [compacting EXCEPT ![i] = {}]
        /\ UNCHANGED <<file, conn, status, last_applied, hard_state, batch, installing, commit, history>>

\* get_current_snapshot at j, create_snapshot at i: i has received it all; Raft
\* gives up a compaction that is under way when it begins to receive
ReceiveSnapshot(i, j) == \E s \in snapshot_info[j] :
    /\ Free(i)
    /\ status[j] = "up"
    /\ file[i].log < s.index
    /\ installing' = [installing EXCEPT ![i] = {[snapshot |-> s, step |-> "open"]}]
    /\ compacting' = [compacting EXCEPT ![i] = {}]
    /\ UNCHANGED <<storeVars, status, last_applied, hard_state, batch, commit, history>>

\* the locked sections and the copy of finalize_snapshot_installation
FinalizeStep(i, step, next) == \E s \in installing[i] :
    /\ status[i] = "up"
    /\ s.step = step
    /\ installing' = [installing EXCEPT ![i] = {[snapshot |-> s.snapshot, step |-> next]}]

\* the connection is put on an empty database in memory, once no batch has it
OpenInMemory(i) ==
    /\ FinalizeStep(i, "open", "truncate")
    /\ \A b \in batch[i] : b.step = "applying" => b.next > b.last
    /\ conn' = [conn EXCEPT ![i] = "memory"]
    /\ UNCHANGED <<file, snapshot_info, status, last_applied, hard_state, batch, compacting, commit, history>>

\* fs::copy empties the target first, then writes it
TruncateFile(i) ==
    /\ FinalizeStep(i, "truncate", "copy")
    /\ Put(i, EmptyFile)
    /\ UNCHANGED <<conn, snapshot_info, status, last_applied, hard_state, batch, compacting, commit, history>>

WriteFile(i) == \E s \in installing[i] :
    /\ FinalizeStep(i, "copy", "reopen")
    /\ Put(i, s.snapshot.file)
    /\ installed' = installed \cup {i}
    /\ UNCHANGED <<conn, snapshot_info, status, last_applied, hard_state, batch, compacting, commit,
                   applications, votes, crashes, erased, foreign>>

\* the entries in the file that a batch has before it, or that come after it
Overtaken(i) ==
    {e[1] : e \in {e \in file[i].effects : \E b \in batch[i] : b.step # "failed" /\ e[1] >= b.next}}

\* the new file is opened, and Raft goes on from the label of the snapshot; a batch
\* that was handed over before has yet to be applied to this file, or counted in it
Reopen(i) == \E s \in installing[i] :
    /\ status[i] = "up"
    /\ s.step = "reopen"
    /\ Put(i, [file[i] EXCEPT !.again = @ \cup Overtaken(i)])
    /\ conn' = [conn EXCEPT ![i] = "file"]
    /\ last_applied' = [last_applied EXCEPT ![i] = s.snapshot.index]
    /\ installing' = [installing EXCEPT ![i] = {}]
    /\ UNCHANGED <<snapshot_info, status, hard_state, batch, compacting, commit, history>>

------------------------------------------------------------------------------
(* Crashes.                                                                    *)

\* the entries in the file that a batch has applied and not counted
Uncounted(i) ==
    {e[1] : e \in {e \in file[i].effects :
        /\ e[1] > file[i].applied
        /\ \E b \in batch[i] : b.step \in {"applying", "failed"} /\ e[1] < b.next}}

\* what is not in the file is gone; an installation that was caught between
\* truncating and writing leaves an empty database
Crash(i) ==
    /\ crashes < MaxCrashes
    /\ status[i] # "down"
    /\ status' = [status EXCEPT ![i] = "down"]
    /\ Put(i, [file[i] EXCEPT !.again = @ \cup Uncounted(i)])
    /\ conn' = [conn EXCEPT ![i] = "file"]
    /\ snapshot_info' = [snapshot_info EXCEPT ![i] = {}]
    /\ batch' = [batch EXCEPT ![i] = {}]
    /\ compacting' = [compacting EXCEPT ![i] = {}]
    /\ installing' = [installing EXCEPT ![i] = {}]
    /\ last_applied' = [last_applied EXCEPT ![i] = 0]
    /\ hard_state' = [hard_state EXCEPT ![i] = EmptyFile.hard_state]
    /\ crashes' = crashes + 1
    /\ erased' = IF \E s \in installing[i] : s.step = "copy" THEN erased \cup {i} ELSE erased
    /\ foreign' = IF i \in installed THEN foreign \cup {i} ELSE foreign
    /\ UNCHANGED <<commit, applications, votes, installed>>

\* mutant: opening the database makes its log table anew
LogAnew(f) == [f EXCEPT !.log = 0]
Opened(f) == f
\* mutant: the last entry of the log is taken for the last one applied
LastInLog(f) == f.log
LastApplied(f) == f.applied

\* ProductDbStore::new and get_initial_state
Restart(i) ==
    /\ status[i] = "down"
    /\ Put(i, Opened(file[i]))
    /\ status' = [status EXCEPT ![i] = "up"]
    /\ last_applied' = [last_applied EXCEPT ![i] = LastApplied(file[i])]
    /\ hard_state' = [hard_state EXCEPT ![i] = file[i].hard_state]
    /\ UNCHANGED <<conn, snapshot_info, batch, compacting, installing, commit, history>>

Next ==
    \/ Commit
    \/ \E i \in Node :
          \/ ReplicateToLog(i)
          \/ \E t \in 1 .. MaxTerm, c \in Candidate : Vote(i, t, c)
          \/ StartApply(i) \/ Apply(i) \/ ApplyFails(i) \/ SetLastApplied(i) \/ EndBatch(i)
          \/ StartCompaction(i) \/ CopyFile(i)
          \/ \E j \in Node \ {i} : ReceiveSnapshot(i, j)
          \/ OpenInMemory(i) \/ TruncateFile(i) \/ WriteFile(i) \/ Reopen(i)
          \/ Crash(i) \/ Restart(i)

Spec == Init /\ [][Next]_vars

------------------------------------------------------------------------------
(* Safety.                                                                     *)

\* No entry is ever skipped: what a file says is applied has left its effect in
\* the same file, through crashes inside a batch, copies taken beside one and
\* snapshots whose label is older than their content.
NoSkippedEntry ==
    \A i \in Node : \A k \in 1 .. file[i].applied : \E e \in file[i].effects : e[1] = k

\* The tables of a file hold an entry twice only for one of three reasons: a crash
\* between its application and set_last_applied; a snapshot whose copy was ahead of
\* its label or of its own last_applied; a batch that was handed over before the
\* installation of a snapshot and ended after it.  However batches are cut, nodes
\* crash and files travel, nothing else is applied again.
RepeatsExplained ==
    \A i \in Node : \A e, f \in file[i].effects :
        e[1] = f[1] /\ e # f => e[1] \in file[i].again

\* A node votes once in a term, across crashes, unless it restarted from a file
\* that a snapshot had replaced, with the hard state of the node that made it, or
\* that a crash had left empty.
OneVotePerTerm ==
    \A u, v \in votes :
        (u.node = v.node /\ u.term = v.term /\ u.node \notin foreign \cup erased)
            => u.candidate = v.candidate

\* A committed entry stays in the files of a majority; the nodes that are
\* rewriting their file, or crashed while they did, have lost theirs.
CommittedKept ==
    \A k \in 1 .. commit :
        Cardinality({i \in Node : \/ file[i].log >= k
                                  \/ i \in erased
                                  \/ \E s \in installing[i] : s.step = "copy"}) >= Majority

------------------------------------------------------------------------------
(* A statement of the README that the code does not keep.                      *)

\* README.md: the product database is replicated by Raft.  Here: two files that
\* have applied the same entries, each once, hold the same rows.
SameRows ==
    \A i, j \in Node :
        (/\ file[i].applied = file[j].applied
         /\ batch[i] = {} /\ batch[j] = {}
         /\ crashes = 0 /\ installed = {}) => file[i].effects = file[j].effects

==============================================================================
