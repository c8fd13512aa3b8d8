------------------------- MODULE ProductStoreProofs -------------------------
(***************************************************************************)
(* The storage of the product replicas, for any number of nodes, entries,  *)
(* snapshots and crashes: no file skips an entry, none holds one twice but *)
(* for a reason, votes are remembered, and what is committed stays in the  *)
(* files of a majority.                                                    *)
(*                                                                         *)
(* The invariant is a statement about each node by itself: what its file   *)
(* holds, what Raft believes it holds, and, while a snapshot is being      *)
(* installed, what the file will hold.                                     *)
(***************************************************************************)
EXTENDS ProductStore, TLAPS, FiniteSetTheorems

\* the tables hold the effects of the first n entries
Holds(f, n) == \A k \in 1 .. n : \E e \in f.effects : e[1] = k
GoodFile(f) == f.applied <= f.log /\ Holds(f, f.applied)
\* what the tables hold twice, and what they hold beyond entry n, there is a reason for
Once(f) == \A e, g \in f.effects : e[1] = g[1] /\ e # g => e[1] \in f.again
Behind(f, n) == \A e \in f.effects : e[1] <= n \/ e[1] \in f.again
\* the label of a snapshot is not ahead of the file that was copied
GoodSnapshot(s) ==
    /\ GoodFile(s.file) /\ s.index <= s.file.log /\ Holds(s.file, s.index)
    /\ Once(s.file) /\ Behind(s.file, s.index) /\ Behind(s.file, s.file.applied)

\* the file is not the empty one between the two halves of the copy
Whole(i) == \A s \in installing[i] : s.step # "copy"

FileInv(i) ==
    /\ GoodFile(file[i])
    /\ \A s \in snapshot_info[i] : GoodSnapshot(s)
    /\ \A l \in compacting[i] : installing[i] = {} /\ l <= file[i].log /\ Holds(file[i], l)

\* what Raft believes to be applied is in the file
AppliedInv(i) ==
    /\ \A a, b \in batch[i] : a = b
    /\ \A b \in batch[i] : b.next <= b.last + 1 /\ (b.step = "counted" => b.next > b.last)
    /\ Whole(i) => /\ last_applied[i] <= file[i].log
                   /\ Holds(file[i], last_applied[i])
                   /\ \A b \in batch[i] : b.last <= file[i].log /\ Holds(file[i], b.next - 1)

\* a snapshot is only received by a node that is behind it
InstallInv(i) ==
    /\ \A s, t \in installing[i] : s = t
    /\ \A s \in installing[i] :
          /\ GoodSnapshot(s.snapshot)
          /\ last_applied[i] < s.snapshot.index
          /\ \A b \in batch[i] : b.last < s.snapshot.index
          /\ s.step \in {"open", "truncate"} => file[i].log < s.snapshot.index
          /\ s.step # "open" =>
                conn[i] = "memory" /\ \A b \in batch[i] : b.step = "applying" => b.next > b.last
          /\ s.step = "copy" => file[i] = EmptyFile
          /\ s.step = "reopen" => file[i] = s.snapshot.file /\ i \in installed

DownInv(i) ==
    status[i] = "down" =>
        /\ installing[i] = {} /\ batch[i] = {}
        /\ i \in installed => i \in foreign

\* h remembers the votes of node i
Remembers(h, i) ==
    \A v \in votes : v.node = i =>
        v.term <= h.term /\ (v.term = h.term => v.candidate = h.voted_for)

VoteInv(i) ==
    i \notin foreign \cup erased =>
        /\ status[i] # "down" => Remembers(hard_state[i], i)
        /\ i \notin installed /\ Whole(i) => Remembers(file[i].hard_state, i)
        /\ \A u, v \in votes :
              (u.node = i /\ v.node = i /\ u.term = v.term) => u.candidate = v.candidate

\* the entries before b.next may be in the file and not counted there
InDoubt(i, b) == b.step = "applying" \/ (b.step = "failed" /\ installing[i] # {})
Counted(i, e) == \/ e[1] \in file[i].again
                 \/ e[1] <= file[i].applied
                 \/ \E b \in batch[i] : InDoubt(i, b) /\ e[1] < b.next

\* what is applied next is not in the file yet
OnceInv(i) ==
    /\ Once(file[i])
    /\ \A e \in file[i].effects : Counted(i, e)
    /\ (status[i] = "up" /\ \A s \in installing[i] : s.step # "reopen") =>
          /\ batch[i] = {} => Behind(file[i], last_applied[i])
          /\ \A b \in batch[i] : b.step # "failed" => Behind(file[i], b.next - 1)

NodeInv(i) ==
    FileInv(i) /\ AppliedInv(i) /\ InstallInv(i) /\ DownInv(i) /\ VoteInv(i) /\ OnceInv(i)

\* the nodes whose file holds entry k, is about to, or was lost in a crash
Keeps(k) == {i \in Node : \/ file[i].log >= k
                          \/ i \in erased
                          \/ \E s \in installing[i] : s.step = "copy" /\ s.snapshot.file.log >= k}
CommitInv == \A k \in 1 .. commit : Cardinality(Keeps(k)) >= Majority

StoreInv == TypeOK /\ (\A i \in Node : NodeInv(i)) /\ CommitInv

(***************************************************************************)
(* Types.                                                                  *)
(***************************************************************************)
LEMMA EmptyFileType == EmptyFile \in File /\ EmptyFile.hard_state \in HardState
<1>1. 0 \in 0 .. MaxLog /\ 0 \in 0 .. MaxTerm
  BY StoreAssumption
<1> QED BY <1>1 DEF EmptyFile, File, HardState

LEMMA FileTypes ==
    ASSUME TypeOK, NEW i \in Node
    PROVE  /\ file[i].effects \in SUBSET Effect /\ file[i].log \in 0 .. MaxLog
           /\ file[i].applied \in 0 .. MaxLog /\ file[i].hard_state \in HardState
           /\ file[i].again \in SUBSET Index /\ \A e \in file[i].effects : e[1] \in Index
           /\ \A s \in snapshot_info[i] : s.index \in 0 .. MaxLog /\ s.file \in File
           /\ \A s \in installing[i] : /\ s.snapshot \in Snapshot
                                       /\ s.snapshot.index \in 0 .. MaxLog
                                       /\ s.snapshot.file \in File
           /\ \A b \in batch[i] : b.next \in 1 .. MaxLog + 1 /\ b.last \in Index
           /\ last_applied[i] \in 0 .. MaxLog /\ hard_state[i] \in HardState
<1>1. file[i] \in File /\ last_applied[i] \in 0 .. MaxLog /\ hard_state[i] \in HardState
  BY DEF TypeOK
<1>2. /\ snapshot_info[i] \subseteq Snapshot
      /\ batch[i] \subseteq Batch
      /\ installing[i] \subseteq [snapshot : Snapshot, step : {"open", "truncate", "copy", "reopen"}]
  BY DEF TypeOK
<1> QED BY <1>1, <1>2 DEF File, Snapshot, Effect, Batch

LEMMA InitType == Init => TypeOK
<1> SUFFICES ASSUME Init PROVE TypeOK
  OBVIOUS
<1>1. 0 \in 0 .. MaxLog
  BY StoreAssumption
<1> QED BY <1>1, EmptyFileType DEF Init, TypeOK

LEMMA LogTypes ==
    ASSUME TypeOK, NEW i \in Node,
           ReplicateToLog(i) \/ (\E t \in 1 .. MaxTerm, c \in Candidate : Vote(i, t, c)) \/ Commit
    PROVE  TypeOK'
<1>1. file[i] \in File
  BY DEF TypeOK
<1>2. CASE ReplicateToLog(i)
  <2>1. [file[i] EXCEPT !.log = @ + 1] \in File
    BY <1>1, <1>2, StoreAssumption DEF ReplicateToLog, File
  <2> QED BY <1>2, <2>1 DEF ReplicateToLog, Put, TypeOK, raftVars, history
<1>3. CASE \E t \in 1 .. MaxTerm, c \in Candidate : Vote(i, t, c)
  <2>1. PICK t \in 1 .. MaxTerm, c \in Candidate : Vote(i, t, c)
    BY <1>3
  <2> DEFINE h == [term |-> t, voted_for |-> c]
  <2>2. h \in HardState
    BY StoreAssumption DEF HardState
  <2>3. [file[i] EXCEPT !.hard_state = h] \in File
    BY <1>1, <2>2 DEF File
  <2>4. [node |-> i, term |-> t, candidate |-> c] \in [node : Node, term : 0 .. MaxTerm, candidate : Candidate]
    BY StoreAssumption
  <2>5. /\ file' = [file EXCEPT ![i] = [file[i] EXCEPT !.hard_state = h]]
        /\ hard_state' = [hard_state EXCEPT ![i] = h]
        /\ votes' = votes \cup {[node |-> i, term |-> t, candidate |-> c]}
        /\ UNCHANGED <<conn, snapshot_info, status, last_applied, batch, compacting, installing, commit,
                       applications>>
    BY <2>1 DEF Vote, Put, SaveHardState
  <2> HIDE DEF h
  <2> QED BY <2>2, <2>3, <2>4, <2>5 DEF TypeOK
<1>4. CASE Commit
  BY <1>4, StoreAssumption DEF Commit, TypeOK, storeVars, history
<1> QED BY <1>2, <1>3, <1>4

LEMMA GoesType ==
    ASSUME TypeOK, NEW i \in Node, NEW b \in batch[i], NEW next \in 1 .. MaxLog + 1,
           NEW step \in {"handed", "applying", "counted", "failed"}, Goes(i, b, next, step)
    PROVE  batch' \in [Node -> SUBSET Batch]
<1>1. [next |-> next, last |-> b.last, step |-> step] \in Batch
  BY FileTypes DEF Batch
<1> QED BY <1>1 DEF Goes, TypeOK

LEMMA ApplyTypes ==
    ASSUME TypeOK, NEW i \in Node,
           StartApply(i) \/ Apply(i) \/ ApplyFails(i) \/ SetLastApplied(i) \/ EndBatch(i)
    PROVE  TypeOK'
<1>1. file[i] \in File
  BY DEF TypeOK
<1>2. CASE StartApply(i)
  <2>1. PICK last \in last_applied[i] + 1 .. commit :
           batch' = [batch EXCEPT ![i] = {[next |-> last_applied[i] + 1, last |-> last, step |-> "handed"]}]
    BY <1>2 DEF StartApply
  <2>2. last_applied[i] + 1 \in 1 .. MaxLog + 1 /\ last \in Index
    BY StoreAssumption DEF TypeOK, Index
  <2>3. [next |-> last_applied[i] + 1, last |-> last, step |-> "handed"] \in Batch
    BY <2>2 DEF Batch
  <2>4. batch' \in [Node -> SUBSET Batch]
    BY <2>1, <2>3 DEF TypeOK
  <2> QED BY <1>2, <2>4 DEF StartApply, TypeOK, storeVars, history
<1>3. CASE Apply(i)
  <2>1. PICK b \in batch[i] :
           /\ b.next <= b.last
           /\ Put(i, [file[i] EXCEPT !.effects = @ \cup {<<b.next, i, applications[i][b.next] + 1>>}])
           /\ applications' = [applications EXCEPT ![i][b.next] = applications[i][b.next] + 1]
           /\ Goes(i, b, b.next + 1, "applying")
    BY <1>3 DEF Apply
  <2> DEFINE count == applications[i][b.next] + 1
  <2>2. b.next \in Index /\ b.last \in Index /\ b.next + 1 \in 1 .. MaxLog + 1
    BY <2>1, FileTypes, StoreAssumption DEF Index
  <2>3. count \in Nat
    BY <2>1, <2>2 DEF TypeOK
  <2>4. [file[i] EXCEPT !.effects = @ \cup {<<b.next, i, count>>}] \in File
    BY <1>1, <2>2, <2>3 DEF File, Effect
  <2>5. batch' \in [Node -> SUBSET Batch]
    BY <2>1, <2>2, GoesType
  <2>6. applications' \in [Node -> [Index -> Nat]]
    BY <2>1, <2>2, <2>3 DEF TypeOK
  <2> QED BY <1>3, <2>1, <2>4, <2>5, <2>6 DEF Apply, Put, TypeOK
<1>4. CASE ApplyFails(i)
  <2>1. PICK b \in batch[i] : Goes(i, b, b.next, "failed")
    BY <1>4 DEF ApplyFails
  <2>2. batch' \in [Node -> SUBSET Batch]
    BY <2>1, GoesType, FileTypes
  <2> QED BY <1>4, <2>2 DEF ApplyFails, TypeOK, storeVars, history
<1>5. CASE SetLastApplied(i)
  <2>1. PICK b \in batch[i], step \in {"counted", "failed"} :
           /\ Goes(i, b, b.next, step)
           /\ UNCHANGED file \/ Put(i, [file[i] EXCEPT !.applied = b.last])
    BY <1>5 DEF SetLastApplied, Applied
  <2>2. b.last \in 0 .. MaxLog
    BY FileTypes, StoreAssumption DEF Index
  <2>3. [file[i] EXCEPT !.applied = b.last] \in File
    BY <1>1, <2>2 DEF File
  <2>4. batch' \in [Node -> SUBSET Batch]
    BY <2>1, GoesType, FileTypes
  <2> QED BY <1>5, <2>1, <2>3, <2>4 DEF SetLastApplied, Put, TypeOK, history
<1>6. CASE EndBatch(i)
  <2>1. PICK b \in batch[i] :
           \/ last_applied' = [last_applied EXCEPT ![i] = b.last] /\ UNCHANGED status
           \/ status' = [status EXCEPT ![i] = "stopped"] /\ UNCHANGED last_applied
    BY <1>6 DEF EndBatch
  <2>2. b.last \in 0 .. MaxLog
    BY FileTypes, StoreAssumption DEF Index
  <2>3. /\ last_applied' \in [Node -> 0 .. MaxLog]
        /\ status' \in [Node -> {"up", "down", "stopped"}]
    BY <2>1, <2>2 DEF TypeOK
  <2> QED BY <1>6, <2>3 DEF EndBatch, TypeOK, storeVars, history
<1> QED BY <1>2, <1>3, <1>4, <1>5, <1>6

LEMMA AgainType ==
    ASSUME TypeOK, NEW i \in Node, NEW ks, ks \subseteq Index
    PROVE  [file[i] EXCEPT !.again = @ \cup ks] \in File
<1>1. file[i] \in File
  BY DEF TypeOK
<1>2. file[i].again \cup ks \in SUBSET Index
  BY FileTypes
<1>3. \A f \in File, a \in SUBSET Index : [f EXCEPT !.again = a] \in File
  BY DEF File
<1> QED BY <1>1, <1>2, <1>3

LEMMA AgainTypes ==
    ASSUME TypeOK, NEW i \in Node, NEW n
    PROVE  Ahead(file[i], n) \subseteq Index /\ Overtaken(i) \subseteq Index /\ Uncounted(i) \subseteq Index
BY FileTypes DEF Ahead, Overtaken, Uncounted

LEMMA SnapshotTypes ==
    ASSUME TypeOK, NEW i \in Node,
           \/ StartCompaction(i) \/ CopyFile(i)
           \/ \E j \in Node \ {i} : ReceiveSnapshot(i, j)
           \/ OpenInMemory(i) \/ TruncateFile(i) \/ WriteFile(i) \/ Reopen(i)
    PROVE  TypeOK'
<1> DEFINE Steps == {"open", "truncate", "copy", "reopen"}
<1>1. CASE StartCompaction(i)
  BY <1>1, FileTypes DEF StartCompaction, TypeOK, storeVars, history
<1>2. CASE CopyFile(i)
  <2>1. PICK l \in compacting[i] :
           snapshot_info' = [snapshot_info EXCEPT ![i] = {[index |-> l, file |->
              [file[i] EXCEPT !.again = @ \cup Ahead(file[i], l)]]}]
    BY <1>2 DEF CopyFile
  <2>2. [index |-> l, file |-> [file[i] EXCEPT !.again = @ \cup Ahead(file[i], l)]] \in Snapshot
    BY <2>1, AgainType, AgainTypes DEF TypeOK, Snapshot
  <2>3. snapshot_info' \in [Node -> SUBSET Snapshot]
    BY <2>1, <2>2 DEF TypeOK
  <2>4. compacting' \in [Node -> SUBSET (0 .. MaxLog)]
    BY <1>2 DEF CopyFile, TypeOK
  <2> QED BY <1>2, <2>3, <2>4 DEF CopyFile, TypeOK, history
<1>3. CASE \E j \in Node \ {i} : ReceiveSnapshot(i, j)
  <2>1. PICK j \in Node \ {i} : ReceiveSnapshot(i, j)
    BY <1>3
  <2>2. PICK s \in snapshot_info[j] :
           installing' = [installing EXCEPT ![i] = {[snapshot |-> s, step |-> "open"]}]
    BY <2>1 DEF ReceiveSnapshot
  <2>3. s \in Snapshot
    BY DEF TypeOK
  <2>4. [snapshot |-> s, step |-> "open"] \in [snapshot : Snapshot, step : Steps]
    BY <2>3
  <2>5. installing' \in [Node -> SUBSET [snapshot : Snapshot, step : Steps]]
    BY <2>2, <2>4 DEF TypeOK
  <2>6. \A k \in Node : conn[k] = "memory" => installing'[k] # {}
    BY <2>2 DEF TypeOK
  <2> QED BY <2>1, <2>5, <2>6 DEF ReceiveSnapshot, TypeOK, storeVars, history
<1>4. ASSUME NEW step, NEW next \in Steps, FinalizeStep(i, step, next)
      PROVE  /\ installing' \in [Node -> SUBSET [snapshot : Snapshot, step : Steps]]
             /\ \A k \in Node : installing[k] # {} => installing'[k] # {}
             /\ installing'[i] # {}
  <2>1. PICK s \in installing[i] :
           installing' = [installing EXCEPT ![i] = {[snapshot |-> s.snapshot, step |-> next]}]
    BY <1>4 DEF FinalizeStep
  <2>2. [snapshot |-> s.snapshot, step |-> next] \in [snapshot : Snapshot, step : Steps]
    BY FileTypes
  <2> QED BY <2>1, <2>2 DEF TypeOK
<1>5. CASE OpenInMemory(i)
  <2>1. FinalizeStep(i, "open", "truncate")
    BY <1>5 DEF OpenInMemory
  <2> QED BY <1>4, <1>5, <2>1 DEF OpenInMemory, TypeOK, history
<1>6. CASE TruncateFile(i)
  <2>1. FinalizeStep(i, "truncate", "copy")
    BY <1>6 DEF TruncateFile
  <2> QED BY <1>4, <1>6, <2>1, EmptyFileType DEF TruncateFile, Put, TypeOK, history
<1>7. CASE WriteFile(i)
  <2>1. FinalizeStep(i, "copy", "reopen")
    BY <1>7 DEF WriteFile
  <2>2. file' \in [Node -> File]
    BY <1>7, FileTypes DEF WriteFile, Put, TypeOK
  <2> QED BY <1>4, <1>7, <2>1, <2>2 DEF WriteFile, TypeOK
<1>8. CASE Reopen(i)
  <2>1. last_applied' \in [Node -> 0 .. MaxLog]
    BY <1>8, FileTypes DEF Reopen, TypeOK
  <2>2. file' \in [Node -> File]
    <3>1. [file[i] EXCEPT !.again = @ \cup Overtaken(i)] \in File
      BY AgainType, AgainTypes
    <3>2. file' = [file EXCEPT ![i] = [file[i] EXCEPT !.again = @ \cup Overtaken(i)]]
      BY <1>8 DEF Reopen, Put
    <3> QED BY <3>1, <3>2 DEF TypeOK
  <2> QED BY <1>8, <2>1, <2>2 DEF Reopen, TypeOK, history
<1> QED BY <1>1, <1>2, <1>3, <1>5, <1>6, <1>7, <1>8

LEMMA CrashTypes ==
    ASSUME TypeOK, NEW i \in Node, Crash(i) \/ Restart(i)
    PROVE  TypeOK'
<1>1. CASE Crash(i)
  <2>1. 0 \in 0 .. MaxLog
    BY StoreAssumption
  <2>2. file' \in [Node -> File]
    BY <1>1, AgainType, AgainTypes DEF Crash, Put, TypeOK
  <2> QED BY <1>1, <2>1, <2>2, EmptyFileType DEF Crash, TypeOK
<1>2. CASE Restart(i)
  BY <1>2, FileTypes DEF Restart, Put, Opened, LastApplied, TypeOK, history
<1> QED BY <1>1, <1>2

LEMMA TypeStep == TypeOK /\ [Next]_vars => TypeOK'
<1> SUFFICES ASSUME TypeOK, [Next]_vars PROVE TypeOK'
  OBVIOUS
<1>1. CASE UNCHANGED vars
  BY <1>1 DEF vars, storeVars, raftVars, history, TypeOK
<1>2. CASE Commit
  BY <1>2, StoreAssumption DEF Commit, TypeOK, storeVars, history
<1> QED BY <1>1, <1>2, LogTypes, ApplyTypes, SnapshotTypes, CrashTypes DEF Next

\* Every variable of the storage keeps its type, for any nodes and any bounds.
THEOREM TypeCorrect == Spec => []TypeOK
BY InitType, TypeStep, PTL DEF Spec
(***************************************************************************)
(* A step of a node leaves what is said of the others as it is.            *)
(***************************************************************************)
Local(i) ==
    /\ \A j \in Node \ {i} :
          /\ file'[j] = file[j] /\ conn'[j] = conn[j]
          /\ snapshot_info'[j] = snapshot_info[j] /\ status'[j] = status[j]
          /\ last_applied'[j] = last_applied[j] /\ hard_state'[j] = hard_state[j]
          /\ batch'[j] = batch[j] /\ compacting'[j] = compacting[j]
          /\ installing'[j] = installing[j]
          /\ (j \in installed' <=> j \in installed)
          /\ (j \in erased' <=> j \in erased) /\ (j \in foreign' <=> j \in foreign)
    /\ \A v \in votes' : v.node # i => v \in votes

LEMMA Others ==
    ASSUME NEW i \in Node, Local(i), NEW j \in Node \ {i}, NodeInv(j)
    PROVE  NodeInv(j)'
<1>1. /\ file'[j] = file[j] /\ conn'[j] = conn[j]
      /\ snapshot_info'[j] = snapshot_info[j] /\ status'[j] = status[j]
      /\ last_applied'[j] = last_applied[j] /\ hard_state'[j] = hard_state[j]
      /\ batch'[j] = batch[j] /\ compacting'[j] = compacting[j]
      /\ installing'[j] = installing[j]
      /\ (j \in installed' <=> j \in installed)
      /\ (j \in erased' <=> j \in erased) /\ (j \in foreign' <=> j \in foreign)
  BY DEF Local
<1>2. \A v \in votes' : v.node = j => v \in votes
  BY DEF Local
<1>3. FileInv(j)'
  BY <1>1 DEF NodeInv, FileInv
<1>4. AppliedInv(j)'
  BY <1>1 DEF NodeInv, AppliedInv, Whole
<1>5. InstallInv(j)'
  BY <1>1 DEF NodeInv, InstallInv
<1>6. DownInv(j)'
  BY <1>1 DEF NodeInv, DownInv
<1>7. Remembers(hard_state[j], j) => Remembers(hard_state[j], j)'
  BY <1>1, <1>2 DEF Remembers
<1>8. Remembers(file[j].hard_state, j) => Remembers(file[j].hard_state, j)'
  BY <1>1, <1>2 DEF Remembers
<1>9. VoteInv(j)'
  BY <1>1, <1>2, <1>7, <1>8 DEF NodeInv, VoteInv, Whole
<1>10. OnceInv(j)'
  BY <1>1 DEF NodeInv, OnceInv, Counted, InDoubt
<1> QED BY <1>3, <1>4, <1>5, <1>6, <1>9, <1>10 DEF NodeInv

\* A step that applies nothing and leaves the batch and the tables alone.
LEMMA OnceAlone ==
    ASSUME NEW i \in Node, NodeInv(i),
           file'[i].effects = file[i].effects, file'[i].again = file[i].again,
           file'[i].applied = file[i].applied,
           batch'[i] = batch[i], last_applied'[i] = last_applied[i],
           status'[i] = "up" => status[i] = "up",
           installing[i] # {} => installing'[i] # {},
           (\E s \in installing[i] : s.step = "reopen") => \E s \in installing'[i] : s.step = "reopen"
    PROVE  OnceInv(i)'
BY DEF NodeInv, OnceInv, Once, Behind, Counted, InDoubt

LEMMA EmptyIsGood == GoodFile(EmptyFile) /\ EmptyFile.log = 0
BY DEF GoodFile, Holds, EmptyFile

LEMMA FewerHold ==
    ASSUME NEW f, NEW n \in Int, NEW m \in Int, m <= n, Holds(f, n)
    PROVE  Holds(f, m)
BY DEF Holds

(***************************************************************************)
(* The log and the hard state.                                             *)
(***************************************************************************)
LEMMA ReplicateStep ==
    ASSUME TypeOK, NEW i \in Node, NodeInv(i), ReplicateToLog(i)
    PROVE  Local(i) /\ NodeInv(i)'
<1>1. /\ file' = [file EXCEPT ![i] = [file[i] EXCEPT !.log = @ + 1]]
      /\ UNCHANGED <<conn, snapshot_info, raftVars, history>>
      /\ installing[i] = {}
  BY DEF ReplicateToLog, Put, Free
<1>2. Local(i)
  BY <1>1 DEF Local, TypeOK, raftVars, history
<1>3. /\ file'[i].log = file[i].log + 1 /\ file'[i].effects = file[i].effects
      /\ file'[i].applied = file[i].applied /\ file'[i].hard_state = file[i].hard_state
      /\ file[i].log \in Int /\ file[i].applied \in Int /\ last_applied[i] \in Int
  BY <1>1, FileTypes DEF TypeOK, File
<1>4. file'[i].again = file[i].again
  BY <1>1, FileTypes DEF TypeOK, File
<1>5. FileInv(i)'
  <2>1. GoodFile(file[i])'
    BY <1>3 DEF GoodFile, Holds, NodeInv, FileInv
  <2>2. ASSUME NEW l \in compacting[i]
        PROVE  installing[i] = {} /\ l <= file'[i].log /\ Holds(file'[i], l)
    <3>1. l \in Int
      BY DEF TypeOK
    <3>2. installing[i] = {} /\ l <= file[i].log /\ Holds(file[i], l)
      BY DEF NodeInv, FileInv
    <3> QED BY <1>3, <3>1, <3>2 DEF Holds
  <2> QED BY <1>1, <2>1, <2>2 DEF NodeInv, FileInv, raftVars
<1>6. AppliedInv(i)'
  <2>1. Whole(i)
    BY <1>1 DEF Whole
  <2>2. last_applied[i] <= file'[i].log /\ Holds(file'[i], last_applied[i])
    BY <1>3, <2>1 DEF Holds, NodeInv, AppliedInv
  <2>3. \A b \in batch[i] : b.last <= file'[i].log /\ Holds(file'[i], b.next - 1)
    BY <1>3, <2>1, FileTypes DEF Holds, NodeInv, AppliedInv, Index
  <2> QED BY <1>1, <2>2, <2>3 DEF NodeInv, AppliedInv, raftVars
<1>7. InstallInv(i)' /\ DownInv(i)'
  BY <1>1 DEF NodeInv, InstallInv, DownInv, raftVars, history
<1>8. VoteInv(i)'
  BY <1>1, <1>3 DEF NodeInv, VoteInv, Remembers, Whole, raftVars, history
<1>9. OnceInv(i)'
  BY <1>1, <1>3, <1>4, OnceAlone DEF raftVars
<1> QED BY <1>2, <1>5, <1>6, <1>7, <1>8, <1>9 DEF NodeInv

\* A vote is in the hard state before it is given.
LEMMA VoteStep ==
    ASSUME TypeOK, NEW i \in Node, NodeInv(i), NEW t \in 1 .. MaxTerm, NEW c \in Candidate, Vote(i, t, c)
    PROVE  Local(i) /\ NodeInv(i)'
<1> DEFINE h == [term |-> t, voted_for |-> c]
<1>1. /\ file' = [file EXCEPT ![i] = [file[i] EXCEPT !.hard_state = h]]
      /\ hard_state' = [hard_state EXCEPT ![i] = h]
      /\ votes' = votes \cup {[node |-> i, term |-> t, candidate |-> c]}
      /\ UNCHANGED <<conn, snapshot_info, status, last_applied, batch, compacting, installing,
                     installed, erased, foreign>>
      /\ installing[i] = {} /\ status[i] = "up"
      /\ t > hard_state[i].term \/ (t = hard_state[i].term /\ hard_state[i].voted_for \in {Nobody, c})
  BY DEF Vote, Put, SaveHardState, Free
<1>2. Local(i)
  BY <1>1 DEF Local, TypeOK
<1>3. /\ file'[i].log = file[i].log /\ file'[i].effects = file[i].effects
      /\ file'[i].applied = file[i].applied /\ file'[i].hard_state = h
      /\ hard_state'[i] = h /\ file'[i].again = file[i].again
  BY <1>1, FileTypes DEF TypeOK, File
<1>4. FileInv(i)'
  BY <1>1, <1>3 DEF NodeInv, FileInv, GoodFile, Holds
<1>5. AppliedInv(i)'
  BY <1>1, <1>3 DEF NodeInv, AppliedInv, Whole, Holds
<1>6. InstallInv(i)' /\ DownInv(i)'
  BY <1>1 DEF NodeInv, InstallInv, DownInv
<1>7. VoteInv(i)'
  <2>1. SUFFICES ASSUME i \notin foreign \cup erased
                 PROVE  /\ Remembers(h, i)'
                        /\ \A u, v \in votes' : (u.node = i /\ v.node = i /\ u.term = v.term)
                              => u.candidate = v.candidate
    BY <1>1, <1>3 DEF VoteInv, Remembers
  <2>2. Remembers(hard_state[i], i)
    BY <1>1, <2>1 DEF NodeInv, VoteInv
  <2>3. ASSUME NEW v \in votes', v.node = i
        PROVE  v.term <= t /\ (v.term = t => v.candidate = c)
    <3>1. CASE v = [node |-> i, term |-> t, candidate |-> c]
      BY <3>1
    <3>2. CASE v \in votes
      <4>1. v.candidate \in Candidate /\ v.term \in Int /\ hard_state[i].term \in Int
        BY <3>2, FileTypes DEF TypeOK, HardState
      <4>2. /\ v.term <= hard_state[i].term
            /\ v.term = hard_state[i].term => v.candidate = hard_state[i].voted_for
        BY <2>2, <2>3, <3>2 DEF Remembers
      <4> QED BY <1>1, <4>1, <4>2, StoreAssumption
    <3> QED BY <1>1, <2>3, <3>1, <3>2
  <2>4. ASSUME NEW u \in votes', NEW v \in votes', u.node = i, v.node = i, u.term = v.term
        PROVE  u.candidate = v.candidate
    <3>1. CASE u.term = t
      BY <2>3, <2>4, <3>1
    <3>2. CASE u.term # t
      <4>1. u \in votes /\ v \in votes
        BY <1>1, <2>4, <3>2
      <4> QED BY <2>1, <2>4, <4>1 DEF NodeInv, VoteInv
    <3> QED BY <3>1, <3>2
  <2> QED BY <2>3, <2>4 DEF Remembers
<1>8. OnceInv(i)'
  BY <1>1, <1>3, OnceAlone
<1> QED BY <1>2, <1>4, <1>5, <1>6, <1>7, <1>8 DEF NodeInv
(***************************************************************************)
(* Applying entries.                                                       *)
(***************************************************************************)
LEMMA StartApplyStep ==
    ASSUME TypeOK, NEW i \in Node, NodeInv(i), StartApply(i)
    PROVE  Local(i) /\ NodeInv(i)'
<1>1. PICK last \in last_applied[i] + 1 .. commit :
         /\ last <= file[i].log
         /\ batch' = [batch EXCEPT ![i] = {[next |-> last_applied[i] + 1, last |-> last,
                                           step |-> "handed"]}]
  BY DEF StartApply
<1>2. /\ UNCHANGED <<storeVars, status, last_applied, hard_state, compacting, installing, commit, history>>
      /\ batch[i] = {} /\ installing[i] = {} /\ status[i] = "up"
  BY DEF StartApply, Free
<1>3. /\ last_applied[i] \in Int /\ last \in Int /\ last_applied[i] + 1 <= last
      /\ (last_applied[i] + 1) - 1 = last_applied[i]
  BY FileTypes DEF TypeOK
<1>4. batch'[i] = {[next |-> last_applied[i] + 1, last |-> last, step |-> "handed"]}
  BY <1>1 DEF TypeOK
<1>5. Local(i)
  BY <1>1, <1>2 DEF Local, TypeOK, storeVars, history
<1>6. FileInv(i)'
  BY <1>2 DEF NodeInv, FileInv, storeVars
<1>7. AppliedInv(i)'
  BY <1>1, <1>2, <1>3, <1>4 DEF NodeInv, AppliedInv, Whole, storeVars
<1>8. InstallInv(i)' /\ DownInv(i)'
  BY <1>2 DEF NodeInv, InstallInv, DownInv, storeVars, history
<1>9. VoteInv(i)'
  BY <1>2 DEF NodeInv, VoteInv, Remembers, Whole, storeVars, history
<1>10. OnceInv(i)'
  <2>1. Behind(file[i], last_applied[i]) /\ Once(file[i])
    BY <1>2 DEF NodeInv, OnceInv
  <2>2. \A e \in file[i].effects : e[1] \in file[i].again \/ e[1] <= file[i].applied
    BY <1>2 DEF NodeInv, OnceInv, Counted
  <2>3. \A x \in batch'[i] : x.next - 1 = last_applied[i]
    BY <1>3, <1>4
  <2> QED BY <1>2, <1>4, <2>1, <2>2, <2>3 DEF OnceInv, Counted, storeVars
<1> QED BY <1>5, <1>6, <1>7, <1>8, <1>9, <1>10 DEF NodeInv

\* An effect that the file holds already is one there is a reason for.
LEMMA ApplyStep ==
    ASSUME TypeOK, NEW i \in Node, NodeInv(i), Apply(i)
    PROVE  Local(i) /\ NodeInv(i)'
<1>1. PICK b \in batch[i] :
         /\ b.step \in {"handed", "applying"} /\ b.next <= b.last
         /\ Put(i, [file[i] EXCEPT !.effects = @ \cup {<<b.next, i, applications[i][b.next] + 1>>}])
         /\ Goes(i, b, b.next + 1, "applying")
  BY DEF Apply
<1>2. /\ status[i] = "up" /\ conn[i] = "file"
      /\ UNCHANGED <<conn, snapshot_info, status, last_applied, hard_state, compacting, installing,
                     votes, installed, erased, foreign>>
  BY DEF Apply
<1> DEFINE new == <<b.next, i, applications[i][b.next] + 1>>
           bb == [next |-> b.next + 1, last |-> b.last, step |-> "applying"]
<1>3. /\ file'[i].effects = file[i].effects \cup {new}
      /\ file'[i].log = file[i].log /\ file'[i].applied = file[i].applied
      /\ file'[i].hard_state = file[i].hard_state /\ file'[i].again = file[i].again
      /\ batch'[i] = {bb}
  BY <1>1, FileTypes DEF Put, Goes, TypeOK, File
<1>4. /\ b.next \in Int /\ b.last \in Int /\ last_applied[i] \in Int /\ new[1] = b.next
      /\ bb.next = b.next + 1 /\ bb.last = b.last /\ bb.step = "applying"
  BY FileTypes DEF Index
<1> HIDE DEF new, bb
<1>5. Local(i)
  BY <1>1, <1>2 DEF Local, Put, Goes, TypeOK
<1>6. \A n \in Int : Holds(file[i], n) => Holds(file'[i], n)
  BY <1>3 DEF Holds
<1>7. FileInv(i)'
  <2>1. file[i].applied \in Int /\ \A l \in compacting[i] : l \in Int
    BY FileTypes DEF TypeOK
  <2>2. GoodFile(file'[i])
    BY <1>3, <1>6, <2>1 DEF NodeInv, FileInv, GoodFile
  <2>3. \A l \in compacting[i] : Holds(file'[i], l) /\ installing[i] = {} /\ l <= file'[i].log
    BY <1>3, <1>6, <2>1 DEF NodeInv, FileInv
  <2> QED BY <1>2, <2>2, <2>3 DEF NodeInv, FileInv
<1>8. \A s \in installing[i] : s.step = "open"
  BY <1>2 DEF NodeInv, InstallInv
<1>9. AppliedInv(i)'
  <2>1. Whole(i)
    BY <1>8 DEF Whole
  <2>2. Holds(file[i], b.next - 1) /\ b.last <= file[i].log
    BY <2>1 DEF NodeInv, AppliedInv
  <2>3. Holds(file'[i], b.next)
    <3>1. SUFFICES ASSUME NEW k \in 1 .. b.next
                   PROVE  \E e \in file'[i].effects : e[1] = k
      BY DEF Holds
    <3>2. CASE k = b.next
      BY <1>3, <1>4, <3>2
    <3>3. CASE k # b.next
      <4>1. k \in 1 .. b.next - 1
        BY <1>4, <3>3
      <4> QED BY <1>3, <2>2, <4>1 DEF Holds
    <3> QED BY <3>2, <3>3
  <2>4. last_applied[i] <= file'[i].log /\ Holds(file'[i], last_applied[i])
    BY <1>3, <1>4, <1>6, <2>1 DEF NodeInv, AppliedInv
  <2>5. bb.next - 1 = b.next /\ bb.next <= bb.last + 1
    BY <1>1, <1>4
  <2>6. \A x, y \in batch'[i] : x = y
    BY <1>3
  <2>7. \A x \in batch'[i] : /\ x.next <= x.last + 1 /\ x.last <= file'[i].log
                             /\ Holds(file'[i], x.next - 1) /\ x.step = "applying"
    BY <1>3, <1>4, <2>2, <2>3, <2>5
  <2> QED BY <1>2, <2>4, <2>6, <2>7 DEF AppliedInv
<1>10. InstallInv(i)'
  <2>2. \A s \in installing[i] : \A x \in batch'[i] : x.last < s.snapshot.index
    BY <1>3, <1>4 DEF NodeInv, InstallInv
  <2> QED BY <1>2, <1>3, <1>8, <2>2 DEF NodeInv, InstallInv
<1>11. DownInv(i)'
  BY <1>2 DEF DownInv
<1>12. VoteInv(i)'
  BY <1>2, <1>3 DEF NodeInv, VoteInv, Remembers, Whole
<1>13. OnceInv(i)'
  <2>1. Behind(file[i], b.next - 1) /\ \A e \in file[i].effects : e[1] \in Int
    BY <1>1, <1>2, <1>8, FileTypes DEF NodeInv, OnceInv, Index
  <2>2. Once(file'[i])
    <3>1. SUFFICES ASSUME NEW e \in file'[i].effects, NEW g \in file'[i].effects, e[1] = g[1], e # g
                   PROVE  e[1] \in file[i].again
      BY <1>3 DEF Once
    <3>2. CASE e \in file[i].effects /\ g \in file[i].effects
      BY <3>1, <3>2 DEF NodeInv, OnceInv, Once
    <3>3. CASE e = new \/ g = new
      <4>1. PICK o \in file[i].effects : o[1] = b.next /\ e[1] = b.next
        BY <1>3, <1>4, <3>1, <3>3
      <4>2. ~(b.next <= b.next - 1)
        BY <1>4
      <4> QED BY <2>1, <4>1, <4>2 DEF Behind
    <3> QED BY <1>3, <3>1, <3>2, <3>3
  <2>3. ASSUME NEW e \in file'[i].effects PROVE Counted(i, e)'
    <3>1. InDoubt(i, bb)' /\ bb \in batch'[i]
      BY <1>3, <1>4 DEF InDoubt
    <3>2. CASE e = new
      <4>1. e[1] < bb.next
        BY <1>4, <3>2
      <4> QED BY <3>1, <4>1 DEF Counted
    <3>3. CASE e \in file[i].effects
      <4>1. e[1] \in file[i].again \/ e[1] <= file[i].applied \/ e[1] < b.next
        BY <3>3 DEF NodeInv, OnceInv, Counted, AppliedInv
      <4>2. e[1] < b.next => e[1] < bb.next
        BY <1>4, <2>1, <3>3
      <4> QED BY <1>3, <3>1, <4>1, <4>2 DEF Counted
    <3> QED BY <1>3, <3>2, <3>3
  <2>4. \A x \in batch'[i] : Behind(file'[i], x.next - 1)
    <3>1. bb.next - 1 = b.next
      BY <1>4
    <3>2. ASSUME NEW e \in file'[i].effects PROVE e[1] <= b.next \/ e[1] \in file'[i].again
      <4>1. CASE e = new
        BY <1>4, <4>1
      <4>2. CASE e \in file[i].effects
        BY <1>3, <1>4, <2>1, <4>2 DEF Behind
      <4> QED BY <1>3, <4>1, <4>2
    <3> QED BY <1>3, <3>1, <3>2 DEF Behind
  <2>5. batch'[i] # {}
    BY <1>3
  <2> QED BY <2>2, <2>3, <2>4, <2>5 DEF OnceInv
<1> QED BY <1>5, <1>7, <1>9, <1>10, <1>11, <1>12, <1>13 DEF NodeInv

\* A batch that fails, before its first entry or when it is counted, has met the
\* empty database of an installation.
LEMMA FailedStep ==
    ASSUME TypeOK, NEW i \in Node, NodeInv(i), NEW b \in batch[i],
           conn[i] = "memory", b.step = "applying" => b.next > b.last,
           Goes(i, b, b.next, "failed"),
           UNCHANGED <<storeVars, status, last_applied, hard_state, compacting, installing, commit, history>>
    PROVE  Local(i) /\ NodeInv(i)'
<1> DEFINE bb == [next |-> b.next, last |-> b.last, step |-> "failed"]
<1>1. batch'[i] = {bb} /\ bb.next = b.next /\ bb.last = b.last /\ bb.step = "failed"
  BY DEF Goes, TypeOK
<1> HIDE DEF bb
<1>2. installing[i] # {}
  BY DEF TypeOK
<1>3. Local(i)
  BY DEF Local, Goes, TypeOK, storeVars, history
<1>4. FileInv(i)'
  BY DEF NodeInv, FileInv, storeVars
<1>5. AppliedInv(i)'
  <2>1. \A x, y \in batch'[i] : x = y
    BY <1>1
  <2>2. \A x \in batch'[i] : x.next = b.next /\ x.last = b.last /\ x.step = "failed"
    BY <1>1
  <2> QED BY <2>1, <2>2 DEF NodeInv, AppliedInv, Whole, storeVars
<1>6. InstallInv(i)'
  <2>1. \A x \in batch'[i] : x.last = b.last /\ x.step = "failed"
    BY <1>1
  <2> QED BY <2>1 DEF NodeInv, InstallInv, storeVars, history
<1>7. DownInv(i)'
  <2>1. status[i] # "down"
    BY DEF NodeInv, DownInv
  <2> QED BY <2>1 DEF DownInv
<1>8. VoteInv(i)'
  BY DEF NodeInv, VoteInv, Remembers, Whole, storeVars, history
<1>9. OnceInv(i)'
  <2>1. ASSUME NEW e \in file[i].effects PROVE Counted(i, e)'
    <3>1. e[1] \in file[i].again \/ e[1] <= file[i].applied \/ e[1] < b.next
      BY DEF NodeInv, OnceInv, Counted, AppliedInv
    <3>2. InDoubt(i, bb)' /\ bb \in batch'[i]
      BY <1>1, <1>2 DEF InDoubt
    <3> QED BY <1>1, <3>1, <3>2 DEF Counted, storeVars
  <2>2. batch'[i] # {} /\ \A x \in batch'[i] : x.step = "failed"
    BY <1>1
  <2> QED BY <2>1, <2>2 DEF NodeInv, OnceInv, storeVars
<1> QED BY <1>3, <1>4, <1>5, <1>6, <1>7, <1>8, <1>9 DEF NodeInv

LEMMA ApplyFailsStep ==
    ASSUME TypeOK, NEW i \in Node, NodeInv(i), ApplyFails(i)
    PROVE  Local(i) /\ NodeInv(i)'
<1>1. PICK b \in batch[i] : conn[i] = "memory" /\ b.step = "handed" /\ Goes(i, b, b.next, "failed")
  BY DEF ApplyFails
<1> QED BY <1>1, FailedStep DEF ApplyFails

\* last_applied is only written on a connection that is open on the file.
LEMMA SetLastAppliedStep ==
    ASSUME TypeOK, NEW i \in Node, NodeInv(i), SetLastApplied(i)
    PROVE  Local(i) /\ NodeInv(i)'
<1>1. PICK b \in batch[i] :
         /\ b.step = "applying" /\ b.next > b.last
         /\ \/ /\ conn[i] = "file"
               /\ Put(i, [file[i] EXCEPT !.applied = b.last])
               /\ Goes(i, b, b.next, "counted")
            \/ conn[i] # "file" /\ Goes(i, b, b.next, "failed") /\ UNCHANGED file
  BY DEF SetLastApplied, Applied
<1>2. /\ status[i] = "up"
      /\ UNCHANGED <<conn, snapshot_info, status, last_applied, hard_state, compacting, installing, commit,
                     history>>
  BY DEF SetLastApplied
<1>3. CASE conn[i] # "file" /\ Goes(i, b, b.next, "failed") /\ UNCHANGED file
  <2>1. conn[i] = "memory"
    BY <1>3 DEF TypeOK
  <2> QED BY <1>1, <1>2, <1>3, <2>1, FailedStep DEF storeVars
<1>4. CASE conn[i] = "file" /\ Put(i, [file[i] EXCEPT !.applied = b.last]) /\ Goes(i, b, b.next, "counted")
  <2> DEFINE bb == [next |-> b.next, last |-> b.last, step |-> "counted"]
  <2>1. /\ file'[i].effects = file[i].effects /\ file'[i].log = file[i].log
        /\ file'[i].applied = b.last /\ file'[i].hard_state = file[i].hard_state
        /\ file'[i].again = file[i].again
    BY <1>4, FileTypes DEF Put, TypeOK, File
  <2>2. batch'[i] = {bb} /\ bb.next = b.next /\ bb.last = b.last /\ bb.step = "counted"
    BY <1>4 DEF Goes, TypeOK
  <2> HIDE DEF bb
  <2>3. b.next \in Int /\ b.last \in Int /\ b.next - 1 = b.last /\ b.next <= b.last + 1
    BY <1>1, FileTypes DEF NodeInv, AppliedInv, Index
  <2>4. Whole(i) /\ \A s \in installing[i] : s.step = "open"
    BY <1>4 DEF NodeInv, InstallInv, Whole
  <2>5. b.last <= file[i].log /\ Holds(file[i], b.last)
    BY <2>3, <2>4 DEF NodeInv, AppliedInv
  <2>6. Local(i)
    BY <1>2, <1>4 DEF Local, Put, Goes, TypeOK, history
  <2>7. FileInv(i)'
    BY <1>2, <2>1, <2>5 DEF NodeInv, FileInv, GoodFile, Holds
  <2>8. AppliedInv(i)'
    <3>1. \A x, y \in batch'[i] : x = y
      BY <2>2
    <3>2. \A x \in batch'[i] : x.next = b.next /\ x.last = b.last
      BY <2>2
    <3>3. last_applied[i] <= file[i].log /\ Holds(file[i], last_applied[i])
      BY <2>4 DEF NodeInv, AppliedInv
    <3> QED BY <1>1, <1>2, <2>1, <2>3, <2>5, <3>1, <3>2, <3>3 DEF AppliedInv, Holds
  <2>9. InstallInv(i)'
    <3>1. \A x \in batch'[i] : x.last = b.last
      BY <2>2
    <3> QED BY <1>2, <2>1, <2>4, <3>1 DEF NodeInv, InstallInv
  <2>10. DownInv(i)' /\ VoteInv(i)'
    BY <1>2, <2>1 DEF NodeInv, DownInv, VoteInv, Remembers, Whole, history
  <2>11. OnceInv(i)'
    <3>1. Behind(file[i], b.last) /\ Once(file[i])
      BY <1>1, <1>2, <2>3, <2>4 DEF NodeInv, OnceInv
    <3>2. \A e \in file'[i].effects : Counted(i, e)'
      BY <2>1, <3>1 DEF Behind, Counted
    <3>3. batch'[i] # {} /\ \A x \in batch'[i] : x.next - 1 = b.last
      BY <2>2, <2>3
    <3> QED BY <2>1, <3>1, <3>2, <3>3 DEF OnceInv, Once, Behind
  <2> QED BY <2>6, <2>7, <2>8, <2>9, <2>10, <2>11 DEF NodeInv
<1> QED BY <1>1, <1>3, <1>4

\* Raft learns of the end of a batch, and never of one that was cut off.
LEMMA EndBatchStep ==
    ASSUME TypeOK, NEW i \in Node, NodeInv(i), EndBatch(i)
    PROVE  Local(i) /\ NodeInv(i)'
<1>1. PICK b \in batch[i] :
         /\ batch' = [batch EXCEPT ![i] = {}]
         /\ \/ /\ b.step = "counted"
               /\ last_applied' = [last_applied EXCEPT ![i] = b.last]
               /\ UNCHANGED status
            \/ /\ b.step = "failed"
               /\ status' = [status EXCEPT ![i] = "stopped"]
               /\ UNCHANGED last_applied
  BY DEF EndBatch
<1>2. /\ UNCHANGED <<storeVars, hard_state, compacting, installing, commit, history>>
      /\ installing[i] = {} /\ status[i] = "up"
  BY DEF EndBatch, Free
<1>3. batch'[i] = {}
  BY <1>1 DEF TypeOK
<1>4. Local(i)
  BY <1>1, <1>2 DEF Local, TypeOK, storeVars, history
<1>5. Whole(i)
  BY <1>2 DEF Whole
<1>6. b.step = "counted" => b.next - 1 = b.last /\ b.last <= file[i].log /\ Holds(file[i], b.last)
  <2>1. b.next \in Int /\ b.last \in Int
    BY FileTypes DEF Index
  <2>2. /\ b.step = "counted" => b.next > b.last
        /\ b.next <= b.last + 1 /\ b.last <= file[i].log /\ Holds(file[i], b.next - 1)
    BY <1>5 DEF NodeInv, AppliedInv
  <2>3. b.step = "counted" => b.next - 1 = b.last
    BY <2>1, <2>2
  <2> QED BY <2>2, <2>3
<1>7. status'[i] # "down" /\ (status'[i] = "up" => b.step = "counted" /\ last_applied'[i] = b.last)
  BY <1>1, <1>2 DEF TypeOK
<1>8. last_applied'[i] = last_applied[i] \/ (b.step = "counted" /\ last_applied'[i] = b.last)
  BY <1>1 DEF TypeOK
<1>9. FileInv(i)'
  BY <1>2 DEF NodeInv, FileInv, storeVars
<1>10. AppliedInv(i)'
  BY <1>2, <1>3, <1>5, <1>6, <1>8 DEF NodeInv, AppliedInv, storeVars
<1>11. InstallInv(i)' /\ DownInv(i)'
  BY <1>2, <1>7 DEF InstallInv, DownInv
<1>12. VoteInv(i)'
  BY <1>2, <1>7 DEF NodeInv, VoteInv, Remembers, Whole, storeVars, history
<1>13. OnceInv(i)'
  <2>1. ASSUME NEW e \in file[i].effects PROVE e[1] \in file[i].again \/ e[1] <= file[i].applied
    <3>1. \A x \in batch[i] : x = b
      BY DEF NodeInv, AppliedInv
    <3>2. b.step # "applying"
      BY <1>1
    <3> QED BY <1>2, <3>1, <3>2 DEF NodeInv, OnceInv, Counted, InDoubt
  <2>2. b.step = "counted" => Behind(file[i], b.last)
    BY <1>2, <1>6 DEF NodeInv, OnceInv
  <2> QED BY <1>2, <1>3, <1>7, <2>1, <2>2 DEF NodeInv, OnceInv, Counted, storeVars
<1> QED BY <1>4, <1>9, <1>10, <1>11, <1>12, <1>13 DEF NodeInv
(***************************************************************************)
(* Snapshots.                                                              *)
(***************************************************************************)
LEMMA StartCompactionStep ==
    ASSUME TypeOK, NEW i \in Node, NodeInv(i), StartCompaction(i)
    PROVE  Local(i) /\ NodeInv(i)'
<1>1. /\ compacting' = [compacting EXCEPT ![i] = {file[i].applied}]
      /\ UNCHANGED <<storeVars, status, last_applied, hard_state, batch, installing, commit, history>>
      /\ installing[i] = {}
  BY DEF StartCompaction, Free
<1>2. compacting'[i] = {file[i].applied}
  BY <1>1 DEF TypeOK
<1>3. Local(i)
  BY <1>1 DEF Local, TypeOK, storeVars, history
<1>4. FileInv(i)'
  BY <1>1, <1>2 DEF NodeInv, FileInv, GoodFile, storeVars
<1>5. AppliedInv(i)' /\ InstallInv(i)' /\ DownInv(i)'
  BY <1>1 DEF NodeInv, AppliedInv, InstallInv, DownInv, Whole, storeVars, history
<1>6. VoteInv(i)'
  BY <1>1 DEF NodeInv, VoteInv, Remembers, Whole, storeVars, history
<1>7. OnceInv(i)'
  BY <1>1, OnceAlone DEF storeVars
<1> QED BY <1>3, <1>4, <1>5, <1>6, <1>7 DEF NodeInv

\* The label of a snapshot is older than the file that is copied, never newer.
LEMMA CopyFileStep ==
    ASSUME TypeOK, NEW i \in Node, NodeInv(i), CopyFile(i)
    PROVE  Local(i) /\ NodeInv(i)'
<1>1. PICK l \in compacting[i] :
         /\ snapshot_info' = [snapshot_info EXCEPT ![i] = {[index |-> l, file |->
               [file[i] EXCEPT !.again = @ \cup Ahead(file[i], l)]]}]
         /\ compacting' = [compacting EXCEPT ![i] = {}]
  BY DEF CopyFile
<1>2. UNCHANGED <<file, conn, status, last_applied, hard_state, batch, installing, commit, history>>
  BY DEF CopyFile
<1> DEFINE copy == [file[i] EXCEPT !.again = @ \cup Ahead(file[i], l)]
<1>3. snapshot_info'[i] = {[index |-> l, file |-> copy]} /\ compacting'[i] = {}
  BY <1>1 DEF TypeOK
<1>4. Local(i)
  BY <1>1, <1>2 DEF Local, TypeOK, history
<1>5. /\ copy.effects = file[i].effects /\ copy.log = file[i].log /\ copy.applied = file[i].applied
      /\ copy.again = file[i].again \cup Ahead(file[i], l)
      /\ l \in Int /\ file[i].applied \in Int
  BY FileTypes DEF TypeOK, File
<1> HIDE DEF copy
<1>6. GoodFile(copy) /\ l <= copy.log /\ Holds(copy, l)
  BY <1>5 DEF NodeInv, FileInv, GoodFile, Holds
<1>7. Once(copy)
  BY <1>5 DEF NodeInv, OnceInv, Once
<1>8. Behind(copy, l) /\ Behind(copy, copy.applied)
  <2>1. \A e \in file[i].effects : e[1] \in Int
    BY FileTypes DEF Index
  <2> QED BY <1>5, <2>1 DEF Behind, Ahead
<1>9. GoodSnapshot([index |-> l, file |-> copy])
  BY <1>6, <1>7, <1>8 DEF GoodSnapshot
<1>10. FileInv(i)'
  BY <1>2, <1>3, <1>9 DEF NodeInv, FileInv
<1>11. AppliedInv(i)' /\ InstallInv(i)' /\ DownInv(i)'
  BY <1>2 DEF NodeInv, AppliedInv, InstallInv, DownInv, Whole, history
<1>12. VoteInv(i)'
  BY <1>2 DEF NodeInv, VoteInv, Remembers, Whole, history
<1>13. OnceInv(i)'
  BY <1>2, OnceAlone
<1> QED BY <1>4, <1>10, <1>11, <1>12, <1>13 DEF NodeInv

LEMMA ReceiveSnapshotStep ==
    ASSUME TypeOK, NEW i \in Node, NEW j \in Node, NodeInv(i), NodeInv(j), ReceiveSnapshot(i, j)
    PROVE  Local(i) /\ NodeInv(i)'
<1>1. PICK s \in snapshot_info[j] :
         /\ file[i].log < s.index
         /\ installing' = [installing EXCEPT ![i] = {[snapshot |-> s, step |-> "open"]}]
         /\ compacting' = [compacting EXCEPT ![i] = {}]
  BY DEF ReceiveSnapshot
<1>2. /\ UNCHANGED <<storeVars, status, last_applied, hard_state, batch, commit, history>>
      /\ status[i] = "up" /\ installing[i] = {}
  BY DEF ReceiveSnapshot, Free
<1>3. installing'[i] = {[snapshot |-> s, step |-> "open"]} /\ compacting'[i] = {}
  BY <1>1 DEF TypeOK
<1>4. Local(i)
  BY <1>1, <1>2 DEF Local, TypeOK, storeVars, history
<1>5. Whole(i) /\ Whole(i)'
  BY <1>2, <1>3 DEF Whole
<1>6. FileInv(i)'
  BY <1>2, <1>3 DEF NodeInv, FileInv, storeVars
<1>7. AppliedInv(i)'
  BY <1>2, <1>5 DEF NodeInv, AppliedInv, storeVars
<1>8. InstallInv(i)'
  <2>1. GoodSnapshot(s)
    BY DEF NodeInv, FileInv
  <2>2. s.index \in Int /\ file[i].log \in Int /\ last_applied[i] \in Int
    BY FileTypes
  <2>3. last_applied[i] < s.index
    BY <1>1, <1>5, <2>2 DEF NodeInv, AppliedInv
  <2>4. \A b \in batch[i] : b.last < s.index
    BY <1>1, <1>5, <2>2, FileTypes DEF NodeInv, AppliedInv, Index
  <2>5. \A x \in installing'[i] : x.snapshot = s /\ x.step = "open"
    BY <1>3
  <2>6. \A x, y \in installing'[i] : x = y
    BY <1>3
  <2> QED BY <1>1, <1>2, <2>1, <2>3, <2>4, <2>5, <2>6 DEF InstallInv, storeVars
<1>9. DownInv(i)'
  BY <1>2 DEF DownInv
<1>10. VoteInv(i)'
  BY <1>2, <1>5 DEF NodeInv, VoteInv, Remembers, storeVars, history
<1>11. OnceInv(i)'
  BY <1>2, OnceAlone DEF storeVars
<1> QED BY <1>4, <1>6, <1>7, <1>8, <1>9, <1>10, <1>11 DEF NodeInv

LEMMA FinalizeLocal ==
    ASSUME TypeOK, NEW i \in Node, NodeInv(i), NEW step, NEW next, FinalizeStep(i, step, next)
    PROVE  /\ status[i] = "up" /\ compacting[i] = {}
           /\ \E s \in installing[i] : /\ s.step = step
                                       /\ installing'[i] = {[snapshot |-> s.snapshot, step |-> next]}
           /\ \A j \in Node \ {i} : installing'[j] = installing[j]
BY DEF FinalizeStep, NodeInv, FileInv, TypeOK

LEMMA OpenInMemoryStep ==
    ASSUME TypeOK, NEW i \in Node, NodeInv(i), OpenInMemory(i)
    PROVE  Local(i) /\ NodeInv(i)'
<1>1. /\ FinalizeStep(i, "open", "truncate")
      /\ \A b \in batch[i] : b.step = "applying" => b.next > b.last
      /\ conn' = [conn EXCEPT ![i] = "memory"]
      /\ UNCHANGED <<file, snapshot_info, status, last_applied, hard_state, batch, compacting, commit, history>>
  BY DEF OpenInMemory
<1>2. PICK s \in installing[i] :
         s.step = "open" /\ installing'[i] = {[snapshot |-> s.snapshot, step |-> "truncate"]}
  BY <1>1, FinalizeLocal
<1>3. status[i] = "up" /\ compacting[i] = {} /\ conn'[i] = "memory"
  BY <1>1, FinalizeLocal DEF TypeOK
<1>4. \A x \in installing'[i] : x.snapshot = s.snapshot /\ x.step = "truncate"
  BY <1>2
<1>5. \A x, y \in installing'[i] : x = y
  BY <1>2
<1>6. Local(i)
  BY <1>1, FinalizeLocal DEF Local, TypeOK, history
<1>7. Whole(i)' /\ Whole(i)
  BY <1>2, <1>4 DEF Whole, NodeInv, InstallInv
<1>8. FileInv(i)'
  BY <1>1, <1>3 DEF NodeInv, FileInv
<1>9. AppliedInv(i)'
  BY <1>1, <1>7 DEF NodeInv, AppliedInv
<1>10. InstallInv(i)' /\ DownInv(i)'
  BY <1>1, <1>2, <1>3, <1>4, <1>5 DEF NodeInv, InstallInv, DownInv
<1>11. VoteInv(i)'
  BY <1>1, <1>7 DEF NodeInv, VoteInv, Remembers, history
<1>12. OnceInv(i)'
  <2>1. \A x \in installing[i] : x.step # "reopen"
    BY <1>2 DEF NodeInv, InstallInv
  <2> QED BY <1>1, <1>2, <2>1, OnceAlone
<1> QED BY <1>6, <1>8, <1>9, <1>10, <1>11, <1>12 DEF NodeInv

LEMMA TruncateFileStep ==
    ASSUME TypeOK, NEW i \in Node, NodeInv(i), TruncateFile(i)
    PROVE  Local(i) /\ NodeInv(i)'
<1>1. /\ FinalizeStep(i, "truncate", "copy")
      /\ file' = [file EXCEPT ![i] = EmptyFile]
      /\ UNCHANGED <<conn, snapshot_info, status, last_applied, hard_state, batch, compacting, commit, history>>
  BY DEF TruncateFile, Put
<1>2. PICK s \in installing[i] :
         s.step = "truncate" /\ installing'[i] = {[snapshot |-> s.snapshot, step |-> "copy"]}
  BY <1>1, FinalizeLocal
<1>3. status[i] = "up" /\ compacting[i] = {} /\ file'[i] = EmptyFile
  BY <1>1, FinalizeLocal DEF TypeOK
<1>4. \A x \in installing'[i] : x.snapshot = s.snapshot /\ x.step = "copy"
  BY <1>2
<1>5. \A x, y \in installing'[i] : x = y
  BY <1>2
<1>6. Local(i)
  BY <1>1, FinalizeLocal DEF Local, TypeOK, history
<1>7. ~Whole(i)'
  BY <1>2, <1>4 DEF Whole
<1>8. FileInv(i)'
  BY <1>1, <1>3, EmptyIsGood DEF NodeInv, FileInv
<1>9. AppliedInv(i)'
  BY <1>1, <1>7 DEF NodeInv, AppliedInv
<1>10. InstallInv(i)' /\ DownInv(i)'
  BY <1>1, <1>2, <1>3, <1>4, <1>5 DEF NodeInv, InstallInv, DownInv
<1>11. VoteInv(i)'
  BY <1>1, <1>7 DEF NodeInv, VoteInv, Remembers, history
<1>12. OnceInv(i)'
  <2>1. EmptyFile.effects = {}
    BY DEF EmptyFile
  <2> QED BY <1>3, <2>1 DEF OnceInv, Once, Behind
<1> QED BY <1>6, <1>8, <1>9, <1>10, <1>11, <1>12 DEF NodeInv

\* The file of the snapshot holds all that Raft believes to be applied here.
LEMMA WriteFileStep ==
    ASSUME TypeOK, NEW i \in Node, NodeInv(i), WriteFile(i)
    PROVE  Local(i) /\ NodeInv(i)'
<1>1. PICK s \in installing[i] : file' = [file EXCEPT ![i] = s.snapshot.file]
  BY DEF WriteFile, Put
<1>2. /\ FinalizeStep(i, "copy", "reopen")
      /\ installed' = installed \cup {i}
      /\ UNCHANGED <<conn, snapshot_info, status, last_applied, hard_state, batch, compacting, commit,
                     votes, erased, foreign>>
  BY DEF WriteFile
<1>3. s.step = "copy" /\ installing'[i] = {[snapshot |-> s.snapshot, step |-> "reopen"]}
  BY <1>2, FinalizeLocal DEF NodeInv, InstallInv
<1>4. status[i] = "up" /\ compacting[i] = {} /\ file'[i] = s.snapshot.file
  BY <1>1, <1>2, FinalizeLocal DEF TypeOK
<1>5. \A x \in installing'[i] : x.snapshot = s.snapshot /\ x.step = "reopen"
  BY <1>3
<1>6. \A x, y \in installing'[i] : x = y
  BY <1>3
<1>7. Local(i)
  BY <1>1, <1>2, FinalizeLocal DEF Local, TypeOK
<1>8. GoodSnapshot(s.snapshot) /\ last_applied[i] < s.snapshot.index
  BY DEF NodeInv, InstallInv
<1>9. s.snapshot.index \in Int /\ s.snapshot.file.log \in Int /\ last_applied[i] \in Int
  BY FileTypes DEF File
<1>10. FileInv(i)'
  BY <1>2, <1>4, <1>8 DEF NodeInv, FileInv, GoodSnapshot
<1>11. AppliedInv(i)'
  <2>1. last_applied[i] <= file'[i].log /\ Holds(file'[i], last_applied[i])
    BY <1>4, <1>8, <1>9, FewerHold DEF GoodSnapshot
  <2>2. ASSUME NEW b \in batch[i]
        PROVE  b.last <= file'[i].log /\ Holds(file'[i], b.next - 1)
    <3>1. b.last < s.snapshot.index /\ b.next <= b.last + 1 /\ b.last \in Int /\ b.next \in Int
      BY FileTypes DEF NodeInv, InstallInv, AppliedInv, Index
    <3>2. b.next - 1 <= s.snapshot.index /\ b.next - 1 \in Int
      BY <1>9, <3>1
    <3> QED BY <1>4, <1>8, <1>9, <3>1, <3>2, FewerHold DEF GoodSnapshot
  <2> QED BY <1>2, <2>1, <2>2 DEF NodeInv, AppliedInv
<1>12. InstallInv(i)' /\ DownInv(i)'
  BY <1>2, <1>3, <1>4, <1>5, <1>6, <1>8 DEF NodeInv, InstallInv, DownInv
<1>13. VoteInv(i)'
  BY <1>2 DEF NodeInv, VoteInv, Remembers
<1>14. OnceInv(i)'
  <2>1. \E x \in installing'[i] : x.step = "reopen"
    BY <1>3
  <2> QED BY <1>4, <1>8, <2>1 DEF OnceInv, GoodSnapshot, Behind, Counted
<1> QED BY <1>7, <1>10, <1>11, <1>12, <1>13, <1>14 DEF NodeInv

LEMMA ReopenStep ==
    ASSUME TypeOK, NEW i \in Node, NodeInv(i), Reopen(i)
    PROVE  Local(i) /\ NodeInv(i)'
<1>1. PICK s \in installing[i] :
         s.step = "reopen" /\ last_applied' = [last_applied EXCEPT ![i] = s.snapshot.index]
  BY DEF Reopen
<1>2. /\ status[i] = "up"
      /\ conn' = [conn EXCEPT ![i] = "file"]
      /\ installing' = [installing EXCEPT ![i] = {}]
      /\ file' = [file EXCEPT ![i] = [file[i] EXCEPT !.again = @ \cup Overtaken(i)]]
      /\ UNCHANGED <<snapshot_info, status, hard_state, batch, compacting, commit, history>>
  BY DEF Reopen, Put
<1>3. installing'[i] = {} /\ last_applied'[i] = s.snapshot.index
  BY <1>1, <1>2 DEF TypeOK
<1>4. /\ file'[i].effects = file[i].effects /\ file'[i].log = file[i].log
       /\ file'[i].applied = file[i].applied /\ file'[i].hard_state = file[i].hard_state
       /\ file'[i].again = file[i].again \cup Overtaken(i)
  BY <1>2, FileTypes DEF TypeOK, File
<1>5. Local(i)
  BY <1>1, <1>2 DEF Local, TypeOK, history
<1>6. GoodSnapshot(s.snapshot) /\ file[i] = s.snapshot.file /\ i \in installed
  BY <1>1 DEF NodeInv, InstallInv
<1>7. Whole(i)
  BY <1>1 DEF Whole, NodeInv, InstallInv
<1>8. FileInv(i)'
  BY <1>2, <1>3, <1>4 DEF NodeInv, FileInv, GoodFile, Holds
<1>9. AppliedInv(i)'
  BY <1>2, <1>3, <1>6, <1>7, <1>4 DEF NodeInv, AppliedInv, GoodSnapshot, Holds
<1>10. InstallInv(i)' /\ DownInv(i)'
  BY <1>2, <1>3 DEF InstallInv, DownInv
<1>11. VoteInv(i)'
  BY <1>2, <1>6, <1>4 DEF NodeInv, VoteInv, Remembers, history
<1>12. OnceInv(i)'
  <2>1. /\ Once(file[i]) /\ Behind(file[i], s.snapshot.index)
        /\ Behind(file[i], file[i].applied)
    BY <1>6 DEF GoodSnapshot
  <2>2. Once(file'[i]) /\ Behind(file'[i], s.snapshot.index)
    BY <1>4, <2>1 DEF Once, Behind
  <2>3. \A e \in file'[i].effects : Counted(i, e)'
    BY <1>4, <2>1 DEF Behind, Counted
  <2>4. ASSUME NEW b \in batch[i], b.step # "failed" PROVE Behind(file'[i], b.next - 1)
    <3>1. b.next \in Int /\ \A e \in file[i].effects : e[1] \in Int
      BY FileTypes DEF Index
    <3>2. ASSUME NEW e \in file[i].effects PROVE e[1] <= b.next - 1 \/ e[1] \in Overtaken(i)
      <4>1. CASE e[1] >= b.next
        BY <2>4, <4>1 DEF Overtaken
      <4>2. CASE ~(e[1] >= b.next)
        BY <3>1, <4>2
      <4> QED BY <4>1, <4>2
    <3> QED BY <1>4, <3>2 DEF Behind
  <2> QED BY <1>2, <1>3, <2>2, <2>3, <2>4 DEF OnceInv
<1> QED BY <1>5, <1>8, <1>9, <1>10, <1>11, <1>12 DEF NodeInv

(***************************************************************************)
(* Crashes.                                                                *)
(***************************************************************************)
LEMMA CrashStep ==
    ASSUME TypeOK, NEW i \in Node, NodeInv(i), Crash(i)
    PROVE  Local(i) /\ NodeInv(i)'
<1>1. /\ status' = [status EXCEPT ![i] = "down"]
      /\ conn' = [conn EXCEPT ![i] = "file"]
      /\ snapshot_info' = [snapshot_info EXCEPT ![i] = {}]
      /\ batch' = [batch EXCEPT ![i] = {}]
      /\ compacting' = [compacting EXCEPT ![i] = {}]
      /\ installing' = [installing EXCEPT ![i] = {}]
      /\ last_applied' = [last_applied EXCEPT ![i] = 0]
      /\ hard_state' = [hard_state EXCEPT ![i] = EmptyFile.hard_state]
      /\ erased' = IF \E s \in installing[i] : s.step = "copy" THEN erased \cup {i} ELSE erased
      /\ foreign' = IF i \in installed THEN foreign \cup {i} ELSE foreign
      /\ file' = [file EXCEPT ![i] = [file[i] EXCEPT !.again = @ \cup Uncounted(i)]]
      /\ UNCHANGED <<commit, applications, votes, installed>>
  BY DEF Crash, Put
<1>2. /\ snapshot_info'[i] = {} /\ batch'[i] = {} /\ compacting'[i] = {} /\ installing'[i] = {}
      /\ last_applied'[i] = 0 /\ status'[i] = "down"
  BY <1>1 DEF TypeOK
<1>3. /\ file'[i].effects = file[i].effects /\ file'[i].log = file[i].log
      /\ file'[i].applied = file[i].applied /\ file'[i].hard_state = file[i].hard_state
      /\ file'[i].again = file[i].again \cup Uncounted(i)
  BY <1>1, FileTypes DEF TypeOK, File
<1>4. Local(i)
  BY <1>1 DEF Local, TypeOK
<1>5. FileInv(i)'
  BY <1>1, <1>2, <1>3 DEF NodeInv, FileInv, GoodFile, Holds
<1>6. AppliedInv(i)'
  <2>1. file[i].log >= 0 /\ Holds(file[i], 0)
    BY FileTypes, StoreAssumption DEF Holds
  <2> QED BY <1>2, <1>3, <2>1 DEF AppliedInv, Holds
<1>7. InstallInv(i)' /\ DownInv(i)'
  BY <1>1, <1>2 DEF InstallInv, DownInv
<1>8. VoteInv(i)'
  BY <1>1, <1>2, <1>3 DEF NodeInv, VoteInv, Remembers, Whole
<1>9. OnceInv(i)'
  <2>1. Once(file'[i])
    BY <1>3 DEF NodeInv, OnceInv, Once
  <2>2. ASSUME NEW e \in file[i].effects PROVE Counted(i, e)'
    <3>1. CASE e[1] \in file[i].again \/ e[1] <= file[i].applied
      BY <1>3, <3>1 DEF Counted
    <3>2. CASE ~(e[1] \in file[i].again \/ e[1] <= file[i].applied)
      <4>1. PICK b \in batch[i] : b.step \in {"applying", "failed"} /\ e[1] < b.next
        BY <3>2 DEF NodeInv, OnceInv, Counted, InDoubt
      <4>2. e[1] > file[i].applied
        BY <3>2, FileTypes DEF Index
      <4>3. e[1] \in Uncounted(i)
        BY <4>1, <4>2 DEF Uncounted
      <4> QED BY <1>3, <4>3 DEF Counted
    <3> QED BY <3>1, <3>2
  <2> QED BY <1>2, <1>3, <2>1, <2>2 DEF OnceInv
<1> QED BY <1>4, <1>5, <1>6, <1>7, <1>8, <1>9 DEF NodeInv

LEMMA RestartStep ==
    ASSUME TypeOK, NEW i \in Node, NodeInv(i), Restart(i)
    PROVE  Local(i) /\ NodeInv(i)'
<1>1. /\ status[i] = "down"
      /\ file' = [file EXCEPT ![i] = file[i]]
      /\ status' = [status EXCEPT ![i] = "up"]
      /\ last_applied' = [last_applied EXCEPT ![i] = file[i].applied]
      /\ hard_state' = [hard_state EXCEPT ![i] = file[i].hard_state]
      /\ UNCHANGED <<conn, snapshot_info, batch, compacting, installing, commit, history>>
  BY DEF Restart, Put, Opened, LastApplied
<1>2. /\ file' = file /\ last_applied'[i] = file[i].applied
      /\ hard_state'[i] = file[i].hard_state /\ status'[i] = "up"
  BY <1>1 DEF TypeOK
<1>3. installing[i] = {} /\ batch[i] = {} /\ (i \in installed => i \in foreign)
  BY <1>1 DEF NodeInv, DownInv
<1>4. Local(i)
  BY <1>1, <1>2 DEF Local, TypeOK, history
<1>5. FileInv(i)'
  BY <1>1, <1>2 DEF NodeInv, FileInv
<1>6. AppliedInv(i)'
  BY <1>1, <1>2, <1>3 DEF NodeInv, FileInv, AppliedInv, GoodFile
<1>7. InstallInv(i)' /\ DownInv(i)'
  BY <1>1, <1>2, <1>3 DEF InstallInv, DownInv
<1>8. VoteInv(i)'
  BY <1>1, <1>2, <1>3 DEF NodeInv, VoteInv, Remembers, Whole, history
<1>9. OnceInv(i)'
  <2>1. \A e \in file[i].effects : e[1] \in file[i].again \/ e[1] <= file[i].applied
    BY <1>3 DEF NodeInv, OnceInv, Counted
  <2> QED BY <1>1, <1>2, <1>3, <2>1 DEF NodeInv, OnceInv, Behind, Counted
<1> QED BY <1>4, <1>5, <1>6, <1>7, <1>8, <1>9 DEF NodeInv
(***************************************************************************)
(* What is committed stays with a majority.                                *)
(***************************************************************************)
LEMMA KeepsOn ==
    ASSUME TypeOK, NEW k \in Int, Keeps(k) \subseteq Keeps(k)', Cardinality(Keeps(k)) >= Majority
    PROVE  Cardinality(Keeps(k)') >= Majority
<1>1. IsFiniteSet(Keeps(k)') /\ IsFiniteSet(Keeps(k)) /\ IsFiniteSet(Node)
  BY NodesAssumption, FS_Subset DEF Keeps
<1>2. /\ Cardinality(Keeps(k)) \in Nat /\ Cardinality(Keeps(k)') \in Nat
      /\ Cardinality(Keeps(k)) <= Cardinality(Keeps(k)') /\ Cardinality(Node) \in Nat
  BY <1>1, FS_Subset, FS_CardinalityType
<1>3. Majority \in Int
  BY <1>2 DEF Majority
<1> QED BY <1>2, <1>3

\* the file of node i, whole or about to be, has lost no entry of the log
Kept(i) == \A k \in Int : i \in Keeps(k) => i \in Keeps(k)'

LEMMA NodeKeeps ==
    ASSUME TypeOK, NEW i \in Node, Local(i), Kept(i), CommitInv, commit' = commit
    PROVE  CommitInv'
<1>1. ASSUME NEW k \in 1 .. commit
      PROVE  Keeps(k) \subseteq Keeps(k)'
  <2>1. SUFFICES ASSUME NEW j \in Node, j # i, j \in Keeps(k)
                 PROVE  j \in Keeps(k)'
    BY DEF Kept, Keeps
  <2>2. file'[j] = file[j] /\ installing'[j] = installing[j] /\ (j \in erased' <=> j \in erased)
    BY <2>1 DEF Local
  <2> QED BY <2>1, <2>2 DEF Keeps
<1> QED BY <1>1, KeepsOn DEF CommitInv

\* a step that leaves the logs of the files and the installations alone
LEMMA LogAlone ==
    ASSUME NEW i \in Node, file[i].log \in Int, file'[i].log \in Int, file'[i].log >= file[i].log,
           i \in erased => i \in erased',
           \A s \in installing[i] : s.step = "copy" =>
              \E t \in installing'[i] : t.step = "copy" /\ t.snapshot = s.snapshot
    PROVE  Kept(i)
BY DEF Kept, Keeps

LEMMA CommitStep ==
    ASSUME TypeOK, CommitInv, \A i \in Node : NodeInv(i), Commit
    PROVE  CommitInv' /\ \A i \in Node : NodeInv(i)'
<1>1. /\ commit' = commit + 1
      /\ Cardinality({i \in Node : file[i].log > commit}) >= Majority
      /\ UNCHANGED <<storeVars, status, last_applied, hard_state, batch, compacting, installing, history>>
  BY DEF Commit
<1>2. ASSUME NEW k \in 1 .. commit' PROVE Cardinality(Keeps(k)') >= Majority
  <2>1. Keeps(k)' = Keeps(k) /\ commit \in Nat
    BY <1>1, StoreAssumption DEF Keeps, storeVars, history, TypeOK
  <2>2. CASE k <= commit
    BY <2>1, <2>2 DEF CommitInv
  <2>3. CASE k = commit + 1
    <3> DEFINE Holders == {i \in Node : file[i].log > commit}
    <3>1. Holders \subseteq Keeps(k)
      BY <2>1, <2>3, FileTypes DEF Keeps
    <3>2. IsFiniteSet(Keeps(k)) /\ IsFiniteSet(Holders)
      BY NodesAssumption, FS_Subset DEF Keeps
    <3>3. Cardinality(Holders) <= Cardinality(Keeps(k)) /\ Cardinality(Holders) \in Nat
          /\ Cardinality(Keeps(k)) \in Nat /\ Cardinality(Node) \in Nat
      BY <3>1, <3>2, NodesAssumption, FS_Subset, FS_CardinalityType
    <3>4. Majority \in Int
      BY <3>3 DEF Majority
    <3> QED BY <1>1, <2>1, <3>3, <3>4
  <2> QED BY <1>1, <2>1, <2>2, <2>3
<1>3. ASSUME NEW i \in Node PROVE NodeInv(i)'
  <2>1. FileInv(i)' /\ AppliedInv(i)' /\ InstallInv(i)' /\ DownInv(i)'
    BY <1>1 DEF NodeInv, FileInv, AppliedInv, InstallInv, DownInv, Whole, storeVars, history
  <2>2. VoteInv(i)' /\ OnceInv(i)'
    BY <1>1 DEF NodeInv, VoteInv, OnceInv, Counted, InDoubt, Remembers, Whole, storeVars, history
  <2> QED BY <2>1, <2>2 DEF NodeInv
<1> QED BY <1>2, <1>3 DEF CommitInv

\* Every step of a node: its own invariant, the others', and what it keeps.
StepOf(i) ==
    \/ ReplicateToLog(i)
    \/ \E t \in 1 .. MaxTerm, c \in Candidate : Vote(i, t, c)
    \/ StartApply(i) \/ Apply(i) \/ ApplyFails(i) \/ SetLastApplied(i) \/ EndBatch(i)
    \/ StartCompaction(i) \/ CopyFile(i)
    \/ \E j \in Node \ {i} : ReceiveSnapshot(i, j)
    \/ OpenInMemory(i) \/ TruncateFile(i) \/ WriteFile(i) \/ Reopen(i)
    \/ Crash(i) \/ Restart(i)

LEMMA StepNode ==
    ASSUME TypeOK, NEW i \in Node, \A j \in Node : NodeInv(j), StepOf(i)
    PROVE  Local(i) /\ NodeInv(i)'
BY ReplicateStep, VoteStep, StartApplyStep, ApplyStep, ApplyFailsStep, SetLastAppliedStep, EndBatchStep,
   StartCompactionStep, CopyFileStep, ReceiveSnapshotStep, OpenInMemoryStep, TruncateFileStep, WriteFileStep, ReopenStep,
   CrashStep, RestartStep DEF StepOf

LEMMA StepKeeps ==
    ASSUME TypeOK, TypeOK', NEW i \in Node, NodeInv(i), StepOf(i)
    PROVE  Kept(i) /\ commit' = commit
<1> USE DEF history, raftVars, storeVars, Put
<1>1. /\ file[i].log \in Int /\ file'[i].log \in Int
      /\ file[i] \in File
  <2>1. file'[i] \in File /\ file[i] \in File
    BY DEF TypeOK
  <2> QED BY <2>1 DEF File
<1>2. CASE ReplicateToLog(i)
  <2>1. file'[i].log = file[i].log + 1
    BY <1>1, <1>2 DEF ReplicateToLog, File, TypeOK
  <2> QED BY <1>1, <1>2, <2>1, LogAlone DEF ReplicateToLog
<1>3. CASE \E t \in 1 .. MaxTerm, c \in Candidate : Vote(i, t, c)
  <2>1. file'[i].log = file[i].log
    BY <1>1, <1>3 DEF Vote, SaveHardState, File, TypeOK
  <2> QED BY <1>1, <1>3, <2>1, LogAlone DEF Vote
<1>4. CASE StartApply(i) \/ ApplyFails(i) \/ EndBatch(i)
  BY <1>1, <1>4, LogAlone DEF StartApply, ApplyFails, EndBatch
<1>5. CASE Apply(i)
  <2>1. file'[i].log = file[i].log
    BY <1>1, <1>5 DEF Apply, File, TypeOK
  <2> QED BY <1>1, <1>5, <2>1, LogAlone DEF Apply
<1>6. CASE SetLastApplied(i)
  <2>1. file'[i].log = file[i].log
    BY <1>1, <1>6 DEF SetLastApplied, File, TypeOK
  <2> QED BY <1>1, <1>6, <2>1, LogAlone DEF SetLastApplied
<1>7. CASE StartCompaction(i) \/ CopyFile(i)
  BY <1>1, <1>7, LogAlone DEF StartCompaction, CopyFile
<1>8. CASE \E j \in Node \ {i} : ReceiveSnapshot(i, j)
  <2>1. file' = file /\ installing[i] = {} /\ erased' = erased /\ commit' = commit
    BY <1>8 DEF ReceiveSnapshot, Free
  <2> QED BY <1>1, <2>1, LogAlone
<1>9. CASE OpenInMemory(i)
  <2>1. FinalizeStep(i, "open", "truncate") /\ file' = file /\ erased' = erased /\ commit' = commit
    BY <1>9 DEF OpenInMemory
  <2>2. \A s \in installing[i] : s.step # "copy"
    BY <2>1, FinalizeLocal DEF NodeInv, InstallInv
  <2> QED BY <1>1, <2>1, <2>2, LogAlone
<1>10. CASE TruncateFile(i)
  <2>1. FinalizeStep(i, "truncate", "copy") /\ erased' = erased /\ commit' = commit
    BY <1>10 DEF TruncateFile
  <2>2. PICK s \in installing[i] :
           s.step = "truncate" /\ installing'[i] = {[snapshot |-> s.snapshot, step |-> "copy"]}
    BY <2>1, FinalizeLocal
  <2>3. file[i].log < s.snapshot.index /\ s.snapshot.index <= s.snapshot.file.log
    BY <2>2 DEF NodeInv, InstallInv, GoodSnapshot
  <2>4. s.snapshot.index \in Int /\ s.snapshot.file.log \in Int
    BY FileTypes DEF File
  <2>5. \E t \in installing'[i] : t.step = "copy" /\ t.snapshot = s.snapshot
    BY <2>2
  <2>6. \A t \in installing[i] : t.step # "copy"
    BY <2>2 DEF NodeInv, InstallInv
  <2> QED BY <1>1, <2>1, <2>3, <2>4, <2>5, <2>6 DEF Kept, Keeps
<1>11. CASE WriteFile(i)
  <2>1. FinalizeStep(i, "copy", "reopen") /\ erased' = erased /\ commit' = commit
    BY <1>11 DEF WriteFile
  <2>2. PICK s \in installing[i] : file'[i] = s.snapshot.file
    BY <1>11 DEF WriteFile, TypeOK
  <2>3. s.step = "copy" /\ file[i].log = 0
    BY <2>1, <2>2, FinalizeLocal, EmptyIsGood DEF NodeInv, InstallInv
  <2>4. s.snapshot.file.log \in Int /\ s.snapshot.file.log >= 0
    BY FileTypes, StoreAssumption DEF File
  <2>5. \A t \in installing[i] : t.snapshot = s.snapshot
    BY DEF NodeInv, InstallInv
  <2> QED BY <2>1, <2>2, <2>3, <2>4, <2>5 DEF Kept, Keeps
<1>12. CASE Reopen(i)
  <2>1. \A s \in installing[i] : s.step # "copy"
    BY <1>12 DEF Reopen, NodeInv, InstallInv
  <2>2. file'[i].log = file[i].log
    BY <1>1, <1>12 DEF Reopen, File, TypeOK
  <2> QED BY <1>1, <1>12, <2>1, <2>2, LogAlone DEF Reopen
<1>13. CASE Crash(i)
  <2>1. file'[i].log = file[i].log /\ commit' = commit
    BY <1>1, <1>13 DEF Crash, File, TypeOK
  <2>2. (\E s \in installing[i] : s.step = "copy") => i \in erased'
    BY <1>13 DEF Crash
  <2>3. i \in erased => i \in erased'
    BY <1>13 DEF Crash
  <2> QED BY <2>1, <2>2, <2>3 DEF Kept, Keeps
<1>14. CASE Restart(i)
  <2>1. file' = file
    BY <1>14 DEF Restart, Opened, TypeOK
  <2> QED BY <1>1, <1>14, <2>1, LogAlone DEF Restart
<1> QED BY <1>2, <1>3, <1>4, <1>5, <1>6, <1>7, <1>8, <1>9, <1>10, <1>11, <1>12, <1>13, <1>14
         DEF StepOf

(***************************************************************************)
(* The invariant and the theorems.                                         *)
(***************************************************************************)
LEMMA InitStore == Init => StoreInv
<1> SUFFICES ASSUME Init PROVE StoreInv
  OBVIOUS
<1>1. TypeOK
  BY InitType
<1>2. ASSUME NEW i \in Node PROVE NodeInv(i)
  <2>1. /\ file[i] = EmptyFile /\ snapshot_info[i] = {} /\ status[i] = "up" /\ last_applied[i] = 0
        /\ batch[i] = {} /\ compacting[i] = {} /\ installing[i] = {} /\ votes = {}
    BY DEF Init
  <2>2. EmptyFile.effects = {} /\ EmptyFile.log = 0 /\ Holds(EmptyFile, 0)
    BY DEF EmptyFile, Holds
  <2>3. FileInv(i) /\ AppliedInv(i)
    BY <2>1, <2>2, EmptyIsGood DEF FileInv, AppliedInv
  <2>4. InstallInv(i) /\ DownInv(i) /\ VoteInv(i) /\ OnceInv(i)
    BY <2>1, <2>2 DEF InstallInv, DownInv, VoteInv, OnceInv, Once, Behind, Remembers
  <2> QED BY <2>3, <2>4 DEF NodeInv
<1>3. CommitInv
  BY DEF Init, CommitInv
<1> QED BY <1>1, <1>2, <1>3 DEF StoreInv

LEMMA NextStore == StoreInv /\ [Next]_vars => StoreInv'
<1> SUFFICES ASSUME StoreInv, [Next]_vars PROVE StoreInv'
  OBVIOUS
<1>1. TypeOK /\ (\A i \in Node : NodeInv(i)) /\ CommitInv
  BY DEF StoreInv
<1>2. TypeOK'
  BY <1>1, TypeStep
<1>3. CASE UNCHANGED vars
  <2>1. CommitInv'
    BY <1>1, <1>3 DEF vars, storeVars, raftVars, history, CommitInv, Keeps
  <2>2. ASSUME NEW i \in Node PROVE NodeInv(i)'
    <3>1. FileInv(i)' /\ AppliedInv(i)' /\ InstallInv(i)' /\ DownInv(i)'
      BY <1>1, <1>3 DEF vars, storeVars, raftVars, history, NodeInv, FileInv, AppliedInv, InstallInv,
                        DownInv, Whole
    <3>2. VoteInv(i)' /\ OnceInv(i)'
      BY <1>1, <1>3 DEF vars, storeVars, raftVars, history, NodeInv, VoteInv, OnceInv, Counted, InDoubt,
                        Remembers, Whole
    <3> QED BY <3>1, <3>2 DEF NodeInv
  <2> QED BY <1>2, <2>1, <2>2 DEF StoreInv
<1>4. CASE Commit
  BY <1>1, <1>2, <1>4, CommitStep DEF StoreInv
<1>5. CASE \E i \in Node : StepOf(i)
  <2>1. PICK i \in Node : StepOf(i)
    BY <1>5
  <2>2. Local(i) /\ NodeInv(i)'
    BY <1>1, <2>1, StepNode
  <2>3. Kept(i) /\ commit' = commit
    BY <1>1, <1>2, <2>1, StepKeeps
  <2>4. CommitInv'
    BY <1>1, <2>2, <2>3, NodeKeeps
  <2>5. \A j \in Node : NodeInv(j)'
    BY <1>1, <2>2, Others
  <2> QED BY <1>2, <2>4, <2>5 DEF StoreInv
<1> QED BY <1>3, <1>4, <1>5 DEF Next, StepOf

LEMMA StoreInvariant == Spec => []StoreInv
BY InitStore, NextStore, PTL DEF Spec

\* What a file says is applied has left its effect in it, through crashes, copies
\* and installations, for any number of each.
THEOREM NothingSkipped == Spec => []NoSkippedEntry
<1>1. StoreInv => NoSkippedEntry
  BY DEF StoreInv, NodeInv, FileInv, GoodFile, Holds, NoSkippedEntry
<1> QED BY <1>1, StoreInvariant, PTL

\* What a file holds twice was applied again for one of the three reasons, however
\* nodes crash, compact and install snapshots, in any number.
THEOREM RepeatsHaveReasons == Spec => []RepeatsExplained
<1>1. StoreInv => RepeatsExplained
  BY DEF StoreInv, NodeInv, OnceInv, Once, RepeatsExplained
<1> QED BY <1>1, StoreInvariant, PTL

\* A node whose file was neither replaced nor emptied votes once in a term.
THEOREM VotesKept == Spec => []OneVotePerTerm
<1>1. StoreInv => OneVotePerTerm
  <2>1. SUFFICES ASSUME StoreInv, NEW u \in votes, NEW v \in votes,
                        u.node = v.node, u.term = v.term, u.node \notin foreign \cup erased
                 PROVE  u.candidate = v.candidate
    BY DEF OneVotePerTerm
  <2>2. u.node \in Node
    BY <2>1 DEF StoreInv, TypeOK
  <2>3. VoteInv(u.node)
    BY <2>1, <2>2 DEF StoreInv, NodeInv
  <2> QED BY <2>1, <2>3 DEF VoteInv
<1> QED BY <1>1, StoreInvariant, PTL

\* What is committed is in the files of a majority, but for those that are being
\* rewritten or were lost in a crash during it.
THEOREM MajorityKeeps == Spec => []CommittedKept
<1> DEFINE Holding(k) == {i \in Node : \/ file[i].log >= k
                                    \/ i \in erased
                                    \/ \E s \in installing[i] : s.step = "copy"}
<1>1. StoreInv => CommittedKept
  <2>1. SUFFICES ASSUME StoreInv, NEW k \in 1 .. commit
                 PROVE  Cardinality(Holding(k)) >= Majority
    BY DEF CommittedKept
  <2>2. Keeps(k) \subseteq Holding(k)
    BY DEF Keeps
  <2>3. IsFiniteSet(Keeps(k)) /\ IsFiniteSet(Holding(k)) /\ IsFiniteSet(Node)
    BY NodesAssumption, FS_Subset DEF Keeps
  <2> HIDE DEF Holding
  <2>4. /\ Cardinality(Keeps(k)) <= Cardinality(Holding(k)) /\ Cardinality(Node) \in Nat
        /\ Cardinality(Keeps(k)) \in Nat /\ Cardinality(Holding(k)) \in Nat
    BY <2>2, <2>3, FS_Subset, FS_CardinalityType
  <2>5. Cardinality(Keeps(k)) >= Majority /\ Majority \in Int
    BY <2>1, <2>4 DEF StoreInv, CommitInv, Majority
  <2> QED BY <2>4, <2>5
<1> QED BY <1>1, StoreInvariant, PTL
=============================================================================
