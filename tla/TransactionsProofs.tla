------------------------- MODULE TransactionsProofs -------------------------
(***************************************************************************)
(* Proofs about transactions (module Transactions) for any sets of         *)
(* transactions, committing threads, keys and values: reads stay on the    *)
(* snapshot, and a transaction that two threads do not commit at the same  *)
(* time is merged at most once.                                            *)
(***************************************************************************)
EXTENDS Transactions, TLAPS

(* The last operation on every key of a change set exists. *)
HasLast(s) ==
  \A k \in KeysOf(s) :
    \E i \in DOMAIN s : s[i].key = k /\ \A j \in DOMAIN s : s[j].key = k => j <= i

(* LastOn is the largest index of an operation on the key. *)
LEMMA LastOnIsLast ==
  ASSUME NEW s \in Seq(TxOp), NEW i \in DOMAIN s,
         \A j \in DOMAIN s : s[j].key = s[i].key => j <= i
  PROVE  LastOn(s, s[i].key) = i
<1> DEFINE IsLast(n) == s[n].key = s[i].key /\ \A j \in DOMAIN s : s[j].key = s[i].key => j <= n
<1>1. \A n \in DOMAIN s : IsLast(n) => n = i
  <2> SUFFICES ASSUME NEW n \in DOMAIN s, IsLast(n) PROVE n = i
    OBVIOUS
  <2>1. i <= n /\ n <= i
    OBVIOUS
  <2>2. DOMAIN s \subseteq Nat
    BY DOMAIN s = 1 .. Len(s)
  <2> QED BY <2>1, <2>2
<1>2. IsLast(i)
  OBVIOUS
<1>3. (CHOOSE n \in DOMAIN s : IsLast(n)) = i
  BY <1>1, <1>2
<1> QED BY <1>3 DEF LastOn

(* Appending an operation adds its key, and it is the last one on that key. *)
LEMMA AppendChange ==
  ASSUME NEW s \in Seq(TxOp), NEW op \in TxOp, HasLast(s)
  PROVE  /\ HasLast(Append(s, op))
         /\ ChangeSet(Append(s, op)) =
              [k \in KeysOf(s) \cup {op.key} |->
                 IF k = op.key THEN op.value ELSE ChangeSet(s)[k]]
<1> DEFINE q == Append(s, op)
<1>1. /\ q \in Seq(TxOp) /\ Len(q) = Len(s) + 1 /\ q[Len(s) + 1] = op
      /\ \A i \in DOMAIN s : q[i] = s[i]
      /\ DOMAIN s = 1 .. Len(s) /\ DOMAIN q = 1 .. Len(s) + 1
      /\ Len(s) \in Nat
  OBVIOUS
<1>2. KeysOf(q) = KeysOf(s) \cup {op.key}
  BY <1>1 DEF KeysOf
<1> HIDE DEF q
<1>3. \A j \in DOMAIN q : q[j].key = op.key => j <= Len(s) + 1
  BY <1>1
<1>4. LastOn(q, op.key) = Len(s) + 1
  <2>1. Len(s) + 1 \in DOMAIN q
    BY <1>1
  <2> QED BY <1>1, <1>3, <2>1, LastOnIsLast
<1>5. ASSUME NEW k \in KeysOf(s), k # op.key
      PROVE  \E i \in DOMAIN s : /\ s[i].key = k /\ i \in DOMAIN q /\ q[i] = s[i]
                                 /\ \A j \in DOMAIN q : q[j].key = k => j <= i
                                 /\ LastOn(q, k) = i /\ LastOn(s, k) = i
  <2>1. PICK i \in DOMAIN s : s[i].key = k /\ \A j \in DOMAIN s : s[j].key = k => j <= i
    BY DEF HasLast
  <2>2. i \in DOMAIN q /\ q[i] = s[i]
    BY <1>1
  <2>3. \A j \in DOMAIN q : q[j].key = k => j <= i
    BY <1>1, <1>5, <2>1
  <2>4. LastOn(s, k) = i
    BY <2>1, LastOnIsLast
  <2>5. LastOn(q, k) = i
    BY <1>1, <2>1, <2>2, <2>3, LastOnIsLast
  <2> QED BY <2>1, <2>2, <2>3, <2>4, <2>5
<1>6. HasLast(q)
  <2> SUFFICES ASSUME NEW k \in KeysOf(q)
               PROVE  \E i \in DOMAIN q :
                        q[i].key = k /\ \A j \in DOMAIN q : q[j].key = k => j <= i
    BY DEF HasLast
  <2>1. CASE k = op.key
    <3>1. Len(s) + 1 \in DOMAIN q /\ q[Len(s) + 1].key = k
      BY <1>1, <2>1
    <3> QED BY <3>1, <2>1, <1>3
  <2>2. CASE k # op.key
    BY <2>2, <1>2, <1>5
  <2> QED BY <2>1, <2>2
<1>7. ASSUME NEW k \in KeysOf(q)
      PROVE  q[LastOn(q, k)].value = IF k = op.key THEN op.value ELSE ChangeSet(s)[k]
  <2>1. CASE k = op.key
    BY <2>1, <1>1, <1>4
  <2>2. CASE k # op.key
    <3>1. k \in KeysOf(s)
      BY <2>2, <1>2
    <3>2. q[LastOn(q, k)] = s[LastOn(s, k)]
      BY <3>1, <2>2, <1>5
    <3> QED BY <2>2, <3>1, <3>2 DEF ChangeSet
  <2> QED BY <2>1, <2>2
<1>8. ChangeSet(q) = [k \in KeysOf(s) \cup {op.key} |->
                        IF k = op.key THEN op.value ELSE ChangeSet(s)[k]]
  BY <1>2, <1>7 DEF ChangeSet
<1> QED BY <1>6, <1>8 DEF q

(* A recorded operation changes exactly its record in what is read. *)
LEMMA OverlayAppend ==
  ASSUME NEW d, NEW s \in Seq(TxOp), NEW op \in TxOp, HasLast(s)
  PROVE  Overlay(d, ChangeSet(Append(s, op))) =
           [Overlay(d, ChangeSet(s)) EXCEPT ![op.key] = op.value]
<1> DEFINE ch == ChangeSet(s)
           both == ChangeSet(Append(s, op))
<1>1. op.key \in Keys
  BY DEF TxOp
<1>2. DOMAIN ch = KeysOf(s)
  BY DEF ChangeSet
<1>3. both = [k \in DOMAIN ch \cup {op.key} |-> IF k = op.key THEN op.value ELSE ch[k]]
  BY <1>2, AppendChange
<1> HIDE DEF ch, both
<1>4. ASSUME NEW k \in Keys
      PROVE  (IF k \in DOMAIN both THEN both[k] ELSE d[k])
               = IF k = op.key THEN op.value ELSE IF k \in DOMAIN ch THEN ch[k] ELSE d[k]
  BY <1>3
<1>5. Overlay(d, both) = [Overlay(d, ch) EXCEPT ![op.key] = op.value]
  BY <1>1, <1>4 DEF Overlay
<1> QED BY <1>5 DEF ch, both

(* No operation changes nothing. *)
LEMMA EmptyChange ==
  /\ HasLast(<<>>)
  /\ \A d : DOMAIN ChangeSet(<<>>) = {} /\ Overlay(d, ChangeSet(<<>>)) = [k \in Keys |-> d[k]]
BY DEF HasLast, KeysOf, ChangeSet, Overlay

(* What a change set holds. *)
LEMMA ChangeSetType ==
  ASSUME NEW s \in Seq(TxOp), HasLast(s)
  PROVE  ChangeSet(s) \in ChangeSets
<1>0. \A i \in DOMAIN s : s[i] \in TxOp
  OBVIOUS
<1>1. KeysOf(s) \in SUBSET Keys
  BY <1>0 DEF KeysOf, TxOp
<1>2. ASSUME NEW k \in KeysOf(s) PROVE s[LastOn(s, k)].value \in Vals \cup {Absent}
  <2>1. PICK i \in DOMAIN s : s[i].key = k /\ \A j \in DOMAIN s : s[j].key = k => j <= i
    BY DEF HasLast
  <2>2. LastOn(s, k) = i
    BY <2>1, LastOnIsLast
  <2> QED BY <1>0, <2>2 DEF TxOp
<1>3. ChangeSet(s) \in [KeysOf(s) -> Vals \cup {Absent}]
  BY <1>2 DEF ChangeSet
<1> QED BY <1>1, <1>3 DEF ChangeSets

(* Tables under a change set are tables. *)
LEMMA OverlayType ==
  ASSUME NEW d \in Records, NEW ch \in ChangeSets
  PROVE  Overlay(d, ch) \in Records
<1>1. PICK S \in SUBSET Keys : ch \in [S -> Vals \cup {Absent}]
  BY DEF ChangeSets
<1> QED BY <1>1 DEF Overlay, Records

----------------------------------------------------------------------------
(* The inductive invariant behind snapshot reads: a transaction that has not
   begun has no operation, every list of operations has last ones, and a thread
   that commits has a transaction that has begun. *)
OpsInv ==
  /\ \A x \in Txns : HasLast(ops[x]) /\ (state[x] = "none" => ops[x] = <<>>)
  /\ \A x \in active : state[x] # "none"
  /\ \A c \in Committers :
       cpc[c] # "idle" => ctxn[c] \in Txns /\ state[ctxn[c]] # "none"

SnapshotInv == TypeOK /\ OpsInv /\ SnapshotReads

(* No transaction has begun. *)
LEMMA InitSnapshotInv == Init => SnapshotInv
<1> SUFFICES ASSUME Init PROVE SnapshotInv
  OBVIOUS
<1> USE DEF Init
<1>1. TypeOK
  <2>1. ChangeSet(<<>>) \in ChangeSets
    <3>1. <<>> \in Seq(TxOp)
      OBVIOUS
    <3> QED BY <3>1, EmptyChange, ChangeSetType
  <2>2. data \in Records /\ working \in [Txns -> Records] /\ snapshot \in [Txns -> Records]
    BY DEF Records
  <2> QED BY <2>1, <2>2, TransactionsAssumption DEF TypeOK
<1>2. OpsInv /\ SnapshotReads
  BY EmptyChange DEF OpsInv, SnapshotReads
<1> QED BY <1>1, <1>2 DEF SnapshotInv

(* A write or a delete extends the operations and changes the working copy in
   the same way; every other step leaves the two alone. *)
LEMMA NextSnapshotInv == SnapshotInv /\ [Next]_vars => SnapshotInv'
<1> SUFFICES ASSUME SnapshotInv, [Next]_vars PROVE SnapshotInv'
  OBVIOUS
<1> USE DEF SnapshotInv
<1>1. CASE UNCHANGED vars
  BY <1>1 DEF vars, txnVars, comVars, TypeOK, OpsInv, SnapshotReads
<1>2. ASSUME NEW x \in Txns, Begin(x) PROVE SnapshotInv'
  <2>1. TypeOK'
    BY <1>2 DEF Begin, TypeOK, comVars, CopyOf
  <2>2. OpsInv'
    BY <1>2 DEF Begin, OpsInv, TypeOK, comVars
  <2>3. ASSUME NEW y \in Txns, state'[y] # "none"
        PROVE  working'[y] = Overlay(snapshot'[y], ChangeSet(ops'[y]))
    <3>1. CASE y = x
      <4>1. ops'[y] = <<>> /\ working'[y] = data /\ snapshot'[y] = data
        BY <1>2, <3>1 DEF Begin, OpsInv, TypeOK, CopyOf
      <4>2. data = [k \in Keys |-> data[k]]
        BY DEF TypeOK, Records
      <4> QED BY <4>1, <4>2, EmptyChange
    <3>2. CASE y # x
      BY <1>2, <2>3, <3>2 DEF Begin, SnapshotReads, TypeOK
    <3> QED BY <3>1, <3>2
  <2> QED BY <2>1, <2>2, <2>3 DEF SnapshotReads
<1>3. ASSUME NEW x \in Txns, NEW op \in TxOp, Record(x, op) PROVE SnapshotInv'
  <2>1. ops' = [ops EXCEPT ![x] = Append(@, op)] /\ ops[x] \in Seq(TxOp) /\ HasLast(ops[x])
    BY <1>3 DEF Record, TypeOK, OpsInv
  <2>2. TypeOK'
    <3>1. working' \in [Txns -> Records]
      BY <1>3 DEF Record, TypeOK, Records, TxOp
    <3>2. ops' \in [Txns -> Seq(TxOp)]
      BY <2>1 DEF TypeOK
    <3>3. writes' \in 0 .. MaxWrites
      BY <1>3, TransactionsAssumption DEF Record, TypeOK
    <3> QED BY <1>3, <3>1, <3>2, <3>3 DEF Record, TypeOK, comVars
  <2>3. OpsInv'
    <3>1. HasLast(Append(ops[x], op))
      BY <2>1, AppendChange
    <3> QED BY <1>3, <2>1, <3>1 DEF Record, OpsInv, TypeOK, comVars
  <2>4. ASSUME NEW y \in Txns, state'[y] # "none"
        PROVE  working'[y] = Overlay(snapshot'[y], ChangeSet(ops'[y]))
    <3>1. state' = state /\ snapshot' = snapshot
      BY <1>3 DEF Record
    <3>2. CASE y = x
      <4>1. ops'[y] = Append(ops[x], op)
        BY <2>1, <3>2 DEF TypeOK
      <4>2. Overlay(snapshot[x], ChangeSet(Append(ops[x], op)))
              = [Overlay(snapshot[x], ChangeSet(ops[x])) EXCEPT ![op.key] = op.value]
        BY <2>1, OverlayAppend
      <4>3. working'[y] = [working[x] EXCEPT ![op.key] = op.value]
        BY <1>3, <3>2 DEF Record, TypeOK
      <4> QED BY <2>4, <3>1, <3>2, <4>1, <4>2, <4>3 DEF SnapshotReads
    <3>3. CASE y # x
      BY <1>3, <2>1, <2>4, <3>1, <3>3 DEF Record, SnapshotReads, TypeOK
    <3> QED BY <3>2, <3>3
  <2> QED BY <2>2, <2>3, <2>4 DEF SnapshotReads
<1>4. ASSUME NEW x \in Txns, Rollback(x) PROVE SnapshotInv'
  BY <1>4 DEF Rollback, comVars, TypeOK, OpsInv, SnapshotReads
<1>5. ASSUME NEW c \in Committers, NEW x \in Txns, CommitCheck(c, x) PROVE SnapshotInv'
  BY <1>5 DEF CommitCheck, txnVars, TypeOK, OpsInv, SnapshotReads
<1>6. ASSUME NEW c \in Committers, CommitCollect(c) PROVE SnapshotInv'
  <2>0. ctxn[c] \in Txns
    BY <1>6 DEF CommitCollect, OpsInv
  <2>1. ChangeSet(ops[ctxn[c]]) \in ChangeSets
    BY <2>0, ChangeSetType DEF TypeOK, OpsInv
  <2> QED BY <1>6, <2>1 DEF CommitCollect, txnVars, TypeOK, OpsInv, SnapshotReads
<1>7. ASSUME NEW c \in Committers, CommitMark(c) PROVE SnapshotInv'
  BY <1>7 DEF CommitMark, TypeOK, OpsInv, SnapshotReads
<1>8. ASSUME NEW c \in Committers, CommitPop(c) PROVE SnapshotInv'
  BY <1>8 DEF CommitPop, WithoutTxn, TypeOK, OpsInv, SnapshotReads
<1>9. ASSUME NEW c \in Committers, Merge(c) PROVE SnapshotInv'
  <2>0. ctxn[c] \in Txns
    BY <1>9 DEF Merge, OpsInv
  <2>1. working' = working
    BY <1>9 DEF Merge, DeepCopy, TypeOK
  <2>2. data' \in Records
    BY <1>9, OverlayType DEF Merge, TypeOK
  <2>3. changes' \in [Committers -> ChangeSets]
    <3>1. ChangeSet(<<>>) \in ChangeSets
      <4>1. <<>> \in Seq(TxOp)
        OBVIOUS
      <4> QED BY <4>1, EmptyChange, ChangeSetType
    <3> QED BY <1>9, <3>1 DEF Merge, TypeOK
  <2>4. merges' \in Seq(Txns)
    BY <1>9, <2>0 DEF Merge, TypeOK
  <2>5. TypeOK'
    BY <1>9, <2>1, <2>2, <2>3, <2>4 DEF Merge, TypeOK
  <2> QED BY <1>9, <2>1, <2>5 DEF Merge, OpsInv, SnapshotReads, TypeOK
<1>10. ASSUME NEW k \in Keys, NEW v \in Vals, DirectWrite(k, v) PROVE SnapshotInv'
  <2>1. data' \in Records
    BY <1>10 DEF DirectWrite, TypeOK, Records
  <2>2. writes' \in 0 .. MaxWrites
    BY <1>10, TransactionsAssumption DEF DirectWrite, TypeOK
  <2> QED BY <1>10, <2>1, <2>2 DEF DirectWrite, txnVars, comVars, TypeOK, OpsInv, SnapshotReads
<1> QED BY <1>1, <1>2, <1>3, <1>4, <1>5, <1>6, <1>7, <1>8, <1>9, <1>10 DEF Next

(* What a transaction reads is its snapshot with its operations laid over it, and
   nothing is registered or committed that has not begun (modules/tx.py). *)
THEOREM Snapshots == Spec => []SnapshotInv
BY InitSnapshotInv, NextSnapshotInv, PTL DEF Spec

(* Every transaction reads the tables of its beginning under its own
   operations: read of modules/tx.py over the deep copy of begin_transaction. *)
THEOREM SnapshotIsolation == Spec => []SnapshotReads
BY Snapshots, PTL DEF SnapshotInv

(* The type invariant of module Transactions. *)
THEOREM TypeCorrect == Spec => []TypeOK
BY Snapshots, PTL DEF SnapshotInv

----------------------------------------------------------------------------
(* The inductive invariant behind MergedOnce.  A transaction that was merged is
   not registered any more and nobody commits it, and only one thread does so
   at a time, unless it raced; once its commit has removed it from _active, it
   does not come back. *)
OneCommitter ==
  \A c, d \in Committers : ctxn[c] = ctxn[d] /\ ctxn[c] # NoTxn => (c = d \/ ctxn[c] \in raced)
MergedIsOver ==
  \A i \in DOMAIN merges :
    \/ merges[i] \in raced
    \/ /\ merges[i] \notin active
       /\ state[merges[i]] # "none"
       /\ \A c \in Committers : ctxn[c] # merges[i]
Engaged ==
  \A c \in Committers :
    /\ cpc[c] = "idle" <=> ctxn[c] = NoTxn
    /\ cpc[c] = "popped" => ctxn[c] \notin active

MergeInv == OneCommitter /\ MergedIsOver /\ Engaged /\ MergedOnce

(* Nobody commits at the start. *)
LEMMA InitMergeInv == Init => MergeInv
BY DEF Init, MergeInv, OneCommitter, MergedIsOver, Engaged, MergedOnce

(* The steps of commit, rollback and the merge keep it. *)
LEMMA NextMergeInv == SnapshotInv /\ MergeInv /\ [Next]_vars => MergeInv'
<1> SUFFICES ASSUME SnapshotInv, MergeInv, [Next]_vars PROVE MergeInv'
  OBVIOUS
<1> USE DEF SnapshotInv, MergeInv
<1>0. TypeOK /\ OpsInv
  OBVIOUS
<1>1. CASE UNCHANGED vars
  BY <1>1 DEF vars, txnVars, comVars, OneCommitter, MergedIsOver, Engaged, MergedOnce
<1>2. ASSUME NEW x \in Txns, Begin(x) PROVE MergeInv'
  <2>1. \A c \in Committers : ctxn[c] # x
    BY <1>0, <1>2, TransactionsAssumption DEF Begin, OpsInv, Engaged
  <2> QED BY <1>0, <1>2, <2>1
          DEF Begin, comVars, TypeOK, OneCommitter, MergedIsOver, Engaged, MergedOnce
<1>3. ASSUME NEW x \in Txns, NEW op \in TxOp, Record(x, op) PROVE MergeInv'
  BY <1>3 DEF Record, comVars, OneCommitter, MergedIsOver, Engaged, MergedOnce
<1>4. ASSUME NEW x \in Txns, Rollback(x) PROVE MergeInv'
  BY <1>0, <1>4 DEF Rollback, TypeOK, comVars, OneCommitter, MergedIsOver, Engaged, MergedOnce
<1>5. ASSUME NEW c \in Committers, NEW x \in Txns, CommitCheck(c, x) PROVE MergeInv'
  BY <1>0, <1>5, TransactionsAssumption
     DEF CommitCheck, Committing, txnVars, TypeOK, OneCommitter, MergedIsOver, Engaged, MergedOnce
<1>6. ASSUME NEW c \in Committers, CommitCollect(c) PROVE MergeInv'
  BY <1>0, <1>6 DEF CommitCollect, txnVars, TypeOK, OneCommitter, MergedIsOver, Engaged, MergedOnce
<1>7. ASSUME NEW c \in Committers, CommitMark(c) PROVE MergeInv'
  BY <1>0, <1>7 DEF CommitMark, TypeOK, OneCommitter, MergedIsOver, Engaged, MergedOnce
<1>8. ASSUME NEW c \in Committers, CommitPop(c) PROVE MergeInv'
  BY <1>0, <1>8 DEF CommitPop, WithoutTxn, TypeOK, OneCommitter, MergedIsOver, Engaged, MergedOnce
<1>9. ASSUME NEW c \in Committers, Merge(c) PROVE MergeInv'
  <2> DEFINE x == ctxn[c]
  <2>1. x \in Txns /\ x # NoTxn /\ x \notin active /\ state[x] # "none"
    BY <1>0, <1>9, TransactionsAssumption DEF Merge, OpsInv, Engaged
  <2>2. /\ merges \in Seq(Txns)
        /\ merges' = Append(merges, x)
        /\ DOMAIN merges' = DOMAIN merges \cup {Len(merges) + 1}
        /\ \A i \in DOMAIN merges : merges'[i] = merges[i] /\ i # Len(merges) + 1
        /\ merges'[Len(merges) + 1] = x
    BY <1>0, <1>9, <2>1 DEF Merge, TypeOK
  <2>3. /\ cpc' = [cpc EXCEPT ![c] = "idle"] /\ ctxn' = [ctxn EXCEPT ![c] = NoTxn]
        /\ UNCHANGED <<state, active, raced>>
    BY <1>9 DEF Merge
  <2>4. x \in raced \/ \A i \in DOMAIN merges : merges[i] # x
    BY DEF MergedIsOver
  <2>5. x \in raced \/ \A d \in Committers : d # c => ctxn[d] # x
    BY <2>1 DEF OneCommitter
  <2> HIDE DEF x
  <2>6. OneCommitter' /\ Engaged'
    BY <1>0, <2>3 DEF TypeOK, OneCommitter, Engaged
  <2>7. MergedIsOver'
    <3> SUFFICES ASSUME NEW i \in DOMAIN merges', merges'[i] \notin raced
                 PROVE  /\ merges'[i] \notin active
                        /\ state[merges'[i]] # "none"
                        /\ \A d \in Committers : ctxn'[d] # merges'[i]
      BY <2>3 DEF MergedIsOver
    <3>1. \A d \in Committers : ctxn'[d] = IF d = c THEN NoTxn ELSE ctxn[d]
      BY <1>0, <2>3 DEF TypeOK
    <3>2. CASE i \in DOMAIN merges
      <4>1. merges'[i] = merges[i] /\ merges[i] \in Txns
        BY <2>2, <3>2
      <4> QED BY <3>1, <3>2, <4>1, TransactionsAssumption DEF MergedIsOver
    <3>3. CASE i = Len(merges) + 1
      BY <2>1, <2>2, <2>5, <3>1, <3>3
    <3> QED BY <2>2, <3>2, <3>3
  <2>8. MergedOnce'
    BY <2>2, <2>3, <2>4 DEF MergedOnce
  <2> QED BY <2>6, <2>7, <2>8
<1>10. ASSUME NEW k \in Keys, NEW v \in Vals, DirectWrite(k, v) PROVE MergeInv'
  BY <1>10 DEF DirectWrite, txnVars, comVars, OneCommitter, MergedIsOver, Engaged, MergedOnce
<1> QED BY <1>1, <1>2, <1>3, <1>4, <1>5, <1>6, <1>7, <1>8, <1>9, <1>10 DEF Next

(* However often commit_transaction and rollback are called, a transaction is
   merged once, unless two threads commit it at the same time. *)
THEOREM CommitOnce == Spec => []MergedOnce
<1>1. Init => MergeInv
  BY InitMergeInv
<1>2. SnapshotInv /\ MergeInv /\ [Next]_vars => MergeInv'
  BY NextMergeInv
<1>3. MergeInv => MergedOnce
  BY DEF MergeInv
<1> QED BY <1>1, <1>2, <1>3, Snapshots, PTL DEF Spec

=============================================================================
