---------------------------- MODULE Transactions ----------------------------
(***************************************************************************)
(* Transactions: polarysdb/modules/tx.py with begin_transaction and        *)
(* commit_transaction of polarysdb/database.py.  A transaction works on a  *)
(* deep copy of the tables and records its operations; committing it       *)
(* checks that it is registered, folds the operations into a change set,   *)
(* marks it committed, unregisters it, and merges the change set under the *)
(* write lock.  No lock covers two of these steps, and only the first      *)
(* looks at the transaction at all.                                        *)
(*                                                                         *)
(* One table, which exists throughout; a change of None is a delete.       *)
(***************************************************************************)
EXTENDS Naturals, Sequences, SequencesExt

CONSTANTS
  Txns, NoTxn,  \* transaction objects
  Committers,   \* threads that may call commit_transaction
  Keys, Vals,
  Absent,       \* no record under that key; the None of a change set
  MaxWrites     \* bound: operations of transactions and writes beside them

ASSUME TransactionsAssumption ==
  /\ Absent \notin Vals /\ NoTxn \notin Txns
  /\ MaxWrites \in Nat

Records == [Keys -> Vals \cup {Absent}]
TxOp    == [key : Keys, value : Vals \cup {Absent}]
ChangeSets == UNION {[S -> Vals \cup {Absent}] : S \in SUBSET Keys}

VARIABLES
  data,        \* the table in _data
  state,       \* _state of each transaction; "none" before begin
  working,     \* _working
  ops,         \* _ops
  active,      \* the transactions registered in Manager._active
  cpc, ctxn,   \* where each committer is, and with which transaction
  changes,     \* the change set it carries
  snapshot,    \* history: the table when the transaction began
  merges,      \* history: transactions in the order of their merges
  rolledBack,  \* history: transactions rolled back before a commit began
  raced,       \* history: transactions that two threads were committing at once
  writes       \* counter of the bound

txnVars == <<state, working, ops, active, snapshot, rolledBack>>
comVars == <<cpc, ctxn, changes>>
vars == <<data, txnVars, comVars, merges, raced, writes>>

Overlay(d, ch) == [k \in Keys |-> IF k \in DOMAIN ch THEN ch[k] ELSE d[k]]

(* _get_changes: the last operation on each key. *)
KeysOf(s) == {s[i].key : i \in DOMAIN s}

LastOn(s, k) ==
  CHOOSE i \in DOMAIN s : s[i].key = k /\ \A j \in DOMAIN s : s[j].key = k => j <= i

ChangeSet(s) == [k \in KeysOf(s) |-> s[LastOn(s, k)].value]

Init ==
  /\ data = [k \in Keys |-> Absent]
  /\ state = [x \in Txns |-> "none"]
  /\ working = [x \in Txns |-> data] /\ snapshot = working
  /\ ops = [x \in Txns |-> <<>>]
  /\ active = {}
  /\ cpc = [c \in Committers |-> "idle"]
  /\ ctxn = [c \in Committers |-> NoTxn]
  /\ changes = [c \in Committers |-> ChangeSet(<<>>)]
  /\ merges = <<>>
  /\ rolledBack = {} /\ raced = {}
  /\ writes = 0

----------------------------------------------------------------------------
(* Mutated form: only the records that exist are copied. *)
CopyOfRecords(d) == [k \in {k \in Keys : d[k] # Absent} |-> d[k]]

CopyOf(d) == d

(* begin_transaction: a deep copy under the read lock; the caller has the
   transaction only once it is registered. *)
Begin(x) ==
  /\ state[x] = "none"
  /\ state' = [state EXCEPT ![x] = "active"]
  /\ working' = [working EXCEPT ![x] = CopyOf(data)]
  /\ snapshot' = [snapshot EXCEPT ![x] = data]
  /\ active' = active \cup {x}
  /\ UNCHANGED <<data, ops, comVars, merges, rolledBack, raced, writes>>

(* Transaction.write and, with Absent, Transaction.delete. *)
Record(x, op) ==
  /\ state[x] = "active"                      \* _ensure_active
  /\ writes < MaxWrites
  /\ writes' = writes + 1
  /\ working' = [working EXCEPT ![x][op.key] = op.value]
  /\ ops' = [ops EXCEPT ![x] = Append(@, op)]
  /\ UNCHANGED <<data, state, active, snapshot, rolledBack, comVars, merges, raced>>

Committing(c, x) == ctxn[c] = x

Rollback(x) ==
  /\ state[x] # "none"
  /\ state' = [state EXCEPT ![x] = "aborted"]
  /\ rolledBack' = IF x \in ToSet(merges) \/ \E c \in Committers : Committing(c, x)
                   THEN rolledBack ELSE rolledBack \cup {x}
  /\ UNCHANGED <<data, working, ops, active, snapshot, comVars, merges, raced, writes>>

----------------------------------------------------------------------------
(* commit_transaction, first Manager.commit. *)

CommitCheck(c, x) ==
  /\ cpc[c] = "idle"
  /\ x \in active
  /\ cpc' = [cpc EXCEPT ![c] = "checked"]
  /\ ctxn' = [ctxn EXCEPT ![c] = x]
  /\ raced' = IF \E other \in Committers : Committing(other, x) THEN raced \cup {x} ELSE raced
  /\ UNCHANGED <<data, txnVars, changes, merges, writes>>

CommitCollect(c) ==
  /\ cpc[c] = "checked"
  /\ changes' = [changes EXCEPT ![c] = ChangeSet(ops[ctxn[c]])]
  /\ cpc' = [cpc EXCEPT ![c] = "collected"]
  /\ UNCHANGED <<data, txnVars, ctxn, merges, raced, writes>>

CommitMark(c) ==
  /\ cpc[c] = "collected"
  /\ state' = [state EXCEPT ![ctxn[c]] = "committed"]
  /\ cpc' = [cpc EXCEPT ![c] = "marked"]
  /\ UNCHANGED <<data, working, ops, active, snapshot, rolledBack, ctxn, changes,
                 merges, raced, writes>>

(* Mutated form: the transaction stays registered. *)
StillActive(x) == active

WithoutTxn(x) == active \ {x}

CommitPop(c) ==
  /\ cpc[c] = "marked"
  /\ active' = WithoutTxn(ctxn[c])
  /\ cpc' = [cpc EXCEPT ![c] = "popped"]
  /\ UNCHANGED <<data, state, working, ops, snapshot, rolledBack, ctxn, changes,
                 merges, raced, writes>>

(* Mutated form: the working copy shares its records with the database. *)
SharedCopy(w, ch) == Overlay(w, ch)

(* A deep copy does not see what is merged into the database. *)
DeepCopy(w, ch) == w

Merge(c) ==
  /\ cpc[c] = "popped"
  /\ data' = Overlay(data, changes[c])
  /\ working' = [x \in Txns |-> DeepCopy(working[x], changes[c])]
  /\ merges' = Append(merges, ctxn[c])
  /\ cpc' = [cpc EXCEPT ![c] = "idle"]
  /\ ctxn' = [ctxn EXCEPT ![c] = NoTxn]
  /\ changes' = [changes EXCEPT ![c] = ChangeSet(<<>>)]
  /\ UNCHANGED <<state, ops, active, snapshot, rolledBack, raced, writes>>

(* Another client's write reaches the table (module WriteBuffer). *)
DirectWrite(k, v) ==
  /\ writes < MaxWrites
  /\ data' = [data EXCEPT ![k] = v]
  /\ writes' = writes + 1
  /\ UNCHANGED <<txnVars, comVars, merges, raced>>

Next ==
  \/ \E x \in Txns :
       Begin(x) \/ Rollback(x) \/ (\E op \in TxOp : Record(x, op))
         \/ (\E c \in Committers : CommitCheck(c, x))
  \/ \E c \in Committers :
       CommitCollect(c) \/ CommitMark(c) \/ CommitPop(c) \/ Merge(c)
  \/ \E k \in Keys, v \in Vals : DirectWrite(k, v)

Spec == Init /\ [][Next]_vars

----------------------------------------------------------------------------
TypeOK ==
  /\ data \in Records
  /\ state \in [Txns -> {"none", "active", "committed", "aborted"}]
  /\ working \in [Txns -> Records] /\ snapshot \in [Txns -> Records]
  /\ ops \in [Txns -> Seq(TxOp)]
  /\ active \subseteq Txns
  /\ cpc \in [Committers -> {"idle", "checked", "collected", "marked", "popped"}]
  /\ ctxn \in [Committers -> Txns \cup {NoTxn}]
  /\ changes \in [Committers -> ChangeSets]
  /\ merges \in Seq(Txns)
  /\ rolledBack \subseteq Txns /\ raced \subseteq Txns
  /\ writes \in 0 .. MaxWrites

(* Snapshot reads: whatever is merged or written meanwhile, a transaction reads
   the tables of its beginning under its own operations (tx.py read, over the
   deep copy of begin_transaction). *)
SnapshotReads ==
  \A x \in Txns : state[x] # "none" => working[x] = Overlay(snapshot[x], ChangeSet(ops[x]))

(* A transaction is merged at most once, however often commit_transaction and
   rollback are called, unless two threads commit it at the same time: the check
   of Manager.commit and its removal from _active are two sections. *)
MergedOnce ==
  \A i, j \in DOMAIN merges : merges[i] = merges[j] /\ merges[i] \notin raced => i = j

(* What was rolled back before a commit began does not reach the tables: no
   merge of such a transaction changes a record (the docstring of rollback). *)
RollbackDiscards ==
  [][\A c \in Committers : Merge(c) /\ ctxn[c] \in rolledBack => data' = data]_vars

============================================================================
