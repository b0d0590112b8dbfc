------------------------------- MODULE Index -------------------------------
(***************************************************************************)
(* Hash indexes: polarysdb/modules/index.py with create_index,             *)
(* query_by_index, the index maintenance of the writers and                *)
(* _rebuild_indexes_locked of polarysdb/database.py.                       *)
(*                                                                         *)
(* One indexed field.  A record is the value of that field; a record       *)
(* without the field has the value Unset.  Writers change the table and    *)
(* then the index under the write lock of _data; query_by_index reads the  *)
(* index outside that lock and the table inside it; create_index reads the *)
(* table object inside it and walks it outside.                            *)
(***************************************************************************)
EXTENDS FiniteSets, Naturals

CONSTANTS
  Tables, Keys, Vals,
  Unset,       \* the value of the field in a record that lacks it
  Unhashable,  \* values that cannot be a key of the index dict
  Absent, NoTable, NoIndex,
  Live,        \* create_index holds the table object that _data still holds
  Imports,     \* contents that import or reload may bring in
  MaxWrites, MaxImports, MaxQueries   \* bounds of the model

TableData == [Keys -> Vals \cup {Unset, Absent}]
Contents  == [Tables -> TableData \cup {NoTable}]

ASSUME IndexAssumption ==
  /\ Unhashable \subseteq Vals
  /\ Unset \notin Vals /\ Absent \notin Vals /\ Absent # Unset
  /\ {NoTable, Live} \cap TableData = {} /\ NoTable # Live
  /\ \A buckets \in SUBSET (Vals \X Keys) : buckets # NoIndex
  /\ Imports \subseteq Contents
  /\ {MaxWrites, MaxImports, MaxQueries} \subseteq Nat

VARIABLES
  data,     \* _data
  index,    \* _indexes[table][field] as a set of <<value, key>>, or NoIndex
  writer,   \* the writer that holds the write lock, between table and index
  creator,  \* create_index: the table it will index and the object it holds
  query,    \* query_by_index: what it looks for, the keys in the bucket and,
            \*   as history, the keys whose record nobody touched since
  answer,   \* history: the keys that the last query returned, the keys of the
            \*   records that matched, and the untouched ones
  behind,   \* history: tables whose index missed a change (see Exact)
  writes, imports, queries   \* counters of the bounds

counts == <<writes, imports, queries>>
vars == <<data, index, writer, creator, query, answer, behind, counts>>

Idle  == [at |-> "idle"]
Free  == writer = Idle

(* Mutated form: a missing field is indexed under None. *)
NoneIndexed(v) == v # Absent

(* _extract is not None: the record goes into a bucket. *)
Indexed(v) == v \notin {Unset, Absent}

(* The index that a walk over a table builds; it raises at a record whose value
   cannot be a dict key. *)
Entered(v) == Indexed(v) /\ v \notin Unhashable

IndexOf(d) ==
  IF d = NoTable THEN {} ELSE {<<d[k], k>> : k \in {k \in Keys : Entered(d[k])}}

WalkRaises(d) == d # NoTable /\ \E k \in Keys : d[k] \in Unhashable

(* update_index and, with Absent as the new value, delete_from_index.  The
   removal of an unhashable old value raises before the new one is added; an
   unhashable new value raises after the removal of the old one. *)
Reindexed(idx, k, old, new) ==
  CASE old \in Unhashable -> idx
    [] OTHER -> (idx \ {<<old, k>>})
                  \cup (IF Entered(new) THEN {<<new, k>>} ELSE {})

Init ==
  /\ data = [t \in Tables |-> NoTable]
  /\ index = [t \in Tables |-> NoIndex]
  /\ writer = Idle /\ creator = Idle /\ query = Idle
  /\ answer = [found |-> {}, matching |-> {}, untouched |-> {}]
  /\ behind = {}
  /\ writes = 0 /\ imports = 0 /\ queries = 0

----------------------------------------------------------------------------
(* Writers: each holds the write lock from its first step to its last. *)

Create(t) ==
  /\ Free /\ data[t] = NoTable
  /\ data' = [data EXCEPT ![t] = [k \in Keys |-> Absent]]
  /\ UNCHANGED <<index, writer, creator, query, answer, behind, counts>>

(* A record is assigned, or popped. *)
Assign(t, k, v) ==
  /\ Free /\ data[t] # NoTable
  /\ writes < MaxWrites
  /\ data' = [data EXCEPT ![t][k] = v]
  /\ writer' = [at |-> "update", table |-> t, key |-> k, old |-> data[t][k], new |-> v]
  /\ query' = IF query.at = "looked" /\ query.table = t
              THEN [query EXCEPT !.untouched = @ \ {k}] ELSE query
  /\ writes' = writes + 1
  /\ UNCHANGED <<index, creator, answer, behind, imports, queries>>

(* get_indexed_fields, then update_index or delete_from_index. *)
UpdateIndex ==
  /\ writer.at = "update"
  /\ index' = [index EXCEPT ![writer.table] =
                 IF @ = NoIndex THEN @ ELSE Reindexed(@, writer.key, writer.old, writer.new)]
  /\ behind' = IF index[writer.table] # NoIndex
                  /\ writer.old \in Unhashable /\ Entered(writer.new)
                THEN behind \cup {writer.table} ELSE behind
  /\ writer' = Idle
  /\ UNCHANGED <<data, creator, query, answer, counts>>

(* What is left of the loop of _rebuild_indexes_locked. *)
RebuildOf(left) == IF left = {} THEN Idle ELSE [at |-> "rebuild", left |-> left]

(* import_db, import_encrypted and the reload of the file watcher: the new data,
   then a loop over its tables under the same write lock.  Every index is behind
   until the loop has come to its table. *)
Import(d) ==
  /\ Free
  /\ imports < MaxImports
  /\ data' = d
  /\ writer' = RebuildOf({t \in Tables : d[t] # NoTable})
  /\ behind' = {t \in Tables : index[t] # NoIndex}
  /\ creator' = IF creator.at = "holds" /\ creator.object = Live
                THEN [creator EXCEPT !.object = data[creator.table]] ELSE creator
  /\ query' = IF query.at = "looked" THEN [query EXCEPT !.untouched = {}] ELSE query
  /\ imports' = imports + 1
  /\ UNCHANGED <<index, answer, writes, queries>>

(* Mutated form: no index is rebuilt. *)
RebuildNone(t) == index

RebuildOne(t) == [index EXCEPT ![t] = IF @ = NoIndex THEN NoIndex ELSE IndexOf(data[t])]

(* rebuild_table, for the tables in the order in which the new data has them,
   which may be any. *)
Rebuild(t) ==
  /\ writer.at = "rebuild" /\ t \in writer.left
  /\ index[t] = NoIndex \/ ~WalkRaises(data[t])
  /\ index' = RebuildOne(t)
  /\ behind' = behind \ {t}
  /\ writer' = RebuildOf(writer.left \ {t})
  /\ UNCHANGED <<data, creator, query, answer, counts>>

(* An unhashable value raises, and nothing catches it inside the loop: the table
   and those behind it keep the indexes of the old data. *)
RebuildRaises(t) ==
  /\ writer.at = "rebuild" /\ t \in writer.left
  /\ index[t] # NoIndex /\ WalkRaises(data[t])
  /\ writer' = Idle
  /\ UNCHANGED <<data, index, creator, query, answer, behind, counts>>

----------------------------------------------------------------------------
(* create_index: the table object under the read lock, then the walk. *)

TakeTable(t) ==
  /\ creator = Idle
  /\ Free
  /\ creator' = [at |-> "holds", table |-> t,
                 object |-> IF data[t] = NoTable THEN NoTable ELSE Live]
  /\ UNCHANGED <<data, index, writer, query, answer, behind, counts>>

(* Mutated form: the index starts empty and is filled by later writes. *)
EmptyIndex(object, t) == {}

ObjectHeld(object, t) == IF object = Live THEN data[t] ELSE object

BuiltFrom(object, t) ==
  IF WalkRaises(ObjectHeld(object, t)) THEN NoIndex ELSE IndexOf(ObjectHeld(object, t))

BuildIndex ==
  /\ creator.at = "holds"
  /\ LET t == creator.table
     IN  /\ index' = IF index[t] # NoIndex THEN index
                     ELSE [index EXCEPT ![t] = BuiltFrom(creator.object, t)]
         /\ behind' = IF index[t] = NoIndex /\ creator.object # Live
                         THEN behind \cup {t} ELSE behind
  /\ creator' = Idle
  /\ UNCHANGED <<data, writer, query, answer, counts>>

(* A record added to the table, or removed, ends the walk with an exception. *)
WalkInterrupted ==
  /\ creator.at = "holds" /\ creator.object = Live
  /\ index[creator.table] = NoIndex
  /\ writer.at = "update" /\ Absent \in {writer.old, writer.new}
  /\ creator' = Idle
  /\ UNCHANGED <<data, index, writer, query, answer, behind, counts>>

----------------------------------------------------------------------------
(* query_by_index: the bucket, then the records under the read lock. *)

LookUp(t, v) ==
  /\ query = Idle
  /\ queries < MaxQueries
  /\ v \notin Unhashable
  /\ index[t] # NoIndex
  /\ query' = [at |-> "looked", table |-> t, value |-> v,
               keys |-> {k \in Keys : <<v, k>> \in index[t]},
               untouched |-> IF t \in behind \/ ~Free THEN {} ELSE Keys]
  /\ queries' = queries + 1
  /\ UNCHANGED <<data, index, writer, creator, answer, behind, writes, imports>>

Present(d, ks) == {k \in ks : d[k] # Absent}

Fetch ==
  /\ query.at = "looked"
  /\ Free
  /\ LET d  == data[query.table]
         ks == IF d = NoTable THEN {} ELSE Present(d, query.keys)
     IN  answer' = [found |-> ks, untouched |-> query.untouched,
                    matching |-> IF d = NoTable THEN {}
                                 ELSE {k \in Keys : d[k] = query.value}]
  /\ query' = Idle
  /\ UNCHANGED <<data, index, writer, creator, behind, counts>>

----------------------------------------------------------------------------
Next ==
  \/ \E t \in Tables :
       \/ Create(t) \/ TakeTable(t) \/ Rebuild(t) \/ RebuildRaises(t)
       \/ \E k \in Keys, v \in Vals \cup {Unset, Absent} : Assign(t, k, v)
       \/ \E v \in Vals : LookUp(t, v)
  \/ UpdateIndex \/ BuildIndex \/ WalkInterrupted \/ Fetch
  \/ \E d \in Imports : Import(d)

Spec == Init /\ [][Next]_vars

----------------------------------------------------------------------------
TypeOK ==
  /\ data \in Contents
  /\ \A t \in Tables : index[t] = NoIndex \/ index[t] \subseteq Vals \X Keys
  /\ writer.at \in {"idle", "update", "rebuild"}
  /\ creator.at \in {"idle", "holds"}
  /\ query.at \in {"idle", "looked"}
  /\ {answer.found, answer.matching, answer.untouched} \subseteq SUBSET Keys
  /\ behind \subseteq Tables
  /\ writes \in 0 .. MaxWrites /\ imports \in 0 .. MaxImports /\ queries \in 0 .. MaxQueries

(* Between two write sections the index of a table holds exactly its records:
   index.py's updates, removals and rebuilds under database.py's lock.  Four
   things leave an index behind its table: create_index read a table object that
   an import replaced; an import or a reload does not hold the table; the loop
   that rebuilds the indexes raised at the table, or at one it came to earlier
   (_rebuild_indexes_locked); an unhashable value was overwritten. *)
Exact(t) ==
  index[t] # NoIndex /\ data[t] # NoTable /\ Free => index[t] = IndexOf(data[t])

IndexMatchesUnlessBehind == \A t \in Tables \ behind : Exact(t)

(* query_by_index, whose two halves hold different locks: of the records that
   nobody touched since it looked into an index that was not behind, it returns
   those that have the value, all of them and no other. *)
QueryExactOnUntouched ==
  answer.found \cap answer.untouched = answer.matching \cap answer.untouched

============================================================================
