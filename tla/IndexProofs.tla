---------------------------- MODULE IndexProofs ----------------------------
(***************************************************************************)
(* Proofs about the indexes (module Index), for any tables, keys, values   *)
(* and bounds.                                                             *)
(*                                                                         *)
(* That an index is exact between write sections depends on what is in     *)
(* the middle: a writer that has changed the table and not the index       *)
(* (Pending), an index without its table (Kept), and the table that        *)
(* create_index holds (CreatorInv).  A query is exact because the bucket   *)
(* it holds is right about every record that nobody has touched since      *)
(* (BucketInv).                                                            *)
(***************************************************************************)
EXTENDS Index, TLAPS

Cells == Vals \cup {Unset, Absent}

Updates == [at : {"update"}, table : Tables, key : Keys, old : Cells, new : Cells]
Holds   == [at : {"holds"}, table : Tables, object : TableData \cup {NoTable, Live}]
Looked  == [at : {"looked"}, table : Tables, value : Vals \ Unhashable,
            keys : SUBSET Keys, untouched : SUBSET Keys]

Rebuilding == [at : {"rebuild"}, left : SUBSET Tables]

TypeInv ==
  /\ TypeOK
  /\ index \in [Tables -> {NoIndex} \cup SUBSET (Vals \X Keys)]
  /\ writer \in {Idle} \cup Rebuilding \cup Updates
  /\ creator \in {Idle} \cup Holds
  /\ query \in {Idle} \cup Looked

----------------------------------------------------------------------------
(* Records in progress are told apart by their first field. *)
LEMMA Told ==
  /\ Idle.at = "idle"
  /\ \A w \in Rebuilding : w.at = "rebuild"
  /\ \A w \in Updates : w.at = "update"
  /\ \A c \in Holds : c.at = "holds"
  /\ \A q \in Looked : q.at = "looked"
BY DEF Idle, Rebuilding, Updates, Holds, Looked

(* What is left of the rebuild is no writer's update. *)
LEMMA RebuildLeft ==
  ASSUME NEW left \in SUBSET Tables
  PROVE  RebuildOf(left) \in {Idle} \cup Rebuilding
BY DEF RebuildOf, Rebuilding

LEMMA IndexOfType ==
  ASSUME NEW d \in TableData \cup {NoTable}
  PROVE  IndexOf(d) \subseteq Vals \X Keys
<1>1. CASE d = NoTable
  BY <1>1 DEF IndexOf
<1>2. CASE d # NoTable
  <2>1. \A k \in Keys : Entered(d[k]) => d[k] \in Vals
    BY <1>2 DEF TableData, Entered, Indexed
  <2> QED BY <1>2, <2>1 DEF IndexOf
<1> QED BY <1>1, <1>2

LEMMA InitType == Init => TypeInv
<1> SUFFICES ASSUME Init PROVE TypeInv
  OBVIOUS
<1>1. data \in Contents
  BY DEF Init, Contents
<1>2. index \in [Tables -> {NoIndex} \cup SUBSET (Vals \X Keys)]
  BY DEF Init
<1>3. \A t \in Tables : index[t] = NoIndex
  BY DEF Init
<1>4. writer = Idle /\ creator = Idle /\ query = Idle
  BY DEF Init
<1>5. /\ {answer.found, answer.matching, answer.untouched} \subseteq SUBSET Keys
      /\ behind \subseteq Tables
  BY DEF Init
<1>6. writes \in 0 .. MaxWrites /\ imports \in 0 .. MaxImports /\ queries \in 0 .. MaxQueries
  BY IndexAssumption DEF Init
<1> QED BY <1>1, <1>2, <1>3, <1>4, <1>5, <1>6, Told DEF TypeInv, TypeOK

LEMMA StepType == TypeInv /\ Next => TypeInv'
<1> SUFFICES ASSUME TypeInv, Next PROVE TypeInv'
  OBVIOUS
<1> USE Told DEF counts
<1>0. /\ data \in Contents
      /\ index \in [Tables -> {NoIndex} \cup SUBSET (Vals \X Keys)]
      /\ writer \in {Idle} \cup Rebuilding \cup Updates /\ creator \in {Idle} \cup Holds
      /\ query \in {Idle} \cup Looked /\ behind \subseteq Tables
      /\ {answer.found, answer.matching, answer.untouched} \subseteq SUBSET Keys
      /\ writes \in 0 .. MaxWrites /\ imports \in 0 .. MaxImports /\ queries \in 0 .. MaxQueries
  BY DEF TypeInv, TypeOK
<1>e. ASSUME data' \in Contents,
             index' \in [Tables -> {NoIndex} \cup SUBSET (Vals \X Keys)],
             writer' \in {Idle} \cup Rebuilding \cup Updates, creator' \in {Idle} \cup Holds,
             query' \in {Idle} \cup Looked, behind' \subseteq Tables,
             {answer'.found, answer'.matching, answer'.untouched} \subseteq SUBSET Keys,
             writes' \in 0 .. MaxWrites, imports' \in 0 .. MaxImports,
             queries' \in 0 .. MaxQueries
      PROVE  TypeInv'
  BY <1>e DEF TypeInv, TypeOK
<1>1. ASSUME NEW t \in Tables, Create(t) PROVE TypeInv'
  <2>1. data' \in Contents
    BY <1>0, <1>1 DEF Create, Contents, TableData
  <2> QED BY <1>0, <1>1, <1>e, <2>1 DEF Create
<1>2. ASSUME NEW t \in Tables, NEW k \in Keys, NEW v \in Cells, Assign(t, k, v) PROVE TypeInv'
  <2>1. data[t] \in TableData
    BY <1>0, <1>2 DEF Assign, Contents
  <2>2. [data[t] EXCEPT ![k] = v] \in TableData
    BY <2>1 DEF TableData, Cells
  <2>3. data' \in Contents
    BY <1>0, <1>2, <2>2 DEF Assign, Contents
  <2>4. writer' \in Updates
    BY <1>2, <2>1 DEF Assign, Updates, Cells, TableData
  <2>5. query' \in {Idle} \cup Looked
    BY <1>0, <1>2 DEF Assign, Looked
  <2>6. writes' \in 0 .. MaxWrites
    BY <1>0, <1>2, IndexAssumption DEF Assign
  <2> QED BY <1>0, <1>2, <1>e, <2>3, <2>4, <2>5, <2>6 DEF Assign
<1>3. CASE UpdateIndex
  <2>1. writer \in Updates
    BY <1>0, <1>3 DEF UpdateIndex
  <2>2. writer.table \in Tables /\ writer.key \in Keys /\ writer.new \in Cells
    BY <2>1 DEF Updates
  <2>3. ASSUME index[writer.table] # NoIndex
        PROVE  Reindexed(index[writer.table], writer.key, writer.old, writer.new)
                 \subseteq Vals \X Keys
    BY <1>0, <2>2, <2>3 DEF Reindexed, Entered, Indexed, Cells
  <2>4. index' \in [Tables -> {NoIndex} \cup SUBSET (Vals \X Keys)]
    BY <1>0, <1>3, <2>2, <2>3 DEF UpdateIndex
  <2>5. behind' \subseteq Tables
    BY <1>0, <1>3, <2>2 DEF UpdateIndex
  <2> QED BY <1>0, <1>3, <1>e, <2>4, <2>5 DEF UpdateIndex
<1>4. ASSUME NEW d \in Imports, Import(d) PROVE TypeInv'
  <2>1. data' \in Contents /\ writer' \in {Idle} \cup Rebuilding /\ behind' \subseteq Tables
    BY <1>4, IndexAssumption, RebuildLeft DEF Import
  <2>2. creator' \in {Idle} \cup Holds
    <3>1. CASE creator.at = "holds" /\ creator.object = Live
      <4>1. creator \in Holds /\ data[creator.table] \in TableData \cup {NoTable}
        BY <1>0, <3>1 DEF Holds, Contents
      <4>2. creator' = [creator EXCEPT !.object = data[creator.table]]
        BY <1>4, <3>1 DEF Import
      <4> QED BY <4>1, <4>2 DEF Holds
    <3> QED BY <1>0, <1>4, <3>1 DEF Import
  <2>3. query' \in {Idle} \cup Looked
    BY <1>0, <1>4 DEF Import, Looked
  <2>4. imports' \in 0 .. MaxImports
    BY <1>0, <1>4, IndexAssumption DEF Import
  <2> QED BY <1>0, <1>4, <1>e, <2>1, <2>2, <2>3, <2>4 DEF Import
<1>5. ASSUME NEW t \in Tables, Rebuild(t) PROVE TypeInv'
  <2>1. writer' \in {Idle} \cup Rebuilding
    <3>1. writer \in Rebuilding
      BY <1>0, <1>5 DEF Rebuild
    <3>2. writer.left \ {t} \in SUBSET Tables
      BY <3>1 DEF Rebuilding
    <3> QED BY <1>5, <3>2, RebuildLeft DEF Rebuild
  <2>2. IndexOf(data[t]) \subseteq Vals \X Keys
    BY <1>0, IndexOfType DEF Contents
  <2>3. index' \in [Tables -> {NoIndex} \cup SUBSET (Vals \X Keys)]
    BY <1>0, <1>5, <2>2 DEF Rebuild, RebuildOne
  <2> QED BY <1>0, <1>5, <1>e, <2>1, <2>3 DEF Rebuild
<1>11. ASSUME NEW t \in Tables, RebuildRaises(t) PROVE TypeInv'
  BY <1>0, <1>11, <1>e DEF RebuildRaises
<1>6. ASSUME NEW t \in Tables, TakeTable(t) PROVE TypeInv'
  <2>1. creator' \in Holds
    BY <1>6 DEF TakeTable, Holds
  <2> QED BY <1>0, <1>6, <1>e, <2>1 DEF TakeTable
<1>7. CASE BuildIndex
  <2>1. creator \in Holds
    BY <1>0, <1>7 DEF BuildIndex
  <2>2. /\ creator.table \in Tables
        /\ ObjectHeld(creator.object, creator.table) \in TableData \cup {NoTable}
    BY <1>0, <2>1 DEF Holds, ObjectHeld, Contents
  <2>3. BuiltFrom(creator.object, creator.table) \in {NoIndex} \cup SUBSET (Vals \X Keys)
    BY <2>2, IndexOfType DEF BuiltFrom
  <2>4. index' \in [Tables -> {NoIndex} \cup SUBSET (Vals \X Keys)] /\ behind' \subseteq Tables
    BY <1>0, <1>7, <2>2, <2>3 DEF BuildIndex
  <2> QED BY <1>0, <1>7, <1>e, <2>4 DEF BuildIndex
<1>8. CASE WalkInterrupted
  BY <1>0, <1>8, <1>e DEF WalkInterrupted
<1>9. ASSUME NEW t \in Tables, NEW v \in Vals, LookUp(t, v) PROVE TypeInv'
  <2>1. query' \in Looked
    BY <1>9 DEF LookUp, Looked
  <2>2. queries' \in 0 .. MaxQueries
    BY <1>0, <1>9, IndexAssumption DEF LookUp
  <2> QED BY <1>0, <1>9, <1>e, <2>1, <2>2 DEF LookUp
<1>10. CASE Fetch
  <2>1. query \in Looked
    BY <1>0, <1>10 DEF Fetch
  <2>2. {answer'.found, answer'.matching, answer'.untouched} \subseteq SUBSET Keys
    BY <1>10, <2>1 DEF Fetch, Looked, Present
  <2> QED BY <1>0, <1>10, <1>e, <2>2 DEF Fetch
<1> QED BY <1>1, <1>2, <1>3, <1>4, <1>5, <1>6, <1>7, <1>8, <1>9, <1>10, <1>11
           DEF Next, Cells

LEMMA StutterType == TypeInv /\ UNCHANGED vars => TypeInv'
BY DEF vars, counts, TypeInv, TypeOK

(* The variables of the index model have their types: in particular a bucket never
   holds a record under a value that it cannot have. *)
THEOREM TypeCorrect == Spec => []TypeOK
<1>1. TypeInv => TypeOK
  BY DEF TypeInv
<1> QED BY <1>1, InitType, StepType, StutterType, PTL DEF Spec

----------------------------------------------------------------------------
(* An index of a table that is not behind is exact, or lacks the one change that
   its writer has still to make. *)
Pending(t) ==
  /\ writer.at = "update" /\ writer.table = t
  /\ index[t] = IndexOf([data[t] EXCEPT ![writer.key] = writer.old])

Kept(t) ==
  /\ data[t] # NoTable
  /\ index[t] = IndexOf(data[t]) \/ Pending(t)

WriterInv ==
  writer.at = "update" =>
    /\ data[writer.table] # NoTable
    /\ data[writer.table][writer.key] = writer.new

CreatorInv ==
  creator.at = "holds" /\ creator.object = Live => data[creator.table] # NoTable

(* The loop of an import visits tables that exist. *)
RebuildInv == writer.at = "rebuild" => \A t \in writer.left : data[t] # NoTable

KeptInv == \A t \in Tables \ behind : index[t] # NoIndex => Kept(t)

IndexInv == WriterInv /\ CreatorInv /\ RebuildInv /\ KeptInv

LEMMA Entries ==
  ASSUME NEW d \in TableData, NEW v, NEW k
  PROVE  <<v, k>> \in IndexOf(d) <=> k \in Keys /\ v = d[k] /\ Entered(v)
<1>1. d # NoTable
  BY IndexAssumption
<1>2. IndexOf(d) = {<<d[j], j>> : j \in {j \in Keys : Entered(d[j])}}
  BY <1>1 DEF IndexOf
<1> QED BY <1>2

LEMMA EntriesOnly ==
  ASSUME NEW d \in TableData, NEW e \in IndexOf(d)
  PROVE  \E k \in Keys : e = <<d[k], k>>
<1>1. d # NoTable
  BY IndexAssumption
<1> QED BY <1>1 DEF IndexOf

(* The index maintenance of a writer makes the index exact, whether or not the
   walk of create_index has already seen the change. *)
LEMMA ReindexedExact ==
  ASSUME NEW d \in TableData, NEW k \in Keys, NEW old \in Cells, NEW idx,
         idx = IndexOf(d) \/ idx = IndexOf([d EXCEPT ![k] = old]),
         ~(old \in Unhashable /\ Entered(d[k]))
  PROVE  Reindexed(idx, k, old, d[k]) = IndexOf(d)
<1> DEFINE d0 == [d EXCEPT ![k] = old]
           re == Reindexed(idx, k, old, d[k])
<1>1. d0 \in TableData
  BY DEF TableData, Cells
<1>2. PICK b \in {d, d0} : idx = IndexOf(b)
  OBVIOUS
<1>3. b \in TableData /\ (b[k] = d[k] \/ b[k] = old) /\ \A j \in Keys \ {k} : b[j] = d[j]
  BY <1>1, <1>2 DEF TableData
<1>4. ASSUME NEW v, NEW j PROVE <<v, j>> \in re <=> <<v, j>> \in IndexOf(d)
  <2>1. <<v, j>> \in idx <=> j \in Keys /\ v = b[j] /\ Entered(v)
    BY <1>2, <1>3, Entries
  <2>2. <<v, j>> \in IndexOf(d) <=> j \in Keys /\ v = d[j] /\ Entered(v)
    BY Entries
  <2>3. CASE old \in Unhashable
    <3>1. re = idx
      BY <2>3 DEF Reindexed
    <3>2. ~Entered(old) /\ ~Entered(d[k])
      BY <2>3 DEF Entered
    <3> QED BY <1>3, <2>1, <2>2, <3>1, <3>2
  <2>4. CASE old \notin Unhashable
    <3>1. re = (idx \ {<<old, k>>}) \cup (IF Entered(d[k]) THEN {<<d[k], k>>} ELSE {})
      BY <2>4 DEF Reindexed
    <3>2. <<v, j>> \in re <=>
            \/ <<v, j>> \in idx /\ ~(v = old /\ j = k)
            \/ Entered(d[k]) /\ v = d[k] /\ j = k
      BY <3>1
    <3>3. CASE j = k
      BY <1>3, <2>1, <2>2, <3>2, <3>3
    <3>4. CASE j # k
      BY <1>3, <2>1, <2>2, <3>2, <3>4
    <3> QED BY <3>3, <3>4
  <2> QED BY <2>3, <2>4
<1>5. \A e \in IndexOf(d) : \E v, j : e = <<v, j>>
  BY EntriesOnly
<1>6. \A e \in idx : \E v, j : e = <<v, j>>
  BY <1>2, <1>3, EntriesOnly
<1>7. \A e \in re : \E v, j : e = <<v, j>>
  BY <1>6 DEF Reindexed
<1> QED BY <1>4, <1>5, <1>7

LEMMA InitIndex == Init => IndexInv
BY Told DEF Init, IndexInv, WriterInv, CreatorInv, RebuildInv, KeptInv

(* A step that leaves the data, the indexes and the writer alone, and takes no
   table out of behind. *)
LEMMA KeptQuietly ==
  ASSUME IndexInv, UNCHANGED <<data, index, writer>>, behind \subseteq behind'
  PROVE  WriterInv' /\ RebuildInv' /\ KeptInv'
BY DEF IndexInv, WriterInv, RebuildInv, KeptInv, Kept, Pending

LEMMA StepIndex == TypeInv /\ IndexInv /\ Next => IndexInv'
<1> SUFFICES ASSUME TypeInv, IndexInv, Next PROVE IndexInv'
  OBVIOUS
<1> USE Told DEF counts
<1>0. /\ data \in Contents
      /\ index \in [Tables -> {NoIndex} \cup SUBSET (Vals \X Keys)]
      /\ writer \in {Idle} \cup Rebuilding \cup Updates /\ creator \in {Idle} \cup Holds
  BY DEF TypeInv, TypeOK
<1>r. ASSUME writer'.at # "rebuild" PROVE RebuildInv'
  BY <1>r DEF RebuildInv
<1>1. ASSUME NEW t \in Tables, Create(t) PROVE IndexInv'
  <2>1. writer.at = "idle" /\ UNCHANGED <<index, writer, creator, behind>>
    BY <1>1 DEF Create, Free
  <2>2. data'[t] # NoTable /\ \A u \in Tables \ {t} : data'[u] = data[u]
    <3>1. [k \in Keys |-> Absent] \in TableData
      BY DEF TableData
    <3> QED BY <1>0, <1>1, <3>1, IndexAssumption DEF Create, Contents
  <2>3. t \in behind \/ index[t] = NoIndex
    BY <1>1, <2>1 DEF Create, IndexInv, KeptInv, Kept
  <2>4. WriterInv'
    BY <2>1 DEF WriterInv
  <2>5. CreatorInv'
    BY <1>0, <2>1, <2>2 DEF CreatorInv, IndexInv, Holds
  <2>6. KeptInv'
    BY <2>1, <2>2, <2>3 DEF KeptInv, IndexInv, Kept, Pending
  <2> QED BY <1>r, <2>1, <2>4, <2>5, <2>6 DEF IndexInv
<1>2. ASSUME NEW t \in Tables, NEW k \in Keys, NEW v \in Cells, Assign(t, k, v) PROVE IndexInv'
  <2> DEFINE d == data[t]
  <2>1. /\ writer.at = "idle" /\ UNCHANGED <<index, creator, behind>>
        /\ d \in TableData /\ d # NoTable
    BY <1>0, <1>2 DEF Assign, Free, Contents
  <2>2. /\ data'[t] = [d EXCEPT ![k] = v]
        /\ \A u \in Tables \ {t} : data'[u] = data[u]
    BY <1>0, <1>2 DEF Assign, Contents
  <2>3. data'[t] \in TableData /\ data'[t] # NoTable /\ data'[t][k] = v
    BY <2>1, <2>2, IndexAssumption DEF TableData, Cells
  <2>4. [data'[t] EXCEPT ![k] = d[k]] = d
    BY <2>1, <2>2 DEF TableData
  <2>5. writer' = [at |-> "update", table |-> t, key |-> k, old |-> d[k], new |-> v]
    BY <1>2 DEF Assign
  <2>6. WriterInv'
    BY <2>3, <2>5 DEF WriterInv
  <2>7. CreatorInv'
    BY <1>0, <2>1, <2>2, <2>3 DEF CreatorInv, IndexInv, Holds
  <2>8. ASSUME NEW u \in Tables \ behind, index[u] # NoIndex PROVE Kept(u)'
    <3>1. data[u] # NoTable /\ index[u] = IndexOf(data[u])
      BY <2>1, <2>8 DEF IndexInv, KeptInv, Kept, Pending
    <3>2. CASE u = t
      <4>1. Pending(t)'
        BY <2>1, <2>4, <2>5, <3>1, <3>2 DEF Pending
      <4> QED BY <2>3, <3>2, <4>1 DEF Kept
    <3> QED BY <2>1, <2>2, <3>1, <3>2 DEF Kept
  <2>9. writer'.at # "rebuild"
    BY <2>5
  <2> QED BY <1>r, <2>1, <2>6, <2>7, <2>8, <2>9 DEF IndexInv, KeptInv
<1>3. CASE UpdateIndex
  <2> DEFINE t == writer.table
  <2>1. writer \in Updates /\ writer.at = "update"
    BY <1>0, <1>3 DEF UpdateIndex
  <2>2. t \in Tables /\ writer.key \in Keys /\ writer.old \in Cells /\ writer.new \in Cells
    BY <2>1 DEF Updates
  <2>3. data[t] \in TableData /\ data[t][writer.key] = writer.new
    BY <1>0, <2>1, <2>2 DEF IndexInv, WriterInv, Contents
  <2>4. writer'.at = "idle" /\ UNCHANGED <<data, creator>> /\ behind \subseteq behind'
    BY <1>3 DEF UpdateIndex
  <2>5. \A u \in Tables \ {t} : index'[u] = index[u]
    BY <1>0, <1>3 DEF UpdateIndex
  <2>6. index'[t] = IF index[t] = NoIndex THEN NoIndex
                    ELSE Reindexed(index[t], writer.key, writer.old, writer.new)
    BY <1>0, <1>3, <2>2 DEF UpdateIndex
  <2>7. ASSUME NEW u \in Tables \ behind', index'[u] # NoIndex PROVE Kept(u)'
    <3>1. CASE u = t
      <4>1. index[t] # NoIndex /\ t \notin behind
        BY <2>4, <2>6, <2>7, <3>1
      <4>2. ~(writer.old \in Unhashable /\ Entered(writer.new))
        BY <1>3, <2>7, <3>1, <4>1 DEF UpdateIndex
      <4>3. Kept(t)
        BY <2>1, <2>2, <4>1 DEF IndexInv, KeptInv
      <4>4. \/ index[t] = IndexOf(data[t])
            \/ index[t] = IndexOf([data[t] EXCEPT ![writer.key] = writer.old])
        BY <4>3 DEF Kept, Pending
      <4>5. Reindexed(index[t], writer.key, writer.old, writer.new) = IndexOf(data[t])
        BY <2>2, <2>3, <4>2, <4>4, ReindexedExact
      <4> QED BY <2>4, <2>6, <3>1, <4>1, <4>3, <4>5 DEF Kept
    <3>2. CASE u # t
      <4>1. index[u] # NoIndex /\ u \notin behind
        BY <2>4, <2>5, <2>7, <3>2
      <4>2. Kept(u) /\ ~Pending(u)
        BY <2>1, <3>2, <4>1 DEF IndexInv, KeptInv, Pending
      <4> QED BY <2>4, <2>5, <3>2, <4>2 DEF Kept
    <3> QED BY <3>1, <3>2
  <2>8. WriterInv' /\ CreatorInv'
    BY <2>4 DEF WriterInv, CreatorInv, IndexInv
  <2> QED BY <1>r, <2>4, <2>7, <2>8 DEF IndexInv, KeptInv
<1>4. ASSUME NEW d \in Imports, Import(d) PROVE IndexInv'
  <2>1. /\ writer'.at # "update"
        /\ writer'.at = "rebuild" => writer'.left = {t \in Tables : data'[t] # NoTable}
    BY <1>4 DEF Import, RebuildOf
  <2>3. \A t \in Tables \ behind' : index'[t] = NoIndex
    BY <1>4 DEF Import
  <2>2. CreatorInv'
    <3>1. CASE creator.at = "holds" /\ creator.object = Live
      <4>1. creator \in Holds /\ data[creator.table] \in TableData \cup {NoTable}
        BY <1>0, <3>1 DEF Holds, Contents
      <4>2. creator' = [creator EXCEPT !.object = data[creator.table]]
        BY <1>4, <3>1 DEF Import
      <4>3. creator'.object = data[creator.table]
        BY <4>1, <4>2 DEF Holds
      <4> QED BY <4>1, <4>3, IndexAssumption DEF CreatorInv
    <3>2. CASE ~(creator.at = "holds" /\ creator.object = Live)
      BY <1>4, <3>2 DEF Import, CreatorInv
    <3> QED BY <3>1, <3>2
  <2> QED BY <2>1, <2>2, <2>3 DEF IndexInv, WriterInv, RebuildInv, KeptInv
<1>5. ASSUME NEW t \in Tables, Rebuild(t) PROVE IndexInv'
  <2>1. /\ writer.at = "rebuild" /\ t \in writer.left /\ UNCHANGED <<data, creator>>
        /\ writer' = RebuildOf(writer.left \ {t}) /\ behind' = behind \ {t}
    BY <1>5 DEF Rebuild
  <2>2. writer'.at # "update" /\ (writer'.at = "rebuild" => writer'.left = writer.left \ {t})
    BY <2>1 DEF RebuildOf
  <2>3. /\ \A u \in Tables \ {t} : index'[u] = index[u]
        /\ index'[t] # NoIndex => index'[t] = IndexOf(data[t])
    BY <1>0, <1>5 DEF Rebuild, RebuildOne
  <2>4. data[t] # NoTable
    BY <2>1 DEF IndexInv, RebuildInv
  <2>5. ASSUME NEW u \in Tables \ behind', index'[u] # NoIndex PROVE Kept(u)'
    <3>1. CASE u = t
      BY <2>1, <2>3, <2>4, <2>5, <3>1 DEF Kept
    <3>2. CASE u # t
      <4>1. Kept(u) /\ ~Pending(u)
        BY <2>1, <2>3, <2>5, <3>2 DEF IndexInv, KeptInv, Pending
      <4> QED BY <2>1, <2>3, <3>2, <4>1 DEF Kept
    <3> QED BY <3>1, <3>2
  <2>6. WriterInv' /\ CreatorInv' /\ RebuildInv'
    BY <2>1, <2>2 DEF IndexInv, WriterInv, CreatorInv, RebuildInv
  <2> QED BY <2>5, <2>6 DEF IndexInv, KeptInv
<1>11. ASSUME NEW t \in Tables, RebuildRaises(t) PROVE IndexInv'
  <2>1. /\ writer.at = "rebuild" /\ writer'.at = "idle"
        /\ UNCHANGED <<data, index, creator, behind>>
    BY <1>11 DEF RebuildRaises
  <2>2. ASSUME NEW u \in Tables \ behind', index'[u] # NoIndex PROVE Kept(u)'
    <3>1. Kept(u) /\ ~Pending(u)
      BY <2>1, <2>2 DEF IndexInv, KeptInv, Pending
    <3> QED BY <2>1, <3>1 DEF Kept
  <2> QED BY <2>1, <2>2 DEF IndexInv, WriterInv, CreatorInv, RebuildInv, KeptInv
<1>6. ASSUME NEW t \in Tables, TakeTable(t) PROVE IndexInv'
  <2>1. UNCHANGED <<data, index, writer, behind>>
    BY <1>6 DEF TakeTable
  <2>2. CreatorInv'
    BY <1>6, IndexAssumption DEF TakeTable, CreatorInv
  <2> QED BY <2>1, <2>2, KeptQuietly DEF IndexInv
<1>7. CASE BuildIndex
  <2> DEFINE t == creator.table
             b == BuiltFrom(creator.object, t)
  <2>1. creator \in Holds /\ creator.at = "holds" /\ t \in Tables
    BY <1>0, <1>7 DEF BuildIndex, Holds
  <2>2. UNCHANGED <<data, writer>> /\ creator'.at = "idle" /\ behind \subseteq behind'
    BY <1>7 DEF BuildIndex
  <2>3. /\ index[t] # NoIndex => index' = index
        /\ index[t] = NoIndex => index' = [index EXCEPT ![t] = b]
        /\ index[t] = NoIndex /\ creator.object # Live => t \in behind'
    BY <1>7 DEF BuildIndex
  <2>4. WriterInv' /\ CreatorInv' /\ RebuildInv'
    BY <2>2 DEF IndexInv, WriterInv, CreatorInv, RebuildInv
  <2>5. ASSUME NEW u \in Tables \ behind', index'[u] # NoIndex
        PROVE  Kept(u)'
    <3>1. CASE index'[u] = index[u]
      <4>1. Kept(u)
        BY <2>2, <2>5, <3>1 DEF IndexInv, KeptInv
      <4> QED BY <2>2, <3>1, <4>1 DEF Kept, Pending
    <3>2. CASE index'[u] # index[u]
      <4>1. u = t /\ index[t] = NoIndex /\ index'[t] = b
        BY <1>0, <2>1, <2>3, <3>2
      <4>2. creator.object = Live
        BY <2>3, <2>5, <4>1
      <4>3. data[t] # NoTable
        BY <2>1, <4>2 DEF IndexInv, CreatorInv
      <4>4. b = IndexOf(data[t])
        BY <2>5, <4>1, <4>2 DEF BuiltFrom, ObjectHeld
      <4> QED BY <2>2, <4>1, <4>3, <4>4 DEF Kept
    <3> QED BY <3>1, <3>2
  <2> QED BY <2>2, <2>4, <2>5 DEF IndexInv, KeptInv
<1>8. CASE WalkInterrupted
  <2>1. UNCHANGED <<data, index, writer, behind>> /\ creator'.at = "idle"
    BY <1>8 DEF WalkInterrupted
  <2> QED BY <2>1, KeptQuietly DEF IndexInv, CreatorInv
<1>9. ASSUME NEW t \in Tables, NEW v \in Vals, LookUp(t, v) PROVE IndexInv'
  <2>1. UNCHANGED <<data, index, writer, creator, behind>>
    BY <1>9 DEF LookUp
  <2> QED BY <2>1, KeptQuietly DEF IndexInv, CreatorInv
<1>10. CASE Fetch
  <2>1. UNCHANGED <<data, index, writer, creator, behind>>
    BY <1>10 DEF Fetch
  <2> QED BY <2>1, KeptQuietly DEF IndexInv, CreatorInv
<1> QED BY <1>1, <1>2, <1>3, <1>4, <1>5, <1>6, <1>7, <1>8, <1>9, <1>10, <1>11
           DEF Next, Cells

LEMMA StutterIndex == IndexInv /\ UNCHANGED vars => IndexInv'
<1> SUFFICES ASSUME IndexInv, UNCHANGED vars PROVE IndexInv'
  OBVIOUS
<1>1. UNCHANGED <<data, index, writer, creator, behind>>
  BY DEF vars
<1> QED BY <1>1, KeptQuietly DEF IndexInv, CreatorInv

(* Between two write sections the index of a table that is not behind holds exactly
   its records: no order of writers, rebuilds and create_index leaves an entry of a
   record that changed, or misses one. *)
THEOREM IndexExact == Spec => []IndexMatchesUnlessBehind
<1>1. TypeInv /\ IndexInv => IndexMatchesUnlessBehind
  <2> SUFFICES ASSUME IndexInv, NEW t \in Tables \ behind, index[t] # NoIndex, Free
               PROVE  index[t] = IndexOf(data[t])
    BY DEF IndexMatchesUnlessBehind, Exact
  <2> QED BY Told DEF IndexInv, KeptInv, Kept, Pending, Free
<1> QED BY <1>1, InitType, StepType, StutterType, InitIndex, StepIndex, StutterIndex, PTL DEF Spec

----------------------------------------------------------------------------
(* The bucket that a query holds is right about every record that nobody has
   touched since. *)
BucketInv ==
  query.at = "looked" /\ query.untouched # {} =>
    /\ data[query.table] # NoTable
    /\ \A k \in query.untouched : k \in query.keys <=> data[query.table][k] = query.value

AnswerInv == QueryExactOnUntouched /\ BucketInv

LEMMA InitAnswer == Init => AnswerInv
BY Told DEF Init, AnswerInv, BucketInv, QueryExactOnUntouched

LEMMA AnswerQuietly ==
  ASSUME AnswerInv, UNCHANGED <<data, query, answer>>
  PROVE  AnswerInv'
BY DEF AnswerInv, BucketInv, QueryExactOnUntouched

LEMMA StepAnswer == TypeInv /\ IndexInv /\ AnswerInv /\ Next => AnswerInv'
<1> SUFFICES ASSUME TypeInv, IndexInv, AnswerInv, Next PROVE AnswerInv'
  OBVIOUS
<1> USE Told DEF counts
<1>0. /\ data \in Contents /\ query \in {Idle} \cup Looked
      /\ index \in [Tables -> {NoIndex} \cup SUBSET (Vals \X Keys)]
  BY DEF TypeInv, TypeOK
<1>q. ASSUME UNCHANGED answer PROVE QueryExactOnUntouched'
  BY <1>q DEF AnswerInv, QueryExactOnUntouched
<1>1. ASSUME NEW t \in Tables, Create(t) PROVE AnswerInv'
  <2>1. UNCHANGED <<query, answer>> /\ data[t] = NoTable
    BY <1>1 DEF Create
  <2>2. \A u \in Tables \ {t} : data'[u] = data[u]
    BY <1>0, <1>1 DEF Create, Contents
  <2>3. BucketInv'
    BY <1>0, <2>1, <2>2 DEF AnswerInv, BucketInv, Looked
  <2> QED BY <1>q, <2>1, <2>3 DEF AnswerInv
<1>2. ASSUME NEW t \in Tables, NEW k \in Keys, NEW v \in Cells, Assign(t, k, v) PROVE AnswerInv'
  <2>1. UNCHANGED answer /\ data[t] \in TableData
    BY <1>0, <1>2 DEF Assign, Contents
  <2>2. /\ data'[t] = [data[t] EXCEPT ![k] = v]
        /\ \A u \in Tables \ {t} : data'[u] = data[u]
    BY <1>0, <1>2 DEF Assign, Contents
  <2>3. data'[t] # NoTable /\ \A j \in Keys \ {k} : data'[t][j] = data[t][j]
    <3>1. data'[t] \in TableData
      BY <2>1, <2>2 DEF TableData, Cells
    <3> QED BY <2>1, <2>2, <3>1, IndexAssumption DEF TableData
  <2>4. BucketInv'
    <3>1. CASE query.at = "looked" /\ query.table = t
      <4>1. query \in Looked /\ query' = [query EXCEPT !.untouched = @ \ {k}]
        BY <1>0, <1>2, <3>1 DEF Assign
      <4>2. /\ query'.table = t /\ query'.keys = query.keys /\ query'.value = query.value
            /\ query'.untouched = query.untouched \ {k} /\ query.untouched \subseteq Keys
        BY <3>1, <4>1 DEF Looked
      <4> QED BY <2>3, <3>1, <4>2 DEF AnswerInv, BucketInv
    <3>2. CASE ~(query.at = "looked" /\ query.table = t)
      <4>1. query' = query
        BY <1>2, <3>2 DEF Assign
      <4> QED BY <1>0, <2>2, <3>2, <4>1 DEF AnswerInv, BucketInv, Looked
    <3> QED BY <3>1, <3>2
  <2> QED BY <1>q, <2>1, <2>4 DEF AnswerInv
<1>3. CASE UpdateIndex
  BY <1>3, AnswerQuietly DEF UpdateIndex
<1>4. ASSUME NEW d \in Imports, Import(d) PROVE AnswerInv'
  <2>1. UNCHANGED answer
    BY <1>4 DEF Import
  <2>2. query'.at = "looked" => query'.untouched = {}
    BY <1>0, <1>4 DEF Import, Looked
  <2> QED BY <1>q, <2>1, <2>2 DEF AnswerInv, BucketInv
<1>5. ASSUME NEW t \in Tables, Rebuild(t) PROVE AnswerInv'
  BY <1>5, AnswerQuietly DEF Rebuild
<1>11. ASSUME NEW t \in Tables, RebuildRaises(t) PROVE AnswerInv'
  BY <1>11, AnswerQuietly DEF RebuildRaises
<1>6. ASSUME NEW t \in Tables, TakeTable(t) PROVE AnswerInv'
  BY <1>6, AnswerQuietly DEF TakeTable
<1>7. CASE BuildIndex
  BY <1>7, AnswerQuietly DEF BuildIndex
<1>8. CASE WalkInterrupted
  BY <1>8, AnswerQuietly DEF WalkInterrupted
<1>9. ASSUME NEW t \in Tables, NEW v \in Vals, LookUp(t, v) PROVE AnswerInv'
  <2>1. UNCHANGED <<data, answer>>
    BY <1>9 DEF LookUp
  <2>2. /\ query'.table = t /\ query'.value = v
        /\ query'.keys = {k \in Keys : <<v, k>> \in index[t]}
        /\ query'.untouched = IF t \in behind \/ ~Free THEN {} ELSE Keys
    BY <1>9 DEF LookUp
  <2>3. ASSUME query'.untouched # {}
        PROVE  data[t] # NoTable /\ \A k \in Keys : k \in query'.keys <=> data[t][k] = v
    <3>1. t \notin behind /\ Free /\ index[t] # NoIndex
      BY <1>9, <2>2, <2>3 DEF LookUp
    <3>2. data[t] # NoTable /\ index[t] = IndexOf(data[t])
      BY <3>1 DEF IndexInv, KeptInv, Kept, Pending, Free
    <3>3. Entered(v)
      BY <1>9, IndexAssumption DEF LookUp, Entered, Indexed
    <3>4. \A k \in Keys : <<v, k>> \in index[t] <=> data[t][k] = v
      BY <1>0, <3>2, <3>3, Entries DEF Contents
    <3> QED BY <2>2, <3>2, <3>4
  <2>4. BucketInv'
    BY <2>1, <2>2, <2>3 DEF BucketInv
  <2> QED BY <1>q, <2>1, <2>4 DEF AnswerInv
<1>10. CASE Fetch
  <2> DEFINE d == data[query.table]
  <2>1. query \in Looked /\ query.at = "looked" /\ query'.at = "idle"
    BY <1>0, <1>10 DEF Fetch
  <2>2. /\ answer'.untouched = query.untouched
        /\ d # NoTable => /\ answer'.found = {k \in query.keys : d[k] # Absent}
                          /\ answer'.matching = {k \in Keys : d[k] = query.value}
    BY <1>10 DEF Fetch, Present
  <2>3. query.untouched \subseteq Keys /\ query.value # Absent
    BY <2>1, IndexAssumption DEF Looked
  <2>4. QueryExactOnUntouched'
    <3>1. CASE query.untouched = {}
      BY <2>2, <3>1 DEF QueryExactOnUntouched
    <3>2. CASE query.untouched # {}
      <4>1. d # NoTable /\ \A k \in query.untouched : k \in query.keys <=> d[k] = query.value
        BY <2>1, <3>2 DEF AnswerInv, BucketInv
      <4>2. \A k \in query.untouched : k \in answer'.found <=> k \in answer'.matching
        BY <2>2, <2>3, <4>1
      <4> QED BY <2>2, <4>2 DEF QueryExactOnUntouched
    <3> QED BY <3>1, <3>2
  <2> QED BY <2>1, <2>4 DEF AnswerInv, BucketInv
<1> QED BY <1>1, <1>2, <1>3, <1>4, <1>5, <1>6, <1>7, <1>8, <1>9, <1>10, <1>11
           DEF Next, Cells

LEMMA StutterAnswer == AnswerInv /\ UNCHANGED vars => AnswerInv'
BY AnswerQuietly DEF vars

(* query_by_index holds one lock for the bucket and another for the records: of the
   records that nobody touches in between it returns those that have the value, all
   of them and no other, if it looked into an index that was not behind. *)
THEOREM QueryExact == Spec => []QueryExactOnUntouched
<1>1. AnswerInv => QueryExactOnUntouched
  BY DEF AnswerInv
<1> QED BY <1>1, InitType, StepType, StutterType, InitIndex, StepIndex, StutterIndex,
           InitAnswer, StepAnswer, StutterAnswer, PTL DEF Spec

=============================================================================
