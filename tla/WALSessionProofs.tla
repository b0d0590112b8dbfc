-------------------------- MODULE WALSessionProofs --------------------------
(***************************************************************************)
(* Proofs about the WAL under one process after another (module            *)
(* WALSession), for any entries and any number of appends and processes:   *)
(* what a replay delivers is a prefix of what was appended with all that   *)
(* was fsynced, and modules/wal.py implements module DurableLog.           *)
(*                                                                         *)
(* These are about calm behaviours: every entry can be encoded and read    *)
(* back, a crash leaves whole frames, and close waits for its threads.     *)
(* Of every behaviour: a replay delivers nothing twice.                    *)
(***************************************************************************)
EXTENDS WALSession, FiniteSetTheorems, SequenceLemmas

(* The entries that a calm behaviour appends. *)
Good == Entry \ (Unencodable \cup Oversized)

(* The whole frames of the file: all but the one whose header was just
   written. *)
HeaderOut == \E f \in Flushers : step[f] = "payload"
Whole     == IF HeaderOut THEN SubSeq(file, 1, Len(file) - 1) ELSE file

(* What a flush has taken and not yet written. *)
Held == taken["syncer"] \o taken["closer"]

Line == (Whole \o Held) \o buffered

SessionTypeOK ==
  /\ buffered \in Seq(Good) /\ taken \in [Flushers -> Seq(Good)]
  /\ step \in [Flushers -> Steps] /\ header \in [Flushers -> Nat]
  /\ file \in Seq(Good \cup {Torn}) /\ synced \in Nat /\ open \in BOOLEAN
  /\ appended \in Seq(Good) /\ late \in Nat
  /\ syncer \in {"run", "last", "exit"}
  /\ closer \in {"idle", "join", "flush", "closed", "down"}

(* At most one flush is in progress: close begins its own when the wal-sync
   thread has ended. *)
OneFlush ==
  /\ \A f \in Flushers : step[f] # "idle" => f \in {"syncer", "closer"}
  /\ closer \in {"idle", "join"} => step["closer"] = "idle"
  /\ closer \in {"flush", "closed"} => syncer = "exit" /\ step["syncer"] = "idle"
  /\ closer = "closed" => step["closer"] = "idle"
  /\ open <=> closer # "closed"
FlushHolds ==
  /\ \A f \in Flushers : taken[f] = <<>> <=> step[f] \in {"idle", "fsync"}
  /\ late = IF closer \in {"flush", "closed"} THEN Len(buffered) ELSE 0
WholeFrames ==
  /\ Whole \in Seq(Good)
  /\ HeaderOut => file = Append(Whole, Torn)
  /\ \A f \in Flushers : step[f] = "payload" => header[f] = Len(file)
  /\ synced <= Len(Whole)
  /\ appended = Line

(* Between a crash and the next start only the file counts. *)
Survived ==
  file \in Seq(Good) /\ appended = file /\ late = 0 /\ synced <= Len(file)

SessionInv ==
  /\ SessionTypeOK
  /\ closer # "down" => OneFlush /\ FlushHolds /\ WholeFrames
  /\ closer = "down" => Survived

----------------------------------------------------------------------------
(* What read_all returns. *)

(* With readable entries it returns all frames up to a torn one. *)
LEMMA ReadAllEntries ==
  ASSUME NEW s \in Seq(Good)
  PROVE  ReadAll(s) = s /\ ReadAll(Append(s, Torn)) = s
<1> DEFINE t == Append(s, Torn)
<1> DEFINE kept(u) == {i \in DOMAIN u : \A j \in 1 .. i : Readable(u[j])}
<1>1. Len(s) \in Nat /\ DOMAIN s = 1 .. Len(s) /\ \A i \in 1 .. Len(s) : s[i] \in Good
  BY LenProperties, ElementOfSeq
<1>2. \A i \in 1 .. Len(s) : Readable(s[i])
  BY <1>1, WALAssumption DEF Readable, Good
<1>3. /\ DOMAIN t = 1 .. Len(s) + 1 /\ t[Len(s) + 1] = Torn
      /\ \A i \in 1 .. Len(s) : t[i] = s[i]
  <2>1. s \in Seq(Good \cup {Torn}) /\ Torn \in Good \cup {Torn}
    BY <1>1, SeqMonotonic
  <2>2. t \in Seq(Good \cup {Torn}) /\ Len(t) = Len(s) + 1
    BY <2>1, AppendProperties
  <2>3. DOMAIN t = 1 .. Len(t)
    BY <2>2, LenProperties
  <2> QED BY <2>1, <2>2, <2>3, AppendProperties
<1>4. kept(s) = 1 .. Len(s)
  BY <1>1, <1>2
<1>5. kept(t) = 1 .. Len(s)
  <2>1. ~Readable(Torn)
    BY DEF Readable
  <2> HIDE DEF t
  <2>2. \A i \in kept(t) : i # Len(s) + 1
    BY <1>1, <1>3, <2>1
  <2> QED BY <1>1, <1>2, <1>3, <2>2
<1>6. Cardinality(1 .. Len(s)) = Len(s)
  <2>1. 1 \in Int /\ Len(s) \in Int /\ Len(s) - 1 + 1 = Len(s) /\ (1 > Len(s) => Len(s) = 0)
    BY <1>1
  <2> QED BY <2>1, FS_Interval
<1>7. SubSeq(s, 1, Len(s)) = s
  BY SubSeqFull
<1>8. SubSeq(t, 1, Len(s)) = s
  <2>1. \A i \in 1 .. Len(s) : t[i] \in Good
    BY <1>1, <1>3
  <2> HIDE DEF t
  <2>2. /\ SubSeq(t, 1, Len(s)) \in Seq(Good) /\ Len(SubSeq(t, 1, Len(s))) = Len(s)
        /\ \A i \in 1 .. Len(s) : SubSeq(t, 1, Len(s))[i] = t[i]
    BY <1>1, <2>1, SubSeqProperties
  <2> QED BY <1>3, <2>2, SeqEqual
<1>9. \A u : ReadAll(u) = SubSeq(u, 1, Cardinality(kept(u)))
  BY DEF ReadAll
<1> HIDE DEF t, kept
<1> QED BY <1>4, <1>5, <1>6, <1>7, <1>8, <1>9 DEF t

(* The parts of the line are sequences of entries. *)
LEMMA LineType ==
  ASSUME SessionTypeOK, Whole \in Seq(Good)
  PROVE  /\ Held \in Seq(Good) /\ Whole \o Held \in Seq(Good) /\ Line \in Seq(Good)
         /\ Len(Line) = Len(Whole) + Len(Held) + Len(buffered)
         /\ Len(Whole) \in Nat /\ Len(Held) \in Nat /\ Len(buffered) \in Nat
         /\ \A n \in 0 .. Len(Whole) : SubSeq(Line, 1, n) = SubSeq(Whole, 1, n)
<1>1. taken["syncer"] \in Seq(Good) /\ taken["closer"] \in Seq(Good) /\ buffered \in Seq(Good)
  BY WALSessionAssumption DEF SessionTypeOK
<1>2. Held \in Seq(Good)
  BY <1>1, ConcatProperties DEF Held
<1>3. Whole \o Held \in Seq(Good) /\ Len(Whole \o Held) = Len(Whole) + Len(Held)
  BY <1>2, ConcatProperties
<1>4. Line \in Seq(Good) /\ Len(Line) = Len(Whole \o Held) + Len(buffered)
  BY <1>1, <1>3, ConcatProperties DEF Line
<1>5. Len(Whole) \in Nat /\ Len(Held) \in Nat /\ Len(buffered) \in Nat
  BY <1>1, <1>2, LenProperties
<1>6. ASSUME NEW n \in 0 .. Len(Whole) PROVE SubSeq(Line, 1, n) = SubSeq(Whole, 1, n)
  <2>1. n \in 0 .. Len(Whole \o Held)
    BY <1>3, <1>5
  <2>2. SubSeq(Line, 1, n) = SubSeq(Whole \o Held, 1, n)
    BY <1>1, <1>3, <2>1, FirstPart DEF Line
  <2>3. SubSeq(Whole \o Held, 1, n) = SubSeq(Whole, 1, n)
    BY <1>2, FirstPart
  <2> QED BY <2>2, <2>3
<1> QED BY <1>2, <1>3, <1>4, <1>5, <1>6

(* A replay delivers the whole frames. *)
LEMMA ReadAllWhole ==
  ASSUME Whole \in Seq(Good), HeaderOut => file = Append(Whole, Torn)
  PROVE  ReadAll(file) = Whole
<1>1. CASE HeaderOut
  BY <1>1, ReadAllEntries
<1>2. CASE ~HeaderOut
  BY <1>2, ReadAllEntries DEF Whole
<1> QED BY <1>1, <1>2

(* The invariant implies the property. *)
LEMMA InvImpliesPrefix == calm /\ SessionInv => ReplayIsPrefix
<1> SUFFICES ASSUME calm, SessionInv PROVE ReplayIsPrefix
  OBVIOUS
<1>1. CASE closer = "down"
  <2>1. ReadAll(file) = file /\ appended = file /\ synced <= Len(file)
    BY <1>1, ReadAllEntries DEF SessionInv, Survived
  <2>2. Len(file) \in Nat
    BY LenProperties DEF SessionInv, SessionTypeOK
  <2> QED BY <2>1, <2>2 DEF ReplayIsPrefix, IsPrefix
<1>2. CASE closer # "down"
  <2>1. WholeFrames /\ SessionTypeOK
    BY <1>2 DEF SessionInv
  <2>2. ReadAll(file) = Whole
    BY <2>1, ReadAllWhole DEF WholeFrames
  <2>3. appended = Line /\ synced <= Len(Whole) /\ Whole \in Seq(Good)
    BY <2>1 DEF WholeFrames
  <2>4. Len(Whole) <= Len(Line) /\ SubSeq(Line, 1, Len(Whole)) = SubSeq(Whole, 1, Len(Whole))
    BY <2>1, <2>3, LineType
  <2> QED BY <2>2, <2>3, <2>4 DEF ReplayIsPrefix, IsPrefix
<1> QED BY <1>1, <1>2

----------------------------------------------------------------------------
(* The invariant is inductive. *)

(* An empty file, an empty buffer. *)
LEMMA EmptyLine ==
  ASSUME taken = [f \in Flushers |-> <<>>], step = [f \in Flushers |-> "idle"],
         buffered = <<>>, file = <<>>
  PROVE  ~HeaderOut /\ Whole = <<>> /\ Line = <<>> /\ Len(Whole) = 0
<1>1. ~HeaderOut /\ Whole = <<>>
  BY DEF HeaderOut, Whole
<1>2. Held = <<>>
  <2>1. Held = <<>> \o <<>>
    BY WALSessionAssumption DEF Held
  <2>2. <<>> \in Seq(Good)
    BY EmptySeq
  <2> QED BY <2>1, <2>2, ConcatEmptySeq
<1>3. <<>> \o <<>> = <<>> /\ Len(<<>>) = 0
  BY EmptySeq, ConcatEmptySeq
<1> QED BY <1>1, <1>2, <1>3 DEF Line

(* No process has run yet. *)
LEMMA InitSessionInv == Init => SessionInv
<1> SUFFICES ASSUME Init PROVE SessionInv
  OBVIOUS
<1>1. <<>> \in Seq(Good)
  BY EmptySeq
<1>2. <<>> \in Seq(Good \cup {Torn})
  BY EmptySeq
<1>3. SessionTypeOK
  BY <1>1, <1>2 DEF Init, WALInit, SessionTypeOK, Steps
<1>4. OneFlush /\ FlushHolds
  <2>1. {"syncer", "closer"} \subseteq Flushers
    BY WALSessionAssumption
  <2>2. closer = "idle" /\ open = TRUE /\ late = 0 /\ \A f \in Flushers : step[f] = "idle" /\ taken[f] = <<>>
    BY DEF Init, WALInit
  <2> QED BY <2>1, <2>2 DEF OneFlush, FlushHolds
<1>5. WholeFrames
  <2>1. ~HeaderOut /\ Whole = <<>> /\ Line = <<>> /\ Len(Whole) = 0
    BY EmptyLine DEF Init, WALInit
  <2> QED BY <1>1, <2>1 DEF Init, WALInit, WholeFrames
<1> QED BY <1>3, <1>4, <1>5 DEF Init, SessionInv

(* The thread in a flush is alone in it, and has all that is held. *)
LEMMA Alone ==
  ASSUME SessionInv, closer # "down", NEW f \in Flushers, step[f] # "idle"
  PROVE  /\ f \in {"syncer", "closer"} /\ open
         /\ \A g \in Flushers : g # f => step[g] = "idle"
         /\ Held = taken[f] /\ taken[f] \in Seq(Good)
         /\ HeaderOut <=> step[f] = "payload"
<1>1. SessionTypeOK /\ OneFlush /\ FlushHolds
  BY DEF SessionInv
<1>2. f \in {"syncer", "closer"} /\ open /\ \A g \in Flushers : g # f => step[g] = "idle"
  BY <1>1, WALSessionAssumption DEF OneFlush, SessionTypeOK
<1>3. \A g \in Flushers : taken[g] \in Seq(Good)
  BY <1>1 DEF SessionTypeOK
<1>4. Held = taken[f]
  <2>1. CASE f = "syncer"
    <3>1. taken["closer"] = <<>>
      BY <1>1, <1>2, <2>1, WALSessionAssumption DEF FlushHolds
    <3> QED BY <1>3, <2>1, <3>1, ConcatEmptySeq DEF Held
  <2>2. CASE f = "closer"
    <3>1. taken["syncer"] = <<>>
      BY <1>1, <1>2, <2>2, WALSessionAssumption DEF FlushHolds
    <3> QED BY <1>3, <2>2, <3>1, ConcatEmptySeq DEF Held
  <2> QED BY <1>2, <2>1, <2>2
<1>5. HeaderOut <=> step[f] = "payload"
  BY <1>2 DEF HeaderOut
<1> QED BY <1>2, <1>3, <1>4, <1>5

(* append: the entry comes last in the line. *)
LEMMA AppendSession ==
  ASSUME calm, SessionInv, NEW e \in Entry, AppendOne(e)
  PROVE  SessionInv'
<1>1. /\ closer # "down" /\ closer' = closer /\ syncer' = syncer
      /\ appended' = Append(appended, e) /\ buffered' = Append(buffered, e)
      /\ late' = IF closer \in {"flush", "closed", "failed"} THEN late + 1 ELSE late
      /\ UNCHANGED <<taken, step, header, file, synced, open>>
  BY DEF AppendOne, AppendEntry
<1>0. e \in Good
  BY DEF AppendOne, Good
<1>2. SessionTypeOK /\ OneFlush /\ FlushHolds /\ WholeFrames
  BY <1>1 DEF SessionInv
<1>3. SessionTypeOK'
  BY <1>0, <1>1, <1>2 DEF SessionTypeOK
<1>4. OneFlush' /\ FlushHolds'
  <2>1. Len(buffered') = Len(buffered) + 1
    BY <1>0, <1>1, <1>2, AppendProperties DEF SessionTypeOK
  <2> QED BY <1>1, <1>2, <2>1 DEF OneFlush, FlushHolds, SessionTypeOK
<1>5. Whole' = Whole /\ HeaderOut' = HeaderOut /\ Held' = Held
  BY <1>1 DEF Whole, HeaderOut, Held
<1>6. Line' = Append(Line, e)
  <2>1. Whole \o Held \in Seq(Good) /\ buffered \in Seq(Good)
    BY <1>2, LineType DEF WholeFrames, SessionTypeOK
  <2> QED BY <1>0, <1>1, <1>5, <2>1, AppendRight DEF Line
<1>7. WholeFrames'
  BY <1>1, <1>2, <1>5, <1>6 DEF WholeFrames
<1> QED BY <1>1, <1>3, <1>4, <1>7 DEF SessionInv

(* flush takes the buffer: the border between what is held and what is buffered
   moves to the end. *)
LEMMA TakeSession ==
  ASSUME calm, SessionInv, NEW f \in {"syncer", "closer"}, FlushTake(f),
         UNCHANGED <<appended, late>>,
         \/ /\ f = "syncer" /\ closer \in {"idle", "join"} /\ closer' = closer
            /\ syncer' \in {"run", "last", "exit"}
         \/ /\ f = "closer" /\ closer = "join" /\ closer' = "flush"
            /\ syncer = "exit" /\ syncer' = syncer /\ step["syncer"] = "idle"
  PROVE  SessionInv'
<1>1. /\ step[f] = "idle" /\ buffered # <<>>
      /\ taken' = [taken EXCEPT ![f] = buffered] /\ buffered' = <<>>
      /\ step' = [step EXCEPT ![f] = "header"]
      /\ UNCHANGED <<header, file, synced, open>>
  BY DEF FlushTake, EmptyBuffer
<1>2. SessionTypeOK /\ OneFlush /\ FlushHolds /\ WholeFrames /\ f \in Flushers
  BY WALSessionAssumption DEF SessionInv
<1>3. \A g \in Flushers : step[g] = "idle" /\ taken[g] = <<>>
  BY <1>1, <1>2 DEF OneFlush, FlushHolds
<1>4. SessionTypeOK'
  <2>1. <<>> \in Seq(Good)
    BY EmptySeq
  <2> QED BY <1>1, <1>2, <2>1 DEF SessionTypeOK, Steps
<1>5. \A g \in Flushers : /\ step'[g] = IF g = f THEN "header" ELSE "idle"
                          /\ taken'[g] = IF g = f THEN buffered ELSE <<>>
  BY <1>1, <1>2, <1>3 DEF SessionTypeOK
<1>6. OneFlush' /\ FlushHolds'
  <2>1. late' = 0 /\ Len(buffered') = 0
    BY <1>1, <1>2, EmptySeq DEF FlushHolds
  <2> QED BY <1>1, <1>2, <1>5, <2>1, WALSessionAssumption DEF OneFlush, FlushHolds
<1>7. ~HeaderOut /\ ~HeaderOut' /\ Whole' = Whole
  BY <1>1, <1>3, <1>5 DEF HeaderOut, Whole
<1>8. Line' = Line
  <2>1. <<>> \in Seq(Good) /\ buffered \in Seq(Good) /\ Whole \in Seq(Good)
    BY <1>2, EmptySeq DEF SessionTypeOK, WholeFrames
  <2>2. Held = <<>> \o <<>>
    BY <1>3, WALSessionAssumption DEF Held
  <2>3. Held' = buffered \o <<>> \/ Held' = <<>> \o buffered
    BY <1>5, WALSessionAssumption DEF Held
  <2>4. Held = <<>> /\ Held' = buffered
    BY <2>1, <2>2, <2>3, ConcatEmptySeq
  <2>5. Whole \o <<>> = Whole /\ Whole \o buffered \in Seq(Good)
    BY <2>1, ConcatEmptySeq, ConcatProperties
  <2>6. (Whole \o buffered) \o <<>> = Whole \o buffered
    BY <2>5, ConcatEmptySeq
  <2> QED BY <1>1, <1>7, <2>4, <2>5, <2>6 DEF Line
<1>9. WholeFrames'
  BY <1>1, <1>2, <1>5, <1>7, <1>8 DEF WholeFrames
<1> QED BY <1>4, <1>6, <1>9 DEF SessionInv

(* The writes and the fsync of the thread in a flush. *)
LEMMA FlushSession ==
  ASSUME calm, SessionInv, closer # "down", NEW f \in {"syncer", "closer"}, FlushStep(f),
         UNCHANGED sessionVars
  PROVE  SessionInv'
<1>1. SessionTypeOK /\ OneFlush /\ FlushHolds /\ WholeFrames /\ f \in Flushers
  BY WALSessionAssumption DEF SessionInv
<1>2. step[f] # "idle"
  BY DEF FlushStep, WriteHeader, WritePayload, Fsync, FlushRaises
<1>3. /\ open /\ Held = taken[f] /\ taken[f] \in Seq(Good)
      /\ \A g \in Flushers : g # f => step[g] = "idle"
      /\ HeaderOut <=> step[f] = "payload"
  BY <1>1, <1>2, Alone
<1>4. UNCHANGED <<syncer, closer, appended, late>>
  BY DEF sessionVars
<1>5. CASE WriteHeader(f)
  <2>1. /\ step[f] = "header" /\ file' = Append(file, Torn)
        /\ header' = [header EXCEPT ![f] = Len(file) + 1]
        /\ step' = [step EXCEPT ![f] = "payload"]
        /\ UNCHANGED <<buffered, taken, synced, open>>
    BY <1>5 DEF WriteHeader
  <2>2. ~HeaderOut /\ Whole = file /\ HeaderOut' /\ file \in Seq(Good)
    BY <1>1, <1>3, <2>1 DEF Whole, HeaderOut, WholeFrames, SessionTypeOK
  <2>3. /\ file' \in Seq(Good \cup {Torn}) /\ Len(file') = Len(file) + 1 /\ Len(file) \in Nat
        /\ SubSeq(file', 1, Len(file)) = file
    <3>1. file \in Seq(Good \cup {Torn}) /\ <<Torn>> \in Seq(Good \cup {Torn})
      BY <1>1 DEF SessionTypeOK
    <3>2. file' = file \o <<Torn>> /\ Len(file) \in Nat
      BY <2>1, <3>1, AppendProperties, LenProperties
    <3>3. Len(file) \in 0 .. Len(file)
      BY <3>2
    <3>4. SubSeq(file \o <<Torn>>, 1, Len(file)) = SubSeq(file, 1, Len(file))
      BY <3>1, <3>3, FirstPart
    <3>5. file' \in Seq(Good \cup {Torn}) /\ Len(file') = Len(file) + 1
      BY <2>1, <3>1, AppendProperties
    <3> QED BY <3>1, <3>2, <3>4, <3>5, SubSeqFull
  <2>4. Whole' = Whole
    BY <2>2, <2>3 DEF Whole
  <2>5. SessionTypeOK'
    BY <1>1, <1>4, <2>1, <2>3 DEF SessionTypeOK, Steps
  <2>6. \A g \in Flushers : step'[g] = IF g = f THEN "payload" ELSE "idle"
    BY <1>1, <1>3, <2>1 DEF SessionTypeOK
  <2>7. OneFlush' /\ FlushHolds'
    BY <1>1, <1>2, <1>3, <1>4, <2>1, <2>6, WALSessionAssumption DEF OneFlush, FlushHolds
  <2>8. Line' = Line
    BY <2>1, <2>4 DEF Line, Held
  <2>9. WholeFrames'
    BY <1>1, <1>4, <2>1, <2>2, <2>3, <2>4, <2>6, <2>8 DEF WholeFrames, SessionTypeOK
  <2> QED BY <1>4, <2>5, <2>7, <2>9 DEF SessionInv
<1>6. CASE WritePayload(f)
  <2>1. /\ step[f] = "payload" /\ header[f] = Len(file) /\ file = Append(Whole, Torn)
        /\ Whole \in Seq(Good) /\ taken[f] # <<>>
    BY <1>1, <1>3, <1>6 DEF WritePayload, WholeFrames, FlushHolds
  <2> DEFINE t == taken[f]
  <2>2. /\ t \in Seq(Good) /\ t # <<>> /\ Head(t) \in Good /\ Tail(t) \in Seq(Good)
        /\ Len(Tail(t)) = Len(t) - 1 /\ Len(t) \in Nat
    BY <1>3, <2>1, HeadTailProperties, LenProperties
  <2>3. /\ file' = [file EXCEPT ![Len(file)] = Head(t)]
        /\ taken' = [taken EXCEPT ![f] = Tail(t)]
        /\ step' = [step EXCEPT ![f] = IF Len(t) = 1 THEN "fsync" ELSE "header"]
        /\ UNCHANGED <<buffered, header, synced, open>>
    BY <1>6, <2>1 DEF WritePayload
  <2>4. Tail(t) = <<>> <=> Len(t) = 1
    BY <2>2, SingleTail
  <2> HIDE DEF t
  <2>5. file' = Append(Whole, Head(t))
    <3> DEFINE S == Good \cup {Torn}
    <3>1. Whole \in Seq(S) /\ Torn \in S /\ Head(t) \in S /\ file \in Seq(S)
      BY <1>1, <2>1, <2>2, SeqMonotonic DEF SessionTypeOK
    <3>2. file' = [file EXCEPT ![Len(file)] = Head(t)] /\ file = Append(Whole, Torn)
      BY <2>1, <2>3
    <3> HIDE DEF Whole, S
    <3>3. /\ Len(file) = Len(Whole) + 1 /\ Len(Whole) \in Nat
          /\ \A i \in 1 .. Len(Whole) : file[i] = Whole[i]
      BY <3>1, <3>2, AppendProperties, LenProperties
    <3>4. Len(file) \in 1 .. Len(file)
      BY <3>3
    <3>5. /\ file' \in Seq(S) /\ Len(file') = Len(file)
          /\ \A j \in 1 .. Len(file) : file'[j] = IF j = Len(file) THEN Head(t) ELSE file[j]
      <4>1. file' = [file EXCEPT ![Len(file)] = Head(t)]
        BY <3>2
      <4> QED BY <4>1, <3>1, <3>4, ExceptSeq
    <3>6. file'[Len(Whole) + 1] = Head(t) /\ \A i \in 1 .. Len(Whole) : file'[i] = Whole[i]
      BY <3>3, <3>5
    <3> QED BY <3>1, <3>3, <3>5, <3>6, CompleteFrame
  <2>6. file' \in Seq(Good) /\ Len(file') = Len(Whole) + 1 /\ Len(Whole) \in Nat
    BY <2>1, <2>2, <2>5, AppendProperties, LenProperties
  <2>7. \A g \in Flushers : /\ step'[g] = IF g # f THEN "idle"
                                          ELSE IF Len(t) = 1 THEN "fsync" ELSE "header"
                            /\ taken'[g] = IF g = f THEN Tail(t) ELSE taken[g]
    BY <1>1, <1>3, <2>3 DEF SessionTypeOK
  <2>8. ~HeaderOut' /\ Whole' = file'
    BY <2>7 DEF HeaderOut, Whole
  <2>9. SessionTypeOK'
    <3>1. file' \in Seq(Good \cup {Torn})
      BY <2>6, SeqMonotonic
    <3>2. taken' \in [Flushers -> Seq(Good)] /\ step' \in [Flushers -> Steps]
      BY <1>1, <2>2, <2>3 DEF SessionTypeOK, Steps
    <3> QED BY <1>1, <1>4, <2>3, <3>1, <3>2 DEF SessionTypeOK
  <2>10. OneFlush' /\ FlushHolds'
    <3>1. OneFlush'
      BY <1>1, <1>2, <1>3, <1>4, <2>3, <2>7, WALSessionAssumption DEF OneFlush
    <3>2. \A g \in Flushers : taken'[g] = <<>> <=> step'[g] \in {"idle", "fsync"}
      BY <1>1, <1>3, <2>4, <2>7 DEF FlushHolds
    <3> QED BY <1>1, <1>4, <2>3, <3>1, <3>2 DEF FlushHolds
  <2>11. Held' = Tail(t)
    <3>1. \A g \in Flushers : g # f => taken[g] = <<>>
      BY <1>1, <1>3 DEF FlushHolds
    <3>2. Held' = Tail(t) \o <<>> \/ Held' = <<>> \o Tail(t)
      BY <2>7, <3>1, WALSessionAssumption DEF Held
    <3> QED BY <2>2, <3>2, ConcatEmptySeq
  <2>12. Line' = Line
    <3>1. Append(Whole, Head(t)) \o Tail(t) = Whole \o t
      BY <2>1, <2>2, MoveHead
    <3> QED BY <1>3, <2>3, <2>5, <2>8, <2>11, <3>1 DEF Line, t
  <2>13. WholeFrames'
    <3>1. synced' <= Len(file')
      BY <1>1, <2>3, <2>6 DEF WholeFrames, SessionTypeOK
    <3> QED BY <1>1, <1>4, <2>6, <2>7, <2>8, <2>12, <3>1 DEF WholeFrames
  <2> QED BY <1>4, <2>9, <2>10, <2>13 DEF SessionInv
<1>7. CASE Fsync(f)
  <2>1. /\ step[f] = "fsync" /\ synced' = Len(file) /\ step' = [step EXCEPT ![f] = "idle"]
        /\ UNCHANGED <<buffered, taken, header, file, open>>
    BY <1>7 DEF Fsync
  <2>2. \A g \in Flushers : step'[g] = "idle"
    BY <1>1, <1>3, <2>1 DEF SessionTypeOK
  <2>3. ~HeaderOut /\ ~HeaderOut' /\ Whole = file /\ Whole' = Whole /\ Line' = Line
    BY <1>3, <2>1, <2>2 DEF HeaderOut, Whole, Line, Held
  <2>4. SessionTypeOK'
    <3>1. synced' \in Nat
      BY <1>1, <2>1, LenProperties DEF SessionTypeOK
    <3> QED BY <1>1, <1>4, <2>1, <3>1 DEF SessionTypeOK, Steps
  <2>5. OneFlush' /\ FlushHolds'
    BY <1>1, <1>3, <1>4, <2>1, <2>2, WALSessionAssumption DEF OneFlush, FlushHolds
  <2>6. WholeFrames'
    BY <1>1, <1>4, <2>1, <2>2, <2>3, <2>4 DEF WholeFrames, SessionTypeOK
  <2> QED BY <1>4, <2>4, <2>5, <2>6 DEF SessionInv
<1>8. CASE FlushRaises(f)
  <2>1. step[f] = "header" /\ taken[f] # <<>>
    BY <1>1, <1>3, <1>8 DEF FlushRaises, FlushHolds
  <2>2. Head(taken[f]) \in Good
    BY <1>3, <2>1, HeadTailProperties
  <2> QED BY <1>3, <1>8, <2>2 DEF FlushRaises, Good
<1> QED BY <1>5, <1>6, <1>7, <1>8 DEF FlushStep

(* A thread moves on, or the file is closed. *)
LEMMA MoveSession ==
  ASSUME SessionInv, closer # "down",
         UNCHANGED <<buffered, taken, step, header, file, synced, appended, late>>,
         \/ /\ UNCHANGED <<closer, open>> /\ syncer' \in {"last", "exit"}
         \/ /\ UNCHANGED <<syncer, open>> /\ closer = "idle" /\ closer' = "join"
         \/ /\ UNCHANGED <<syncer, open>> /\ closer = "join" /\ closer' = "flush"
            /\ buffered = <<>> /\ syncer = "exit" /\ step["syncer"] = "idle"
         \/ /\ UNCHANGED syncer /\ closer = "flush" /\ closer' = "closed"
            /\ step["closer"] = "idle" /\ open' = FALSE,
         closer' \in {"flush", "closed"} => syncer' = "exit"
  PROVE  SessionInv'
<1>1. SessionTypeOK /\ OneFlush /\ FlushHolds /\ WholeFrames
  BY DEF SessionInv
<1>2. SessionTypeOK'
  BY <1>1 DEF SessionTypeOK
<1>3. OneFlush' /\ FlushHolds'
  <2>1. buffered = <<>> => Len(buffered) = 0
    BY EmptySeq
  <2> QED BY <1>1, <2>1 DEF OneFlush, FlushHolds
<1>4. Whole' = Whole /\ HeaderOut' = HeaderOut /\ Line' = Line
  BY DEF Whole, HeaderOut, Held, Line
<1>5. WholeFrames'
  BY <1>1, <1>4 DEF WholeFrames
<1>6. closer' # "down"
  OBVIOUS
<1> QED BY <1>2, <1>3, <1>5, <1>6 DEF SessionInv

(* What a crash leaves is a part of the file, with all that was fsynced, and no
   torn frame. *)
LEMMA CrashLeaves ==
  ASSUME calm, SessionInv, Crash
  PROVE  \E n \in synced .. Len(appended) :
           /\ file' \in Seq(Good) /\ Len(file') = n /\ ReadAll(file') = file'
           /\ file' = SubSeq(appended, 1, n)
<1>1. SessionTypeOK /\ WholeFrames
  BY DEF Crash, SessionInv
<1>2. PICK n \in synced .. Len(file) :
        /\ \A i \in synced + 1 .. n : file[i] # Torn
        /\ file' = SubSeq(file, 1, n)
  <2> DEFINE S == Good \cup {Torn}
  <2>1. PICK n \in synced .. Len(file) :
          \/ file' = SubSeq(file, 1, n)
          \/ file' = Append(SubSeq(file, 1, n), Torn)
    BY DEF Crash, LoseUnsynced, SafeFrames
  <2>2. /\ file \in Seq(S) /\ synced \in Nat /\ Torn \in S /\ Len(file) \in Nat
        /\ \A i \in DOMAIN file' : file'[i] # Torn
    BY <1>1, LenProperties DEF SessionTypeOK, Crash
  <2> HIDE DEF S
  <2>3. \A i \in 1 .. n : file[i] \in S
    BY <2>1, <2>2, ElementOfSeq
  <2> DEFINE part == SubSeq(file, 1, n)
  <2>4. /\ part \in Seq(S) /\ Len(part) = n
        /\ \A i \in 1 .. n : part[i] = file[i]
    BY <2>1, <2>2, <2>3, SubSeqProperties
  <2> HIDE DEF part
  <2>5. file' # Append(part, Torn)
    <3>1. /\ Append(part, Torn) \in Seq(S) /\ Len(Append(part, Torn)) = n + 1
          /\ Append(part, Torn)[n + 1] = Torn
      BY <2>2, <2>4, AppendProperties
    <3>2. n + 1 \in DOMAIN Append(part, Torn)
      BY <2>1, <2>2, <3>1, LenProperties
    <3> QED BY <2>2, <3>1, <3>2
  <2>6. file' = part /\ DOMAIN part = 1 .. n
    BY <2>1, <2>4, <2>5, LenProperties DEF part
  <2>7. \A i \in synced + 1 .. n : i \in 1 .. n
    BY <2>1, <2>2
  <2>8. \A i \in synced + 1 .. n : file[i] # Torn
    BY <2>2, <2>4, <2>6, <2>7
  <2> QED BY <2>1, <2>6, <2>8 DEF part
<1>3. Whole \in Seq(Good) /\ synced \in Nat /\ synced <= Len(Whole) /\ appended = Line
  BY <1>1 DEF SessionTypeOK, WholeFrames
<1>4. /\ Len(Whole) <= Len(Line) /\ Len(Whole) \in Nat /\ Len(Line) \in Nat
      /\ \A m \in 0 .. Len(Whole) : SubSeq(Line, 1, m) = SubSeq(Whole, 1, m)
  BY <1>1, <1>3, LineType
<1>5. n <= Len(Whole) /\ file' = SubSeq(Whole, 1, n)
  <2>1. CASE ~HeaderOut
    BY <1>2, <2>1 DEF Whole
  <2>2. CASE HeaderOut
    <3> DEFINE S == Good \cup {Torn}
    <3>1. file = Append(Whole, Torn) /\ Whole \in Seq(S) /\ Torn \in S
      BY <1>1, <1>3, <2>2, SeqMonotonic DEF WholeFrames
    <3> HIDE DEF S
    <3>2. Len(file) = Len(Whole) + 1 /\ file[Len(Whole) + 1] = Torn
      BY <3>1, AppendProperties
    <3>3. n <= Len(Whole)
      BY <1>2, <1>3, <1>4, <3>2
    <3>4. <<Torn>> \in Seq(S) /\ file = Whole \o <<Torn>>
      BY <3>1, AppendProperties
    <3>5. n \in 0 .. Len(Whole)
      BY <1>2, <1>3, <3>3
    <3>6. SubSeq(Whole \o <<Torn>>, 1, n) = SubSeq(Whole, 1, n)
      BY <3>1, <3>4, <3>5, FirstPart
    <3> QED BY <1>2, <3>3, <3>4, <3>6
  <2> QED BY <2>1, <2>2
<1>6. n \in 0 .. Len(Whole) /\ n \in synced .. Len(Line)
  BY <1>2, <1>3, <1>4, <1>5
<1>7. file' \in Seq(Good) /\ Len(file') = n
  <2>1. \A i \in 1 .. n : Whole[i] \in Good
    BY <1>3, <1>4, <1>6, ElementOfSeq
  <2> QED BY <1>5, <1>6, <2>1, SubSeqProperties
<1>8. ReadAll(file') = file'
  BY <1>7, ReadAllEntries
<1>9. file' = SubSeq(appended, 1, n)
  BY <1>3, <1>4, <1>5, <1>6
<1> QED BY <1>3, <1>6, <1>7, <1>8, <1>9

(* A crash. *)
LEMMA CrashSession == calm /\ SessionInv /\ Crash => SessionInv'
<1> SUFFICES ASSUME calm, SessionInv, Crash PROVE SessionInv'
  OBVIOUS
<1>1. PICK n \in synced .. Len(appended) :
        file' \in Seq(Good) /\ Len(file') = n /\ ReadAll(file') = file'
  BY CrashLeaves
<1>2. closer' = "down" /\ appended' = ReadAll(file') /\ late' = 0
      /\ UNCHANGED <<buffered, taken, step, header, synced, open, syncer>>
  BY DEF Crash
<1>3. file' \in Seq(Good \cup {Torn})
  BY <1>1, SeqMonotonic
<1>4. SessionTypeOK'
  BY <1>1, <1>2, <1>3 DEF SessionInv, SessionTypeOK
<1>5. Survived'
  BY <1>1, <1>2 DEF Survived
<1> QED BY <1>2, <1>4, <1>5 DEF SessionInv

(* What the next process finds is what was appended; it empties the file if that
   is anything. *)
LEMMA RestartFinds ==
  ASSUME calm, SessionInv, Restart
  PROVE  file' = <<>> /\ synced' = 0
<1>1. file \in Seq(Good) /\ synced \in Nat /\ synced <= Len(file)
  BY DEF Restart, SessionInv, SessionTypeOK, Survived
<1>2. ReadAll(file) = file
  BY <1>1, ReadAllEntries
<1>3. CASE file # <<>>
  BY <1>2, <1>3 DEF Restart, Checkpointed
<1>4. CASE file = <<>>
  <2>1. Len(file) = 0
    BY <1>4, EmptySeq
  <2>2. synced = 0
    BY <1>1, <2>1
  <2> QED BY <1>2, <1>4, <2>2 DEF Restart, Checkpointed
<1> QED BY <1>3, <1>4

(* The next process. *)
LEMMA RestartSession == calm /\ SessionInv /\ Restart => SessionInv'
<1> SUFFICES ASSUME calm, SessionInv, Restart PROVE SessionInv'
  OBVIOUS
<1>1. file' = <<>> /\ synced' = 0
  BY RestartFinds
<1>2. /\ FileOpened /\ appended' = <<>> /\ syncer' = "run" /\ closer' = "idle"
      /\ late' = 0
  BY DEF Restart, SessionInv, Survived
<1>3. <<>> \in Seq(Good)
  BY EmptySeq
<1>4. <<>> \in Seq(Good \cup {Torn})
  BY EmptySeq
<1>5. SessionTypeOK'
  BY <1>1, <1>2, <1>3, <1>4 DEF FileOpened, SessionTypeOK, Steps
<1>6. \A f \in Flushers : step'[f] = "idle" /\ taken'[f] = <<>>
  BY <1>2 DEF FileOpened
<1>7. OneFlush' /\ FlushHolds'
  BY <1>2, <1>6, WALSessionAssumption DEF FileOpened, OneFlush, FlushHolds
<1>8. ~HeaderOut' /\ Whole' = <<>> /\ Line' = <<>> /\ Len(Whole') = 0
  <2>1. ~HeaderOut' /\ Whole' = <<>>
    BY <1>1, <1>6 DEF HeaderOut, Whole
  <2>2. Held' = <<>> \o <<>> /\ buffered' = <<>>
    BY <1>2, <1>6, WALSessionAssumption DEF Held, FileOpened
  <2>3. <<>> \o <<>> = <<>> /\ Len(<<>>) = 0
    BY <1>3, EmptySeq, ConcatEmptySeq
  <2> QED BY <2>1, <2>2, <2>3 DEF Line
<1>9. WholeFrames'
  BY <1>1, <1>2, <1>3, <1>6, <1>8 DEF WholeFrames
<1> QED BY <1>2, <1>5, <1>7, <1>9 DEF SessionInv

(* Every step keeps the invariant. *)
LEMMA NextSessionInv == calm /\ SessionInv /\ [Next]_allVars => SessionInv'
<1> SUFFICES ASSUME calm, SessionInv, [Next]_allVars PROVE SessionInv'
  OBVIOUS
<1>0. SessionTypeOK
  BY DEF SessionInv
<1>1. ASSUME NEW e \in Entry, AppendOne(e) PROVE SessionInv'
  BY <1>1, AppendSession
<1>2. CASE SyncerFlush
  <2>1. closer \in {"idle", "join"}
    BY <1>0, <1>2 DEF SyncerFlush, SessionInv, SessionTypeOK, OneFlush
  <2> QED BY <1>2, <2>1, TakeSession DEF SyncerFlush
<1>3. CASE SyncerStep
  BY <1>3, FlushSession DEF SyncerStep
<1>4. CASE SyncerSeesStop
  <2>1. closer = "join"
    BY <1>0, <1>4 DEF SyncerSeesStop, SessionInv, SessionTypeOK, OneFlush
  <2> QED BY <1>4, <2>1, MoveSession DEF SyncerSeesStop, walVars
<1>5. CASE SyncerExit
  BY <1>5, MoveSession DEF SyncerExit, walVars
<1>6. CASE BeginClose
  BY <1>6, MoveSession DEF BeginClose, walVars
<1>7. CASE CloserFlush
  <2>1. syncer = "exit" /\ step["syncer"] = "idle" /\ closer = "join" /\ closer' = "flush"
        /\ UNCHANGED <<syncer, appended, late>>
    BY <1>7 DEF CloserFlush, MayClose, GivesUp
  <2>2. CASE buffered = <<>>
    BY <1>7, <2>1, <2>2, MoveSession DEF CloserFlush, walVars
  <2>3. CASE buffered # <<>>
    BY <1>7, <2>1, <2>3, TakeSession DEF CloserFlush
  <2> QED BY <2>2, <2>3
<1>8. CASE CloserStep
  <2>1. closer = "flush" /\ open
    BY <1>8 DEF CloserStep, SessionInv, OneFlush
  <2>2. ~FlushRaises("closer")
    <3>1. ASSUME step["closer"] = "header" PROVE Head(taken["closer"]) \in Good
      <4>1. taken["closer"] # <<>> /\ taken["closer"] \in Seq(Good)
        BY <1>0, <2>1, <3>1, WALSessionAssumption DEF SessionInv, FlushHolds, SessionTypeOK
      <4> QED BY <4>1, HeadTailProperties
    <3> QED BY <2>1, <3>1 DEF FlushRaises, Good
  <2>3. UNCHANGED sessionVars /\ FlushStep("closer")
    BY <1>8, <2>1, <2>2 DEF CloserStep, sessionVars
  <2> QED BY <2>1, <2>3, FlushSession
<1>9. CASE CloserFinish
  <2>1. syncer = "exit"
    BY <1>9 DEF CloserFinish, SessionInv, OneFlush
  <2> QED BY <1>9, <2>1, MoveSession DEF CloserFinish, CloseFile
<1>10. CASE Crash
  BY <1>10, CrashSession
<1>11. CASE Restart
  BY <1>11, RestartSession
<1>12. CASE UNCHANGED allVars
  <2>1. UNCHANGED <<buffered, taken, step, header, file, synced, open, syncer, closer,
                    appended, late>>
    BY <1>12 DEF allVars, walVars, sessionVars
  <2>2. UNCHANGED <<Whole, HeaderOut, Line>>
    BY <2>1 DEF Whole, HeaderOut, Held, Line
  <2> QED BY <2>1, <2>2
          DEF SessionInv, SessionTypeOK, OneFlush, FlushHolds, WholeFrames, Survived
<1> QED BY <1>1, <1>2, <1>3, <1>4, <1>5, <1>6, <1>7, <1>8, <1>9, <1>10, <1>11, <1>12 DEF Next

(* What the WAL holds, takes and buffers is always, in this order, what was
   appended, in every calm behaviour: flush, _write_frame, close and truncate of
   modules/wal.py. *)
THEOREM SessionInvariance == Spec => [](calm => SessionInv)
<1>1. (calm => SessionInv) /\ [Next]_allVars => (calm => SessionInv)'
  <2>1. [Next]_allVars => calm' = calm
    BY DEF Next, allVars
  <2> QED BY <2>1, NextSessionInv
<1>2. Init => (calm => SessionInv)
  BY InitSessionInv
<1> QED BY <1>1, <1>2, PTL DEF Spec

(* A replay delivers a prefix of what was appended, with all that was fsynced. *)
THEOREM ReplayPrefix == Spec => []ReplayIsPrefix
<1>1. (calm => SessionInv) => ReplayIsPrefix
  BY InvImpliesPrefix DEF ReplayIsPrefix
<1> QED BY <1>1, SessionInvariance, PTL

(* With the file closed, nothing is held, and what is buffered came late. *)
LEMMA InvImpliesClosed == calm /\ SessionInv => ClosedHoldsAll
<1> SUFFICES ASSUME calm, SessionInv, closer \in {"closed", "failed"}
             PROVE  ReadAll(file) = SubSeq(appended, 1, Len(appended) - late)
  BY DEF ClosedHoldsAll
<1>1. SessionTypeOK /\ closer = "closed" /\ OneFlush /\ FlushHolds /\ WholeFrames
  BY DEF SessionInv, SessionTypeOK
<1>2. \A f \in Flushers : step[f] = "idle" /\ taken[f] = <<>>
  BY <1>1 DEF OneFlush, FlushHolds
<1>3. ReadAll(file) = Whole
  BY <1>1, ReadAllWhole DEF WholeFrames
<1>4. Whole \in Seq(Good) /\ buffered \in Seq(Good) /\ late = Len(buffered)
  BY <1>1 DEF WholeFrames, SessionTypeOK, FlushHolds
<1>5. appended = Whole \o buffered
  <2>1. Held = <<>> \o <<>> /\ <<>> \in Seq(Good)
    BY <1>2, EmptySeq, WALSessionAssumption DEF Held
  <2>2. Held = <<>>
    BY <2>1, ConcatEmptySeq
  <2> QED BY <1>1, <1>4, <2>2, ConcatEmptySeq DEF Line, WholeFrames
<1>6. /\ Len(Whole) \in Nat /\ Len(buffered) \in Nat
      /\ Len(Whole \o buffered) = Len(Whole) + Len(buffered)
  BY <1>4, LenProperties, ConcatProperties
<1>7. Len(appended) - late = Len(Whole)
  BY <1>4, <1>5, <1>6
<1>8. SubSeq(Whole \o buffered, 1, Len(Whole)) = SubSeq(Whole, 1, Len(Whole))
  BY <1>4, <1>6, FirstPart
<1>9. SubSeq(Whole, 1, Len(Whole)) = Whole
  BY <1>4, SubSeqFull
<1> QED BY <1>3, <1>5, <1>7, <1>8, <1>9

(* close loses nothing that was appended before its last flush: all of it is in the
   file.  What a commit appends behind that flush is not. *)
THEOREM CloseKeeps == Spec => []ClosedHoldsAll
<1>1. (calm => SessionInv) => ClosedHoldsAll
  BY InvImpliesClosed DEF ClosedHoldsAll
<1> QED BY <1>1, SessionInvariance, PTL

----------------------------------------------------------------------------
(* The refinement of DurableLog. *)

(* Nothing was appended. *)
LEMMA InitLog == Init => Promise!LogInit
BY DEF Init, WALInit, Promise!LogInit

(* An append appends, an fsync makes durable, a crash loses a suffix that was
   not durable, the next start is the checkpoint; the rest is a stutter. *)
LEMMA StepLog ==
  calm /\ SessionInv /\ [Next]_allVars => [Promise!LogNext]_<<appended, synced>>
<1> SUFFICES ASSUME calm, SessionInv, [Next]_allVars
             PROVE  [Promise!LogNext]_<<appended, synced>>
  OBVIOUS
<1>0. calm /\ calm'
  BY DEF Next, allVars
<1>1. ASSUME NEW e \in Entry, AppendOne(e) PROVE Promise!LogNext
  BY <1>0, <1>1 DEF AppendOne, AppendEntry, Promise!LogNext, Promise!LogAppend
<1>2. ASSUME NEW f \in {"syncer", "closer"}, FlushStep(f), closer # "down", appended' = appended
      PROVE  [Promise!LogNext]_<<appended, synced>>
  <2>1. CASE Fsync(f)
    <3>1. SessionTypeOK /\ WholeFrames /\ f \in Flushers /\ step[f] = "fsync" /\ synced' = Len(file)
      BY <1>2, <2>1, WALSessionAssumption DEF SessionInv, Fsync
    <3>2. Whole = file
      BY <1>2, <3>1, Alone DEF Whole
    <3>3. Len(Whole) <= Len(appended) /\ synced <= Len(Whole) /\ Len(Whole) \in Nat
      BY <3>1, LineType DEF WholeFrames
    <3>4. synced \in Nat /\ Len(appended) \in Nat
      BY <3>1, LenProperties DEF SessionTypeOK
    <3> QED BY <1>0, <1>2, <3>1, <3>2, <3>3, <3>4 DEF Promise!LogNext, Promise!LogSync
  <2>2. CASE WriteHeader(f) \/ WritePayload(f) \/ FlushRaises(f)
    BY <1>2, <2>2 DEF WriteHeader, WritePayload, FlushRaises
  <2> QED BY <1>2, <2>1, <2>2 DEF FlushStep
<1>3. CASE SyncerStep
  BY <1>2, <1>3 DEF SyncerStep, sessionVars
<1>4. CASE CloserStep
  BY <1>2, <1>4 DEF CloserStep
<1>5. CASE Crash
  <2>1. PICK n \in synced .. Len(appended) :
          ReadAll(file') = file' /\ file' = SubSeq(appended, 1, n)
    BY <1>5, CrashLeaves
  <2> QED BY <1>0, <1>5, <2>1 DEF Crash, Promise!LogNext, Promise!LogCrash
<1>6. CASE Restart
  <2>1. synced' = 0 /\ appended' = <<>>
    BY <1>6, RestartFinds DEF Restart
  <2> QED BY <1>0, <2>1 DEF Promise!LogNext, Promise!LogCheckpoint
<1>7. CASE SyncerFlush \/ SyncerSeesStop \/ SyncerExit \/ BeginClose \/ CloserFlush \/ CloserFinish
  BY <1>7 DEF SyncerFlush, SyncerSeesStop, SyncerExit, BeginClose, CloserFlush, CloserFinish,
              FlushTake, CloseFile, walVars
<1>8. CASE UNCHANGED allVars
  BY <1>8 DEF allVars, walVars, sessionVars
<1> QED BY <1>1, <1>3, <1>4, <1>5, <1>6, <1>7, <1>8 DEF Next

(* The log that the refinement shows: empty where the behaviour is not calm. *)
Shown == <<IF calm THEN appended ELSE <<>>, IF calm THEN synced ELSE 0>>

LEMMA StepShown == (calm => SessionInv) /\ [Next]_allVars => [Promise!LogNext]_Shown
<1> SUFFICES ASSUME calm => SessionInv, [Next]_allVars
             PROVE  [Promise!LogNext]_Shown
  OBVIOUS
<1>1. calm' = calm
  BY DEF Next, allVars
<1>2. CASE calm
  BY <1>1, <1>2, StepLog DEF Shown
<1>3. CASE ~calm
  BY <1>1, <1>3 DEF Shown
<1> QED BY <1>2, <1>3

(* modules/wal.py, driven through any number of processes and crashes, is a
   durable log: what was fsynced stays until the next start has it. *)
THEOREM Refinement == Spec => ImplementsDurableLog
<1>1. (calm => SessionInv) /\ [Next]_allVars => [Promise!LogNext]_Shown
  BY StepShown
<1> QED BY <1>1, SessionInvariance, InitLog, PTL
        DEF Spec, ImplementsDurableLog, Promise!LogSpec, Shown

----------------------------------------------------------------------------
(* No entry is replayed more often than it was appended, in any behaviour.  As
   long as every frame of the file comes from the buffer of this process, the
   copies of an entry in the file, in what the flushes have taken and in the
   buffer are together no more than its appends.  A file that starts with a
   frame that read_all refuses is not emptied by the next process, which
   appends behind it: its copies are not counted, but nothing of it is ever
   read. *)
Frame == Entry \cup {Torn}

OnceTypeOK ==
  /\ buffered \in Seq(Entry) /\ taken \in [Flushers -> Seq(Entry)]
  /\ step \in [Flushers -> Steps] /\ header \in [Flushers -> Nat]
  /\ file \in Seq(Frame) /\ synced \in Nat /\ appended \in Seq(Frame)

FlushHasMore == \A f \in Flushers : step[f] \in {"header", "payload"} => taken[f] # <<>>

Shut ==
  /\ file # <<>> /\ ~Readable(file[1])
  /\ \A f \in Flushers : step[f] = "payload" => header[f] # 1

Ahead(e) == CountIn(taken["syncer"], e) + CountIn(taken["closer"], e) + CountIn(buffered, e)
AllOnce  == \A e \in Entry : CountIn(file, e) + Ahead(e) <= CountIn(appended, e)

OnceInv ==
  /\ OnceTypeOK /\ FlushHasMore
  /\ closer = "down" => appended = ReadAll(file)
  /\ closer # "down" => Shut \/ AllOnce

(* The positions of an entry. *)
At(s, e) == {i \in DOMAIN s : s[i] = e}
One(x, e) == IF x = e THEN 1 ELSE 0

(* They are finitely many. *)
LEMMA CountType ==
  ASSUME NEW S, NEW s \in Seq(S), NEW e
  PROVE  /\ CountIn(s, e) = Cardinality(At(s, e)) /\ IsFiniteSet(At(s, e))
         /\ CountIn(s, e) \in Nat
<1>1. Len(s) \in Nat /\ DOMAIN s = 1 .. Len(s)
  BY LenProperties
<1>2. IsFiniteSet(1 .. Len(s))
  BY <1>1, FS_Interval
<1>3. IsFiniteSet(At(s, e))
  BY <1>1, <1>2, FS_Subset DEF At
<1> QED BY <1>3, FS_CardinalityType DEF At, CountIn

(* There is nothing in an empty sequence. *)
LEMMA CountEmpty == \A e : CountIn(<<>>, e) = 0
<1> SUFFICES ASSUME NEW e PROVE CountIn(<<>>, e) = 0
  OBVIOUS
<1>1. {i \in DOMAIN <<>> : <<>>[i] = e} = {}
  OBVIOUS
<1> QED BY <1>1, FS_EmptySet DEF CountIn

(* One more element. *)
LEMMA CountAppend ==
  ASSUME NEW S, NEW s \in Seq(S), NEW x \in S, NEW e
  PROVE  CountIn(Append(s, x), e) = CountIn(s, e) + One(x, e)
<1> DEFINE t == Append(s, x)
<1>1. /\ Len(s) \in Nat /\ DOMAIN s = 1 .. Len(s) /\ DOMAIN t = 1 .. Len(s) + 1
      /\ t[Len(s) + 1] = x /\ \A i \in 1 .. Len(s) : t[i] = s[i]
  <2>1. t \in Seq(S) /\ Len(t) = Len(s) + 1
    BY AppendProperties
  <2> QED BY <2>1, AppendProperties, LenProperties
<1>2. t \in Seq(S)
  BY AppendProperties
<1>3. CountIn(t, e) = Cardinality(At(t, e)) /\ CountIn(s, e) = Cardinality(At(s, e))
      /\ IsFiniteSet(At(s, e)) /\ CountIn(s, e) \in Nat
  BY <1>2, CountType
<1> HIDE DEF t
<1>4. CASE x = e
  <2>1. At(t, e) = At(s, e) \cup {Len(s) + 1} /\ Len(s) + 1 \notin At(s, e)
    BY <1>1, <1>4 DEF At
  <2> QED BY <1>3, <1>4, <2>1, FS_AddElement DEF One, t
<1>5. CASE x # e
  <2>1. At(t, e) = At(s, e)
    BY <1>1, <1>5 DEF At
  <2> QED BY <1>3, <1>5, <2>1 DEF One, t
<1> QED BY <1>4, <1>5

(* What is left without the first element. *)
LEMMA CountTail ==
  ASSUME NEW S, NEW s \in Seq(S), s # <<>>, NEW e
  PROVE  CountIn(s, e) = CountIn(Tail(s), e) + One(Head(s), e)
<1> DEFINE t == Tail(s)
<1>1. /\ Len(s) \in Nat \ {0} /\ DOMAIN s = 1 .. Len(s)
      /\ t \in Seq(S) /\ DOMAIN t = 1 .. Len(s) - 1
      /\ Head(s) = s[1] /\ \A i \in 1 .. Len(s) - 1 : t[i] = s[i + 1]
  <2>1. t \in Seq(S) /\ Len(t) = Len(s) - 1 /\ Len(s) # 0
    BY HeadTailProperties, EmptySeq
  <2> QED BY <2>1, HeadTailProperties, LenProperties
<1>2. /\ CountIn(t, e) = Cardinality(At(t, e)) /\ CountIn(s, e) = Cardinality(At(s, e))
      /\ IsFiniteSet(At(t, e)) /\ IsFiniteSet(At(s, e)) /\ CountIn(t, e) \in Nat
  BY <1>1, CountType
<1> HIDE DEF t
<1> DEFINE Moved == [i \in At(t, e) |-> i + 1]
<1> DEFINE rest == At(s, e) \ {1}
<1>3. Moved \in Bijection(At(t, e), rest)
  <2>1. \A i \in At(t, e) : i \in 1 .. Len(s) - 1 /\ i + 1 \in rest
    BY <1>1 DEF At
  <2>2. Moved \in Injection(At(t, e), rest)
    BY <2>1 DEF Injection, IsInjective
  <2>3. ASSUME NEW j \in rest PROVE \E i \in At(t, e) : Moved[i] = j
    <3>1. j \in 2 .. Len(s) /\ s[j] = e
      BY <1>1 DEF At
    <3>2. j - 1 \in 1 .. Len(s) - 1 /\ (j - 1) + 1 = j
      BY <1>1, <3>1
    <3>3. j - 1 \in At(t, e)
      BY <1>1, <3>1, <3>2 DEF At
    <3> QED BY <3>2, <3>3
  <2>4. Moved \in Surjection(At(t, e), rest)
    BY <2>2, <2>3 DEF Surjection, Injection
  <2> QED BY <2>2, <2>4 DEF Bijection
<1>4. IsFiniteSet(rest) /\ Cardinality(rest) = Cardinality(At(t, e))
  <2>1. ExistsBijection(At(t, e), rest)
    BY <1>3 DEF ExistsBijection
  <2> HIDE DEF rest
  <2> QED BY <1>2, <2>1, FS_Bijection
<1>5. CASE Head(s) = e
  <2>1. 1 \in At(s, e) /\ rest \cup {1} = At(s, e) /\ 1 \notin rest
    BY <1>1, <1>5 DEF At
  <2> HIDE DEF rest
  <2> QED BY <1>2, <1>4, <1>5, <2>1, FS_AddElement DEF One, t
<1>6. CASE Head(s) # e
  <2>1. rest = At(s, e)
    BY <1>1, <1>6 DEF At
  <2> HIDE DEF rest
  <2> QED BY <1>2, <1>4, <1>6, <2>1 DEF One, t
<1> QED BY <1>5, <1>6

(* A first part has no more copies than the whole. *)
LEMMA CountPart ==
  ASSUME NEW S, NEW s \in Seq(S), NEW n \in 0 .. Len(s), NEW e
  PROVE  SubSeq(s, 1, n) \in Seq(S) /\ CountIn(SubSeq(s, 1, n), e) <= CountIn(s, e)
<1> DEFINE part == SubSeq(s, 1, n)
<1>1. Len(s) \in Nat /\ DOMAIN s = 1 .. Len(s) /\ \A i \in 1 .. Len(s) : s[i] \in S
  BY LenProperties, ElementOfSeq
<1>2. part \in Seq(S) /\ DOMAIN part = 1 .. n /\ \A i \in 1 .. n : part[i] = s[i]
  <2>1. 1 \in Int /\ n \in Nat /\ n - 1 + 1 = n /\ \A i \in 1 .. n : s[i] \in S
    BY <1>1
  <2>2. part \in Seq(S) /\ Len(part) = n /\ \A i \in 1 .. n : part[i] = s[i]
    BY <2>1, SubSeqProperties
  <2> QED BY <2>2, LenProperties
<1> HIDE DEF part
<1>3. At(part, e) \subseteq At(s, e)
  BY <1>1, <1>2 DEF At
<1>4. /\ CountIn(part, e) = Cardinality(At(part, e)) /\ CountIn(s, e) = Cardinality(At(s, e))
      /\ IsFiniteSet(At(s, e))
  BY <1>2, CountType
<1>5. CountIn(part, e) <= CountIn(s, e)
  BY <1>3, <1>4, FS_Subset
<1> QED BY <1>2, <1>5 DEF part

(* Writing over an element adds one copy at the most. *)
LEMMA CountExcept ==
  ASSUME NEW S, NEW s \in Seq(S), NEW j \in DOMAIN s, NEW x \in S, NEW e
  PROVE  /\ [s EXCEPT ![j] = x] \in Seq(S)
         /\ CountIn([s EXCEPT ![j] = x], e) <= CountIn(s, e) + One(x, e)
<1> DEFINE t == [s EXCEPT ![j] = x]
<1>1. Len(s) \in Nat /\ DOMAIN s = 1 .. Len(s)
  BY LenProperties
<1>2. t \in Seq(S) /\ DOMAIN t = DOMAIN s /\ t[j] = x /\ \A i \in DOMAIN s : i # j => t[i] = s[i]
  BY <1>1, ExceptSeq
<1>3. /\ CountIn(t, e) = Cardinality(At(t, e)) /\ CountIn(s, e) = Cardinality(At(s, e))
      /\ IsFiniteSet(At(t, e)) /\ IsFiniteSet(At(s, e)) /\ CountIn(t, e) \in Nat /\ CountIn(s, e) \in Nat
  BY <1>2, CountType
<1> HIDE DEF t
<1>4. CASE x = e
  <2>1. At(t, e) \subseteq At(s, e) \cup {j}
    BY <1>2 DEF At
  <2>2. /\ IsFiniteSet(At(s, e) \cup {j})
        /\ Cardinality(At(s, e) \cup {j}) <= Cardinality(At(s, e)) + 1
    <3>1. Cardinality(At(s, e) \cup {j}) \in {Cardinality(At(s, e)), Cardinality(At(s, e)) + 1}
      BY <1>3, FS_AddElement
    <3> QED BY <1>3, <3>1, FS_AddElement
  <2>3. Cardinality(At(t, e)) <= Cardinality(At(s, e) \cup {j})
    BY <2>1, <2>2, FS_Subset
  <2>4. Cardinality(At(s, e) \cup {j}) \in Nat
    BY <2>2, FS_CardinalityType
  <2> QED BY <1>2, <1>3, <1>4, <2>2, <2>3, <2>4 DEF One, t
<1>5. CASE x # e
  <2>1. At(t, e) \subseteq At(s, e)
    BY <1>2, <1>5 DEF At
  <2>2. Cardinality(At(t, e)) <= Cardinality(At(s, e))
    BY <1>3, <2>1, FS_Subset
  <2> QED BY <1>2, <1>3, <1>5, <2>2 DEF One, t
<1> QED BY <1>4, <1>5

----------------------------------------------------------------------------
(* What read_all returns of any frames: a first part of them, with nothing in it
   just when there is nothing in the file or nothing readable at its start. *)
LEMMA ReadAllPart ==
  ASSUME NEW s \in Seq(Frame)
  PROVE  /\ \E n \in 0 .. Len(s) : ReadAll(s) = SubSeq(s, 1, n)
         /\ ReadAll(s) = <<>> <=> s = <<>> \/ ~Readable(s[1])
<1> DEFINE kept == {i \in DOMAIN s : \A j \in 1 .. i : Readable(s[j])}
<1>1. Len(s) \in Nat /\ DOMAIN s = 1 .. Len(s) /\ \A i \in 1 .. Len(s) : s[i] \in Frame
  BY LenProperties, ElementOfSeq
<1>2. IsFiniteSet(1 .. Len(s)) /\ Cardinality(1 .. Len(s)) = Len(s)
  <2>1. 1 \in Int /\ Len(s) \in Int /\ Len(s) - 1 + 1 = Len(s) /\ (1 > Len(s) => Len(s) = 0)
    BY <1>1
  <2> QED BY <2>1, FS_Interval
<1>3. kept \subseteq 1 .. Len(s)
  BY <1>1
<1>4. ReadAll(s) = SubSeq(s, 1, Cardinality(kept))
  BY DEF ReadAll
<1>5. kept = {} <=> s = <<>> \/ ~Readable(s[1])
  <2>1. s = <<>> <=> Len(s) = 0
    BY EmptySeq
  <2>2. ASSUME s # <<>>, Readable(s[1]) PROVE 1 \in kept
    BY <1>1, <2>1, <2>2
  <2>3. ASSUME NEW i \in kept PROVE s # <<>> /\ Readable(s[1])
    BY <1>1, <2>1
  <2> HIDE DEF kept
  <2> QED BY <2>2, <2>3
<1> HIDE DEF kept
<1>6. IsFiniteSet(kept) /\ Cardinality(kept) \in 0 .. Len(s)
  <2>1. IsFiniteSet(kept) /\ Cardinality(kept) <= Len(s)
    BY <1>2, <1>3, FS_Subset
  <2> QED BY <1>1, <2>1, FS_CardinalityType
<1>7. Cardinality(kept) = 0 <=> kept = {}
  BY <1>6, FS_EmptySet
<1>8. SubSeq(s, 1, Cardinality(kept)) = <<>> <=> Cardinality(kept) = 0
  <2> DEFINE n == Cardinality(kept)
  <2>1. n \in Nat /\ n - 1 + 1 = n /\ \A i \in 1 .. n : s[i] \in Frame
    BY <1>1, <1>6
  <2> HIDE DEF n
  <2>2. SubSeq(s, 1, n) \in Seq(Frame) /\ Len(SubSeq(s, 1, n)) = n
    BY <1>1, <2>1, SubSeqProperties
  <2> QED BY <2>2, EmptySeq DEF n
<1> QED BY <1>4, <1>5, <1>6, <1>7, <1>8

(* So no entry is read more often than the file has it. *)
LEMMA ReadAllCount ==
  ASSUME NEW s \in Seq(Frame), NEW e
  PROVE  ReadAll(s) \in Seq(Frame) /\ CountIn(ReadAll(s), e) <= CountIn(s, e)
BY ReadAllPart, CountPart

(* The parts of the invariant are countable. *)
LEMMA OnceNumbers ==
  ASSUME OnceTypeOK, NEW e
  PROVE  /\ taken["syncer"] \in Seq(Entry) /\ taken["closer"] \in Seq(Entry)
         /\ CountIn(file, e) \in Nat /\ CountIn(taken["syncer"], e) \in Nat
         /\ CountIn(taken["closer"], e) \in Nat /\ CountIn(buffered, e) \in Nat
         /\ Ahead(e) \in Nat /\ CountIn(appended, e) \in Nat
<1>1. taken["syncer"] \in Seq(Entry) /\ taken["closer"] \in Seq(Entry)
  BY WALSessionAssumption DEF OnceTypeOK
<1> QED BY <1>1, CountType DEF OnceTypeOK, Ahead

(* The invariant implies the property. *)
LEMMA OnceImplies == OnceInv => ReplayedOnce
<1> SUFFICES ASSUME OnceInv, NEW e \in Entry
             PROVE  CountIn(ReadAll(file), e) <= CountIn(appended, e)
  BY DEF ReplayedOnce
<1>1. OnceTypeOK /\ file \in Seq(Frame)
  BY DEF OnceInv, OnceTypeOK
<1>2. /\ CountIn(file, e) \in Nat /\ Ahead(e) \in Nat /\ CountIn(appended, e) \in Nat
      /\ CountIn(ReadAll(file), e) \in Nat /\ CountIn(ReadAll(file), e) <= CountIn(file, e)
  BY <1>1, OnceNumbers, ReadAllCount, CountType
<1>3. CASE closer = "down"
  BY <1>2, <1>3 DEF OnceInv
<1>4. CASE Shut
  <2>1. ReadAll(file) = <<>>
    BY <1>1, <1>4, ReadAllPart DEF Shut
  <2> QED BY <1>2, <2>1, CountEmpty
<1>5. CASE AllOnce
  <2>1. CountIn(file, e) + Ahead(e) <= CountIn(appended, e)
    BY <1>5 DEF AllOnce
  <2> QED BY <1>2, <2>1
<1> QED BY <1>3, <1>4, <1>5 DEF OnceInv

(* Before the first append there is nothing to count. *)
LEMMA OnceEmpty ==
  ASSUME file = <<>>, buffered = <<>>, taken = [f \in Flushers |-> <<>>],
         step = [f \in Flushers |-> "idle"], header = [f \in Flushers |-> 0],
         appended = <<>>, synced \in Nat
  PROVE  OnceTypeOK /\ FlushHasMore /\ AllOnce
<1>1. <<>> \in Seq(Entry) /\ <<>> \in Seq(Frame)
  BY EmptySeq
<1>2. OnceTypeOK /\ FlushHasMore
  BY <1>1 DEF OnceTypeOK, FlushHasMore, Steps
<1>3. taken["syncer"] = <<>> /\ taken["closer"] = <<>>
  BY WALSessionAssumption
<1>4. \A e \in Entry : CountIn(<<>>, e) = 0
  BY CountEmpty
<1>5. AllOnce
  BY <1>3, <1>4 DEF AllOnce, Ahead
<1> QED BY <1>2, <1>5

(* No process has run yet. *)
LEMMA InitOnce == Init => OnceInv
<1> SUFFICES ASSUME Init PROVE OnceInv
  OBVIOUS
<1>1. closer = "idle"
  BY DEF Init
<1> QED BY <1>1, OnceEmpty DEF Init, WALInit, OnceInv

(* append: one more copy in the buffer, one more append. *)
LEMMA AppendKeepsOnce ==
  ASSUME OnceInv, NEW x \in Entry, AppendOne(x)
  PROVE  OnceInv'
<1>1. /\ closer # "down" /\ closer' # "down"
      /\ buffered' = Append(buffered, x) /\ appended' = Append(appended, x)
      /\ UNCHANGED <<taken, step, header, file, synced>>
  BY DEF AppendOne, AppendEntry
<1>2. OnceTypeOK /\ FlushHasMore /\ (Shut \/ AllOnce)
  BY <1>1 DEF OnceInv
<1>3. x \in Frame /\ buffered \in Seq(Entry) /\ appended \in Seq(Frame)
  BY <1>2 DEF OnceTypeOK, Frame
<1>4. OnceTypeOK' /\ FlushHasMore'
  BY <1>1, <1>2, <1>3, AppendProperties DEF OnceTypeOK, FlushHasMore
<1>5. CASE Shut
  BY <1>1, <1>4, <1>5 DEF Shut, OnceInv
<1>6. CASE AllOnce
  <2>1. ASSUME NEW e \in Entry PROVE CountIn(file, e)' + Ahead(e)' <= CountIn(appended, e)'
    <3>1. /\ CountIn(buffered', e) = CountIn(buffered, e) + One(x, e)
          /\ CountIn(appended', e) = CountIn(appended, e) + One(x, e)
      BY <1>1, <1>3, CountAppend
    <3>2. One(x, e) \in Nat
      BY DEF One
    <3>3. Ahead(e)' = Ahead(e) + One(x, e)
      BY <1>1, <1>2, <3>1, <3>2, OnceNumbers DEF Ahead
    <3>4. CountIn(file, e) + Ahead(e) <= CountIn(appended, e)
      BY <1>6 DEF AllOnce
    <3> QED BY <1>1, <1>2, <3>1, <3>2, <3>3, <3>4, OnceNumbers
  <2>2. AllOnce'
    BY <2>1 DEF AllOnce
  <2> QED BY <1>1, <1>4, <2>2 DEF OnceInv
<1> QED BY <1>2, <1>5, <1>6

(* A step that brings no new copy into the file, the flushes or the buffer. *)
LEMMA NoNewCopy ==
  ASSUME OnceInv, closer # "down", closer' # "down", appended' = appended,
         OnceTypeOK', FlushHasMore', Shut => Shut',
         \A e \in Entry : (CountIn(file, e) + Ahead(e))' <= CountIn(file, e) + Ahead(e)
  PROVE  OnceInv'
<1>1. OnceTypeOK /\ (Shut \/ AllOnce)
  BY DEF OnceInv
<1>2. CASE AllOnce
  <2>1. ASSUME NEW e \in Entry PROVE CountIn(file, e)' + Ahead(e)' <= CountIn(appended, e)'
    <3>1. /\ CountIn(file, e) + Ahead(e) <= CountIn(appended, e)
          /\ CountIn(file, e)' + Ahead(e)' <= CountIn(file, e) + Ahead(e)
          /\ CountIn(appended, e)' = CountIn(appended, e)
      BY <1>2 DEF AllOnce
    <3>2. CountIn(file, e)' \in Nat /\ Ahead(e)' \in Nat
      <4>1. OnceTypeOK'
        OBVIOUS
      <4>2. /\ CountIn(file', e) \in Nat /\ CountIn(taken'["syncer"], e) \in Nat
            /\ CountIn(taken'["closer"], e) \in Nat /\ CountIn(buffered', e) \in Nat
        BY <4>1, WALSessionAssumption, CountType DEF OnceTypeOK
      <4> QED BY <4>2 DEF Ahead
    <3> QED BY <1>1, <3>1, <3>2, OnceNumbers
  <2>2. AllOnce'
    BY <2>1 DEF AllOnce
  <2> QED BY <2>2 DEF OnceInv
<1> QED BY <1>1, <1>2 DEF OnceInv

(* Steps that leave the log alone. *)
LEMMA SameKeepsOnce ==
  ASSUME OnceInv, closer # "down", closer' # "down",
         UNCHANGED <<buffered, taken, step, header, file, synced, appended>>
  PROVE  OnceInv'
BY DEF OnceInv, OnceTypeOK, FlushHasMore, Shut, AllOnce, Ahead

(* flush takes the buffer. *)
LEMMA TakeKeepsOnce ==
  ASSUME OnceInv, closer # "down", closer' # "down", appended' = appended,
         NEW f \in {"syncer", "closer"}, FlushTake(f)
  PROVE  OnceInv'
<1>1. f \in Flushers
  BY WALSessionAssumption
<1>2. /\ buffered # <<>> /\ buffered' = <<>> /\ UNCHANGED <<header, file, synced>>
      /\ taken' = [taken EXCEPT ![f] = buffered] /\ step' = [step EXCEPT ![f] = "header"]
  BY DEF FlushTake, EmptyBuffer
<1>3. OnceTypeOK /\ FlushHasMore
  BY DEF OnceInv
<1>4. <<>> \in Seq(Entry)
  BY EmptySeq
<1>5. OnceTypeOK' /\ FlushHasMore'
  BY <1>1, <1>2, <1>3, <1>4 DEF OnceTypeOK, FlushHasMore, Steps
<1>6. Shut => Shut'
  BY <1>1, <1>2, <1>3 DEF Shut, OnceTypeOK
<1>7. ASSUME NEW e \in Entry
      PROVE  (CountIn(file, e) + Ahead(e))' <= CountIn(file, e) + Ahead(e)
  <2>1. CountIn(buffered', e) = 0
    BY <1>2, CountEmpty
  <2>2. CASE f = "syncer"
    <3>1. taken'["syncer"] = buffered /\ taken'["closer"] = taken["closer"]
      BY <1>2, <1>3, <2>2, WALSessionAssumption DEF OnceTypeOK
    <3> QED BY <1>2, <1>3, <2>1, <3>1, OnceNumbers DEF Ahead
  <2>3. CASE f = "closer"
    <3>1. taken'["closer"] = buffered /\ taken'["syncer"] = taken["syncer"]
      BY <1>2, <1>3, <2>3, WALSessionAssumption DEF OnceTypeOK
    <3> QED BY <1>2, <1>3, <2>1, <3>1, OnceNumbers DEF Ahead
  <2> QED BY <2>2, <2>3
<1> QED BY <1>5, <1>6, <1>7, NoNewCopy

(* What a flush still has to write is part of what is ahead. *)
LEMMA TakenPart ==
  ASSUME OnceTypeOK, NEW f \in {"syncer", "closer"}, NEW rest \in Seq(Entry),
         UNCHANGED buffered, taken' = [taken EXCEPT ![f] = rest], NEW e
  PROVE  Ahead(e)' = Ahead(e) - CountIn(taken[f], e) + CountIn(rest, e)
<1>1. CountIn(rest, e) \in Nat
  BY CountType
<1>2. CASE f = "syncer"
  <2>1. taken'["syncer"] = rest /\ taken'["closer"] = taken["closer"]
    BY <1>2, WALSessionAssumption DEF OnceTypeOK
  <2> QED BY <1>1, <1>2, <2>1, OnceNumbers DEF Ahead
<1>3. CASE f = "closer"
  <2>1. taken'["closer"] = rest /\ taken'["syncer"] = taken["syncer"]
    BY <1>3, WALSessionAssumption DEF OnceTypeOK
  <2> QED BY <1>1, <1>3, <2>1, OnceNumbers DEF Ahead
<1> QED BY <1>2, <1>3

(* A frame is refused as long as its second write is missing. *)
LEMMA TornCounts == \A e \in Entry : One(Torn, e) = 0
BY WALAssumption DEF One

(* _write_frame, first write: the header is no copy yet. *)
LEMMA HeaderKeepsOnce ==
  ASSUME OnceInv, closer # "down", closer' # "down", appended' = appended,
         NEW f \in {"syncer", "closer"}, WriteHeader(f)
  PROVE  OnceInv'
<1>1. f \in Flushers
  BY WALSessionAssumption
<1>2. OnceTypeOK /\ FlushHasMore /\ file \in Seq(Frame) /\ Torn \in Frame
  BY DEF OnceInv, OnceTypeOK, Frame
<1>3. /\ file' = Append(file, Torn) /\ header' = [header EXCEPT ![f] = Len(file) + 1]
      /\ step[f] = "header" /\ step' = [step EXCEPT ![f] = "payload"]
      /\ UNCHANGED <<buffered, taken, synced>>
  BY DEF WriteHeader
<1>4. /\ file' \in Seq(Frame) /\ Len(file) \in Nat /\ Len(file') = Len(file) + 1
      /\ \A i \in 1 .. Len(file) : file'[i] = file[i]
  BY <1>2, <1>3, AppendProperties, LenProperties
<1>5. OnceTypeOK' /\ FlushHasMore'
  BY <1>1, <1>2, <1>3, <1>4 DEF OnceTypeOK, FlushHasMore, Steps
<1>6. ASSUME Shut PROVE Shut'
  <2>1. Len(file) # 0 /\ file' # <<>>
    BY <1>2, <1>4, <1>6, EmptySeq DEF Shut
  <2>2. file'[1] = file[1] /\ Len(file) + 1 # 1
    BY <1>4, <2>1
  <2>3. \A g \in Flushers : step'[g] = "payload" => header'[g] # 1
    BY <1>1, <1>2, <1>3, <1>6, <2>2 DEF Shut, OnceTypeOK
  <2> QED BY <1>6, <2>1, <2>2, <2>3 DEF Shut
<1>7. ASSUME NEW e \in Entry
      PROVE  (CountIn(file, e) + Ahead(e))' <= CountIn(file, e) + Ahead(e)
  <2>1. CountIn(file', e) = CountIn(file, e)
    BY <1>2, <1>3, CountAppend, TornCounts, OnceNumbers
  <2>2. Ahead(e)' = Ahead(e)
    BY <1>3 DEF Ahead
  <2> QED BY <1>2, <2>1, <2>2, OnceNumbers
<1> QED BY <1>5, <1>6, <1>7, NoNewCopy

(* _write_frame, second write: the copy moves into the file, or is lost when
   somebody has written there since. *)
LEMMA PayloadKeepsOnce ==
  ASSUME OnceInv, closer # "down", closer' # "down", appended' = appended,
         NEW f \in {"syncer", "closer"}, WritePayload(f)
  PROVE  OnceInv'
<1>1. f \in Flushers
  BY WALSessionAssumption
<1>2. OnceTypeOK /\ FlushHasMore /\ file \in Seq(Frame) /\ Torn \in Frame /\ Entry \subseteq Frame
  BY DEF OnceInv, OnceTypeOK, Frame
<1> DEFINE x == Head(taken[f])
<1> DEFINE rest == Tail(taken[f])
<1>3. /\ file' = IF header[f] = Len(file) THEN [file EXCEPT ![header[f]] = x] ELSE Append(file, Torn)
      /\ step[f] = "payload" /\ UNCHANGED <<buffered, header, synced>>
      /\ taken' = [taken EXCEPT ![f] = rest]
      /\ step' = [step EXCEPT ![f] = IF Len(taken[f]) = 1 THEN "fsync" ELSE "header"]
  BY <1>1, <1>2 DEF WritePayload, OnceTypeOK
<1>4. /\ taken[f] \in Seq(Entry) /\ taken[f] # <<>>
      /\ x \in Entry /\ rest \in Seq(Entry) /\ (rest = <<>> <=> Len(taken[f]) = 1)
  <2>1. taken[f] \in Seq(Entry) /\ taken[f] # <<>>
    BY <1>1, <1>2, <1>3 DEF OnceTypeOK, FlushHasMore
  <2> QED BY <2>1, HeadTailProperties, SingleTail
<1>5. ASSUME NEW e PROVE CountIn(taken[f], e) = CountIn(rest, e) + One(x, e)
  BY <1>4, CountTail
<1> HIDE DEF x, rest
<1>6. Len(file) \in Nat /\ (file = <<>> <=> Len(file) = 0) /\ header[f] \in Nat /\ DOMAIN file = 1 .. Len(file)
  BY <1>1, <1>2, EmptySeq, LenProperties DEF OnceTypeOK
<1>7. header[f] = Len(file) /\ Len(file) # 0 => header[f] \in DOMAIN file
  BY <1>6
<1>8. CASE header[f] = Len(file) /\ Len(file) # 0
  <2>1. header[f] \in DOMAIN file /\ file' = [file EXCEPT ![header[f]] = x] /\ x \in Frame
    BY <1>2, <1>3, <1>4, <1>7, <1>8
  <2>2. file' \in Seq(Frame)
    BY <1>2, <2>1, CountExcept
  <2>3. OnceTypeOK' /\ FlushHasMore'
    BY <1>1, <1>2, <1>3, <1>4, <2>2 DEF OnceTypeOK, FlushHasMore, Steps
  <2>4. ASSUME Shut PROVE Shut'
    <3>1. header[f] # 1 /\ 1 \in DOMAIN file
      BY <1>1, <1>3, <1>6, <2>4 DEF Shut
    <3>2. DOMAIN file' = DOMAIN file /\ file'[1] = file[1]
      BY <2>1, <3>1
    <3>3. file' # <<>>
      BY <3>1, <3>2
    <3>4. \A g \in Flushers : step'[g] = "payload" => header'[g] # 1
      BY <1>1, <1>2, <1>3, <2>4 DEF Shut, OnceTypeOK
    <3> QED BY <2>4, <3>2, <3>3, <3>4 DEF Shut
  <2>5. ASSUME NEW e \in Entry
        PROVE  (CountIn(file, e) + Ahead(e))' <= CountIn(file, e) + Ahead(e)
    <3>1. CountIn(file', e) <= CountIn(file, e) + One(x, e) /\ CountIn(file', e) \in Nat
      BY <1>2, <2>1, <2>2, CountExcept, CountType
    <3>2. Ahead(e)' = Ahead(e) - CountIn(taken[f], e) + CountIn(rest, e)
      BY <1>2, <1>3, <1>4, TakenPart
    <3>3. CountIn(taken[f], e) = CountIn(rest, e) + One(x, e) /\ CountIn(rest, e) \in Nat
      BY <1>4, <1>5, CountType
    <3>4. One(x, e) \in Nat
      BY DEF One
    <3> QED BY <1>2, <3>1, <3>2, <3>3, <3>4, OnceNumbers
  <2> QED BY <2>3, <2>4, <2>5, NoNewCopy
<1>9. CASE ~(header[f] = Len(file) /\ Len(file) # 0)
  <2>1. /\ file' \in Seq(Frame)
        /\ Shut => file' # <<>> /\ file'[1] = file[1]
        /\ \A e \in Entry : CountIn(file', e) = CountIn(file, e)
    <3>1. CASE header[f] # Len(file)
      <4>1. file' = Append(file, Torn)
        BY <1>3, <3>1
      <4>2. /\ file' \in Seq(Frame) /\ Len(file') = Len(file) + 1
            /\ \A i \in 1 .. Len(file) : file'[i] = file[i]
        BY <1>2, <4>1, AppendProperties
      <4>3. Shut => file' # <<>> /\ file'[1] = file[1]
        BY <1>6, <4>2, EmptySeq DEF Shut
      <4>4. \A e \in Entry : CountIn(file', e) = CountIn(file, e)
        BY <1>2, <4>1, CountAppend, TornCounts, OnceNumbers
      <4> QED BY <4>2, <4>3, <4>4
    <3>2. CASE header[f] = Len(file) /\ Len(file) = 0
      <4>1. file = <<>> /\ file' = file
        BY <1>3, <1>6, <3>2
      <4> QED BY <1>2, <4>1 DEF Shut
    <3> QED BY <1>9, <3>1, <3>2
  <2>2. OnceTypeOK' /\ FlushHasMore'
    BY <1>1, <1>2, <1>3, <1>4, <2>1 DEF OnceTypeOK, FlushHasMore, Steps
  <2>3. ASSUME Shut PROVE Shut'
    <3>1. \A g \in Flushers : step'[g] = "payload" => header'[g] # 1
      BY <1>1, <1>2, <1>3, <2>3 DEF Shut, OnceTypeOK
    <3> QED BY <2>1, <2>3, <3>1 DEF Shut
  <2>4. ASSUME NEW e \in Entry
        PROVE  (CountIn(file, e) + Ahead(e))' <= CountIn(file, e) + Ahead(e)
    <3>1. Ahead(e)' = Ahead(e) - CountIn(taken[f], e) + CountIn(rest, e)
      BY <1>2, <1>3, <1>4, TakenPart
    <3>2. CountIn(taken[f], e) = CountIn(rest, e) + One(x, e) /\ CountIn(rest, e) \in Nat
      BY <1>4, <1>5, CountType
    <3>3. One(x, e) \in Nat
      BY DEF One
    <3> QED BY <1>2, <2>1, <3>1, <3>2, <3>3, OnceNumbers
  <2> QED BY <2>2, <2>3, <2>4, NoNewCopy
<1> QED BY <1>8, <1>9

(* A flush that raises loses the rest of what it had taken. *)
LEMMA RaiseKeepsOnce ==
  ASSUME OnceInv, closer # "down", closer' # "down", appended' = appended,
         NEW f \in {"syncer", "closer"}, FlushRaises(f)
  PROVE  OnceInv'
<1>1. f \in Flushers /\ <<>> \in Seq(Entry)
  BY WALSessionAssumption, EmptySeq
<1>2. OnceTypeOK /\ FlushHasMore
  BY DEF OnceInv
<1>3. /\ taken' = [taken EXCEPT ![f] = <<>>] /\ step' = [step EXCEPT ![f] = "idle"]
      /\ UNCHANGED <<buffered, header, file, synced>>
  BY DEF FlushRaises
<1>4. OnceTypeOK' /\ FlushHasMore' /\ (Shut => Shut')
  BY <1>1, <1>2, <1>3 DEF OnceTypeOK, FlushHasMore, Steps, Shut
<1>5. ASSUME NEW e \in Entry
      PROVE  (CountIn(file, e) + Ahead(e))' <= CountIn(file, e) + Ahead(e)
  <2>1. Ahead(e)' = Ahead(e) - CountIn(taken[f], e) + CountIn(<<>>, e)
    BY <1>1, <1>2, <1>3, TakenPart
  <2>2. CountIn(<<>>, e) = 0
    BY CountEmpty
  <2>3. CountIn(taken[f], e) \in Nat
    BY <1>2, OnceNumbers
  <2> QED BY <1>2, <1>3, <2>1, <2>2, <2>3, OnceNumbers
<1> QED BY <1>4, <1>5, NoNewCopy

(* A flush, whoever runs it. *)
LEMMA FlushKeepsOnce ==
  ASSUME OnceInv, closer # "down", closer' # "down", appended' = appended,
         NEW f \in {"syncer", "closer"}, FlushStep(f)
  PROVE  OnceInv'
<1>1. CASE Fsync(f)
  <2>1. OnceTypeOK /\ FlushHasMore
    BY DEF OnceInv
  <2>2. UNCHANGED <<buffered, taken, header, file>> /\ synced' = Len(file) /\ step' = [step EXCEPT ![f] = "idle"]
    BY <1>1 DEF Fsync
  <2>3. Len(file) \in Nat /\ f \in Flushers
    BY <2>1, LenProperties, WALSessionAssumption DEF OnceTypeOK
  <2>4. OnceTypeOK' /\ FlushHasMore'
    BY <2>1, <2>2, <2>3 DEF OnceTypeOK, FlushHasMore, Steps
  <2>5. (Shut => Shut') /\ (AllOnce => AllOnce')
    BY <2>1, <2>2, <2>3 DEF OnceTypeOK, Shut, AllOnce, Ahead
  <2> QED BY <2>4, <2>5 DEF OnceInv
<1> QED BY <1>1, HeaderKeepsOnce, PayloadKeepsOnce, RaiseKeepsOnce DEF FlushStep

(* A crash: what is left in the file is what counts from now on. *)
LEMMA CrashKeepsOnce == OnceInv /\ Crash => OnceInv'
<1> SUFFICES ASSUME OnceInv, Crash PROVE OnceInv'
  OBVIOUS
<1>1. OnceTypeOK /\ FlushHasMore /\ file \in Seq(Frame) /\ Torn \in Frame
  BY DEF OnceInv, OnceTypeOK, Frame
<1>2. /\ closer' = "down" /\ appended' = ReadAll(file')
      /\ UNCHANGED <<buffered, taken, step, header, synced>>
  BY DEF Crash
<1>3. PICK n \in synced .. Len(file) :
        \/ file' = SubSeq(file, 1, n)
        \/ file' = Append(SubSeq(file, 1, n), Torn)
  BY DEF Crash, LoseUnsynced, SafeFrames
<1>0. n \in 0 .. Len(file)
  BY <1>1, <1>3, LenProperties DEF OnceTypeOK
<1>4. SubSeq(file, 1, n) \in Seq(Frame)
  BY <1>1, <1>3, <1>0, CountPart
<1>5. file' \in Seq(Frame)
  BY <1>1, <1>3, <1>4, AppendProperties
<1>6. ReadAll(file') \in Seq(Frame)
  BY <1>5, ReadAllCount
<1>7. OnceTypeOK' /\ FlushHasMore'
  BY <1>1, <1>2, <1>5, <1>6 DEF OnceTypeOK, FlushHasMore
<1> QED BY <1>2, <1>7 DEF OnceInv

(* The next process: it empties the file, or finds one that it cannot read. *)
LEMMA RestartKeepsOnce == OnceInv /\ Restart => OnceInv'
<1> SUFFICES ASSUME OnceInv, Restart PROVE OnceInv'
  OBVIOUS
<1>1. OnceTypeOK /\ file \in Seq(Frame)
  BY DEF OnceInv, OnceTypeOK
<1>2. /\ closer' = "idle" /\ appended' = <<>> /\ buffered' = <<>>
      /\ taken' = [f \in Flushers |-> <<>>] /\ step' = [f \in Flushers |-> "idle"]
      /\ header' = [f \in Flushers |-> 0] /\ synced' \in Nat
  BY <1>1 DEF Restart, FileOpened, OnceTypeOK
<1>3. CASE file' = <<>>
  <2>1. <<>> \in Seq(Entry) /\ <<>> \in Seq(Frame) /\ \A e \in Entry : CountIn(<<>>, e) = 0
    BY EmptySeq, CountEmpty
  <2>2. taken'["syncer"] = <<>> /\ taken'["closer"] = <<>>
    BY <1>2, WALSessionAssumption
  <2>3. OnceTypeOK' /\ FlushHasMore'
    BY <1>2, <1>3, <2>1 DEF OnceTypeOK, FlushHasMore, Steps
  <2>4. AllOnce'
    BY <1>2, <1>3, <2>1, <2>2 DEF AllOnce, Ahead
  <2> QED BY <1>2, <2>3, <2>4 DEF OnceInv
<1>4. CASE file' # <<>>
  <2>1. ReadAll(file) = <<>> /\ file' = file
    BY <1>4 DEF Restart, Checkpointed
  <2>2. file # <<>> /\ ~Readable(file[1])
    BY <1>1, <1>4, <2>1, ReadAllPart
  <2>3. <<>> \in Seq(Entry) /\ <<>> \in Seq(Frame)
    BY EmptySeq
  <2>4. OnceTypeOK' /\ FlushHasMore'
    BY <1>1, <1>2, <2>1, <2>3 DEF OnceTypeOK, FlushHasMore, Steps
  <2>5. Shut'
    BY <1>2, <2>1, <2>2 DEF Shut
  <2> QED BY <1>2, <2>4, <2>5 DEF OnceInv
<1> QED BY <1>3, <1>4

(* Every step keeps it. *)
LEMMA NextOnce == OnceInv /\ [Next]_allVars => OnceInv'
<1> SUFFICES ASSUME OnceInv, [Next]_allVars PROVE OnceInv'
  OBVIOUS
<1>1. ASSUME NEW x \in Entry, AppendOne(x) PROVE OnceInv'
  BY <1>1, AppendKeepsOnce
<1>2. CASE SyncerFlush
  BY <1>2, TakeKeepsOnce DEF SyncerFlush
<1>3. CASE SyncerStep
  BY <1>3, FlushKeepsOnce DEF SyncerStep, sessionVars
<1>4. CASE SyncerSeesStop \/ SyncerExit \/ BeginClose \/ CloserFinish
  BY <1>4, SameKeepsOnce DEF SyncerSeesStop, SyncerExit, BeginClose, CloserFinish, CloseFile, walVars
<1>5. CASE CloserFlush
  <2>1. closer # "down" /\ closer' # "down" /\ appended' = appended
    BY <1>5 DEF CloserFlush
  <2>2. CASE buffered = <<>>
    BY <1>5, <2>1, <2>2, SameKeepsOnce DEF CloserFlush, walVars
  <2>3. CASE buffered # <<>>
    BY <1>5, <2>1, <2>3, TakeKeepsOnce DEF CloserFlush
  <2> QED BY <2>2, <2>3
<1>6. CASE CloserStep
  BY <1>6, FlushKeepsOnce DEF CloserStep
<1>7. CASE Crash
  BY <1>7, CrashKeepsOnce
<1>8. CASE Restart
  BY <1>8, RestartKeepsOnce
<1>9. CASE UNCHANGED allVars
  BY <1>9 DEF allVars, walVars, sessionVars, OnceInv, OnceTypeOK, FlushHasMore, Shut, AllOnce, Ahead
<1> QED BY <1>1, <1>2, <1>3, <1>4, <1>5, <1>6, <1>7, <1>8, <1>9 DEF Next

(* No entry is replayed more often than it was appended, also when frames are
   torn, entries cannot be encoded or read back, a flush raises, and close gives
   up waiting so that two flushes write at the same time. *)
THEOREM OnceReplayed == Spec => []ReplayedOnce
<1> QED BY InitOnce, NextOnce, OnceImplies, PTL DEF Spec

=============================================================================
