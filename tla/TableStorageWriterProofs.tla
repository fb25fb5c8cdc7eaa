---------------------- MODULE TableStorageWriterProofs ----------------------
(***************************************************************************)
(* Proofs about TableStorageWriter: types, that every operation is         *)
(* accounted for, what the table is given, that every thread keeps the     *)
(* order of a partition, and that Execute always has a step to take and    *)
(* takes finitely many, for any number of threads, operations, partitions  *)
(* and failures and any size of a batch.                                   *)
(***************************************************************************)
EXTENDS TableStorageWriter, FiniteSetTheorems, SequenceTheorems, WellFoundedInduction, TLAPS

Operations == 1..MaxOperations

Increasing(s) == \A i, j \in 1..Len(s) : i < j => s[i] < s[j]

LEMMA ConstantsType == /\ BatchSize \in Nat /\ BatchSize > 0
                       /\ Retries \in Nat /\ MaxOperations \in Nat /\ MaxFaults \in Nat
  BY ConstantsAssumption DEF ConstantsAssumption

LEMMA OperationsFinite == ASSUME NEW ops \in SUBSET Operations
                          PROVE  IsFiniteSet(ops) /\ Cardinality(ops) \in Nat
<1>1. IsFiniteSet(Operations)
  BY ConstantsType, FS_Interval DEF Operations
<1> QED BY <1>1, FS_Subset, FS_CardinalityType

LEMMA ElementsOfSeq ==
  ASSUME NEW s \in Seq(Operations)
  PROVE  Elements(s) = {s[k] : k \in 1..Len(s)} /\ Elements(s) \in SUBSET Operations
<1>1. DOMAIN s = 1..Len(s) /\ \A k \in 1..Len(s) : s[k] \in Operations
  BY LenProperties, ElementOfSeq
<1> QED BY <1>1 DEF Elements

-----------------------------------------------------------------------------
(* Batches.                                                                *)

\* Where batch b of ops lies.
InBatch(ops, b) == {k \in 1..Len(ops) : k > b * BatchSize /\ k <= b * BatchSize + BatchSize}

\* Skip and Take give the operations at these places.
LEMMA BatchElements ==
  ASSUME NEW ops \in Seq(Operations), NEW b \in Nat
  PROVE  Elements(GetOperations(ops, b)) = {ops[k] : k \in InBatch(ops, b)}
<1> DEFINE skip == b * BatchSize
           last == IF skip + BatchSize < Len(ops) THEN skip + BatchSize ELSE Len(ops)
           s == SubSeq(ops, skip + 1, last)
<1>1. skip \in Nat /\ last \in Nat /\ Len(ops) \in Nat /\ BatchSize \in Nat /\ BatchSize > 0
  BY ConstantsType, LenProperties
<1>2. GetOperations(ops, b) = s
  BY DEF GetOperations
<1>3. \A i \in (skip + 1)..last : i \in 1..Len(ops) /\ ops[i] \in Operations
  BY <1>1, ElementOfSeq
<1>4. /\ s \in Seq(Operations) /\ Len(s) = IF skip + 1 <= last THEN last - (skip + 1) + 1 ELSE 0
      /\ \A i \in 1..(last - (skip + 1) + 1) : s[i] = ops[skip + 1 + i - 1]
  BY <1>1, <1>3, SubSeqProperties
<1>5. Elements(s) = {s[i] : i \in 1..Len(s)}
  BY <1>4, ElementsOfSeq
<1> HIDE DEF skip, last, s
<1>6. ASSUME NEW i \in 1..Len(s) PROVE skip + i \in InBatch(ops, b) /\ s[i] = ops[skip + i]
  <2>1. i \in 1..(last - (skip + 1) + 1) /\ skip + 1 <= last
    BY <1>1, <1>4
  <2>2. s[i] = ops[skip + i]
    BY <1>1, <1>4, <2>1
  <2> QED BY <1>1, <2>1, <2>2 DEF InBatch, skip, last
<1>7. ASSUME NEW k \in InBatch(ops, b) PROVE k - skip \in 1..Len(s) /\ s[k - skip] = ops[k]
  <2>1. k \in (skip + 1)..last
    BY <1>1, <1>7 DEF InBatch, skip, last
  <2>2. k - skip \in 1..Len(s) /\ k - skip \in 1..(last - (skip + 1) + 1) /\ skip + 1 + (k - skip) - 1 = k
    BY <1>1, <1>4, <2>1
  <2> QED BY <1>4, <2>2
<1> QED BY <1>2, <1>5, <1>6, <1>7

\* A batch is what the next one leaves out of the rest, it comes before what is
\* left, it is not too large, and there is one as long as anything is left.
LEMMA BatchProperties ==
  ASSUME NEW ops \in Seq(Operations), NEW b \in Nat, Increasing(ops),
         NEW B, B = Elements(GetOperations(ops, b))
  PROVE  /\ B \subseteq Rest(ops, b) /\ Rest(ops, b) \subseteq Elements(ops)
         /\ Rest(ops, b + 1) = Rest(ops, b) \ B
         /\ B = {} => Rest(ops, b) = {}
         /\ \A m \in B, n \in Rest(ops, b + 1) : m < n
<1>1. B = {ops[k] : k \in InBatch(ops, b)}
  BY BatchElements
<1>2. DOMAIN ops = 1..Len(ops) /\ Len(ops) \in Nat /\ b * BatchSize \in Nat /\ BatchSize \in Nat /\ BatchSize > 0
  BY ConstantsType, LenProperties
<1>3. (b + 1) * BatchSize = b * BatchSize + BatchSize
  BY ConstantsType
<1>4. /\ Rest(ops, b) = {ops[k] : k \in {j \in 1..Len(ops) : j > b * BatchSize}}
      /\ Rest(ops, b + 1) = {ops[k] : k \in {j \in 1..Len(ops) : j > b * BatchSize + BatchSize}}
      /\ Elements(ops) = {ops[k] : k \in 1..Len(ops)}
  BY <1>2, <1>3 DEF Rest, Elements
<1>5. \A i, j \in 1..Len(ops) : i < j => ops[i] < ops[j] /\ ops[i] # ops[j]
  <2> SUFFICES ASSUME NEW i \in 1..Len(ops), NEW j \in 1..Len(ops), i < j PROVE ops[i] < ops[j] /\ ops[i] # ops[j]
    OBVIOUS
  <2>1. ops[i] \in Operations /\ ops[j] \in Operations
    BY ElementOfSeq
  <2>2. ops[i] \in Int /\ ops[j] \in Int /\ ops[i] < ops[j]
    BY <2>1 DEF Increasing, Operations
  <2> QED BY <2>2
<1> DEFINE skip == b * BatchSize
<1> HIDE DEF skip
<1>6. skip \in Nat /\ InBatch(ops, b) = {k \in 1..Len(ops) : k > skip /\ k <= skip + BatchSize}
  BY <1>2 DEF skip, InBatch
<1>7. /\ Rest(ops, b) = {ops[k] : k \in {j \in 1..Len(ops) : j > skip}}
      /\ Rest(ops, b + 1) = {ops[k] : k \in {j \in 1..Len(ops) : j > skip + BatchSize}}
  BY <1>4 DEF skip
<1>8. B \subseteq Rest(ops, b) /\ Rest(ops, b) \subseteq Elements(ops)
  BY <1>1, <1>4, <1>6, <1>7
<1>9. \A m \in B, n \in Rest(ops, b + 1) : m < n /\ m # n
  <2> SUFFICES ASSUME NEW m \in B, NEW n \in Rest(ops, b + 1) PROVE m < n /\ m # n
    OBVIOUS
  <2>1. PICK i \in 1..Len(ops) : i > skip /\ i <= skip + BatchSize /\ m = ops[i]
    BY <1>1, <1>6
  <2>2. PICK j \in 1..Len(ops) : j > skip + BatchSize /\ n = ops[j]
    BY <1>7
  <2>3. i < j
    BY <1>2, <1>6, <2>1, <2>2
  <2> QED BY <1>5, <2>1, <2>2, <2>3
<1>10. Rest(ops, b + 1) = Rest(ops, b) \ B
  <2>1. ASSUME NEW n \in Rest(ops, b) \ B PROVE n \in Rest(ops, b + 1)
    <3>1. PICK j \in 1..Len(ops) : j > skip /\ n = ops[j]
      BY <1>7, <2>1
    <3>2. j > skip + BatchSize
      BY <1>1, <1>2, <1>6, <2>1, <3>1
    <3> QED BY <1>7, <3>1, <3>2
  <2>2. Rest(ops, b + 1) \subseteq Rest(ops, b)
    BY <1>2, <1>6, <1>7
  <2> QED BY <1>9, <2>1, <2>2
<1>11. ASSUME B = {}, NEW n \in Rest(ops, b) PROVE FALSE
  <2>1. PICK j \in 1..Len(ops) : j > skip
    BY <1>7, <1>11
  <2>2. skip + 1 \in InBatch(ops, b)
    BY <1>2, <1>6, <2>1
  <2> QED BY <1>1, <1>11, <2>2
<1> QED BY <1>8, <1>9, <1>10, <1>11

LEMMA BatchSizeKept ==
  ASSUME NEW ops \in Seq(Operations), NEW b \in Nat,
         NEW B, B = Elements(GetOperations(ops, b)), NEW T \in SUBSET B
  PROVE  B \in SUBSET Operations /\ Cardinality(T) <= BatchSize /\ (T # {} => Cardinality(T) \in 1..BatchSize)
<1> DEFINE first == b * BatchSize + 1
           last == b * BatchSize + BatchSize
<1>1. B = {ops[k] : k \in InBatch(ops, b)}
  BY BatchElements
<1>2. b * BatchSize \in Nat /\ BatchSize \in Nat /\ BatchSize > 0 /\ Len(ops) \in Nat
  BY ConstantsType, LenProperties
<1>3. B \in SUBSET Operations
  BY <1>1, ElementOfSeq DEF InBatch
<1>4. IsFiniteSet(InBatch(ops, b)) /\ Cardinality(InBatch(ops, b)) <= BatchSize
  <2>1. InBatch(ops, b) \subseteq first..last
    BY <1>2 DEF InBatch
  <2>2. IsFiniteSet(first..last) /\ Cardinality(first..last) = BatchSize
    <3>1. first \in Int /\ last \in Int /\ first <= last /\ last - first + 1 = BatchSize
      BY <1>2
    <3> HIDE DEF first, last
    <3> QED BY <3>1, FS_Interval
  <2> QED BY <2>1, <2>2, FS_Subset
<1>5. IsFiniteSet(B) /\ Cardinality(B) <= Cardinality(InBatch(ops, b))
  <2> DEFINE f == [k \in InBatch(ops, b) |-> ops[k]]
  <2>1. f \in Surjection(InBatch(ops, b), B)
    BY <1>1 DEF Surjection
  <2> QED BY <1>4, <2>1, FS_Surjection
<1>6. IsFiniteSet(T) /\ Cardinality(T) <= Cardinality(B)
  BY <1>5, FS_Subset
<1>7. Cardinality(T) \in Nat /\ Cardinality(B) \in Nat /\ Cardinality(InBatch(ops, b)) \in Nat
  BY <1>4, <1>5, <1>6, FS_CardinalityType
<1>8. T # {} => Cardinality(T) # 0
  BY <1>6, FS_EmptySet
<1> QED BY <1>2, <1>3, <1>4, <1>5, <1>6, <1>7, <1>8

LEMMA NoOperations == /\ Elements(<<>>) = {} /\ Increasing(<<>>) /\ Elements(GetOperations(<<>>, 0)) = {}
                      /\ \A b \in Nat : Rest(<<>>, b) = {}
<1>1. <<>> \in Seq(Operations) /\ Len(<<>>) = 0 /\ DOMAIN <<>> = {}
  BY EmptySeq
<1>2. Elements(GetOperations(<<>>, 0)) = {}
  <2>1. InBatch(<<>>, 0) = {}
    BY <1>1 DEF InBatch
  <2>2. Elements(GetOperations(<<>>, 0)) = {<<>>[k] : k \in InBatch(<<>>, 0)}
    BY <1>1, BatchElements
  <2> QED BY <2>1, <2>2
<1> QED BY <1>1, <1>2 DEF Elements, Increasing, Rest

\* A group as a list.
LEMMA ListOfGroup ==
  ASSUME NEW g \in SUBSET Operations, NEW s \in ToList(g)
  PROVE  s \in Seq(Operations) /\ Increasing(s) /\ Elements(s) = g /\ Rest(s, 0) = g
<1>1. Cardinality(g) \in Nat
  BY OperationsFinite
<1>2. s \in [1..Cardinality(g) -> g] /\ Elements(s) = g /\ \A i, j \in DOMAIN s : i < j => s[i] < s[j]
  BY DEF ToList
<1>3. s \in Seq(g)
  <2> DEFINE n == Cardinality(g)
  <2>1. n \in Nat /\ s \in [1..n -> g]
    BY <1>1, <1>2
  <2> HIDE DEF n
  <2> QED BY <2>1, SeqDef
<1>4. s \in Seq(Operations) /\ DOMAIN s = 1..Len(s)
  BY <1>3, SeqMonotonic, LenProperties
<1>5. 0 * BatchSize = 0
  BY ConstantsType
<1> QED BY <1>2, <1>4, <1>5 DEF Increasing, Rest, Elements

OneKey(ops) == \A m, n \in ops : keys[m] = keys[n]

\* Groups have a key each, and no two groups the same.
Separate(gs) == /\ \A g \in gs : OneKey(g)
                /\ \A g, h \in gs : (\E m \in g, n \in h : keys[m] = keys[n]) => g = h

LEMMA GroupsByKey ==
  ASSUME NEW ops \in SUBSET Operations
  PROVE  GroupByKey(ops) \in SUBSET SUBSET Operations /\ UNION GroupByKey(ops) = ops /\ Separate(GroupByKey(ops))
<1>1. GroupByKey(ops) \in SUBSET SUBSET Operations /\ UNION GroupByKey(ops) = ops
  BY DEF GroupByKey
<1>2. Separate(GroupByKey(ops))
  BY DEF GroupByKey, Separate, OneKey
<1> QED BY <1>1, <1>2

-----------------------------------------------------------------------------
(* What a thread has in hand.                                              *)

\* Where e is and what it has, with the operations it has dequeued.
CallOK(e) ==
  /\ pc[e] # "executing" => groups[e] = {} /\ current[e] = <<>> /\ batch[e] = 0
  /\ pc[e] # "dequeuing" => toExecute[e] = {}
  /\ Increasing(current[e]) /\ OneKey(Elements(current[e]))
  /\ Elements(current[e]) \subseteq 1..dequeued
  /\ InHand(e) \subseteq 1..dequeued
  /\ Separate(groups[e])
  /\ \A m \in Elements(current[e]), n \in UNION groups[e] : keys[m] # keys[n]

\* No batch of e that the table has taken is still in hand, but the one that is out; what
\* is in hand of a partition comes after what was written to it.
WrittenOK(e) ==
  /\ \A j \in DOMAIN written[e] :
       /\ written[e][j] # {} /\ Cardinality(written[e][j]) \in 1..BatchSize
       /\ written[e][j] \subseteq 1..dequeued /\ OneKey(written[e][j])
  /\ \A j \in DOMAIN written[e] : written[e][j] = OperationBatch(e) \/
       /\ written[e][j] \cap InHand(e) = {}
       /\ \A n \in written[e][j], m \in InHand(e) : keys[m] = keys[n] => n < m

\* What is written twice is one batch of one thread; no thread writes what is
\* in the hands of another.
Apart(d, e) ==
  /\ InHand(d) \cap InHand(e) = {}
  /\ \A j \in DOMAIN written[d] :
       written[d][j] \cap InHand(e) = {} /\ \A k \in DOMAIN written[e] : written[d][j] \cap written[e][k] = {}

Same(e) == \A j, k \in DOMAIN written[e] :
  written[e][j] \cap written[e][k] # {} => written[e][j] = written[e][k]

Accounted ==
  /\ \A n \in 1..dequeued : n \in done \/ n \in lost \/ \E e \in Executors : n \in InHand(e)
  /\ done \subseteq 1..dequeued /\ lost \subseteq 1..dequeued /\ done \cap lost = {}
  /\ \A e \in Executors : InHand(e) \cap (done \cup lost) = {}

WriterInv ==
  /\ TypeOK /\ Accounted
  /\ \A e \in Executors : CallOK(e) /\ WrittenOK(e) /\ Same(e)
  /\ \A d, e \in Executors : d # e => Apart(d, e)

\* What every step of Execute but a dequeue does, seen from outside: it lets go of some of what e
\* has in hand, once it is done or lost; it may send the batch that is out,
\* and it may leave that batch behind.
Moves(e) ==
  /\ UNCHANGED <<keys, dequeued>>
  /\ InHand(e)' \subseteq InHand(e)
  /\ \/ done' = done \cup (InHand(e) \ InHand(e)') /\ lost' = lost
     \/ lost' = lost \cup (InHand(e) \ InHand(e)') /\ done' = done
  /\ \A d \in Executors \ {e} :
       InHand(d)' = InHand(d) /\ OperationBatch(d)' = OperationBatch(d) /\ written'[d] = written[d]
  /\ \/ written'[e] = written[e]
     \/ OperationBatch(e) # {} /\ written'[e] = Append(written[e], OperationBatch(e))
  /\ \/ OperationBatch(e)' = OperationBatch(e)
     \/ \A n \in OperationBatch(e), m \in InHand(e)' : m # n /\ (keys[m] = keys[n] => n < m)

LEMMA BatchInHand ==
  ASSUME TypeOK, NEW e \in Executors, CallOK(e)
  PROVE  /\ OperationBatch(e) \subseteq Rest(current[e], batch[e]) /\ OperationBatch(e) \subseteq InHand(e)
         /\ OperationBatch(e) \subseteq 1..dequeued /\ OneKey(OperationBatch(e))
         /\ OperationBatch(e) \in SUBSET Operations
         /\ OperationBatch(e) # {} => Cardinality(OperationBatch(e)) \in 1..BatchSize
<1>1. current[e] \in Seq(Operations) /\ batch[e] \in Nat
  BY DEF TypeOK, Operations
<1>2. OperationBatch(e) \subseteq Rest(current[e], batch[e]) /\ Rest(current[e], batch[e]) \subseteq Elements(current[e])
  BY <1>1, BatchProperties DEF OperationBatch, CallOK
<1>3. OperationBatch(e) \in SUBSET Operations /\ (OperationBatch(e) # {} => Cardinality(OperationBatch(e)) \in 1..BatchSize)
  BY <1>1, BatchSizeKept DEF OperationBatch
<1> QED BY <1>2, <1>3 DEF InHand, CallOK, OneKey

LEMMA MovesKeepAccounts ==
  ASSUME WriterInv, NEW e \in Executors, Moves(e)
  PROVE  Accounted'
<1> DEFINE S == InHand(e) \ InHand(e)'
<1>1. InHand(e) \subseteq 1..dequeued /\ InHand(e) \cap (done \cup lost) = {} /\ S \subseteq InHand(e)
  BY DEF WriterInv, CallOK, Accounted
<1>2. dequeued' = dequeued /\ InHand(e)' \subseteq InHand(e)
  BY DEF Moves
<1>3. \A d \in Executors \ {e} : InHand(d)' = InHand(d) /\ InHand(d) \cap InHand(e) = {}
  BY DEF Moves, WriterInv, Apart
<1>4. done' \cup lost' = done \cup lost \cup S /\ done' \cap lost' = {}
  BY <1>1 DEF Moves, WriterInv, Accounted
<1>5. done' \subseteq 1..dequeued' /\ lost' \subseteq 1..dequeued'
  BY <1>1, <1>2, <1>4 DEF WriterInv, Accounted
<1>6. \A d \in Executors : InHand(d)' \cap (done' \cup lost') = {}
  <2> SUFFICES ASSUME NEW d \in Executors PROVE InHand(d)' \cap (done' \cup lost') = {}
    OBVIOUS
  <2>1. InHand(d) \cap (done \cup lost) = {}
    BY DEF WriterInv, Accounted
  <2>2. CASE d = e
    BY <1>2, <1>4, <2>1, <2>2
  <2>3. CASE d # e
    BY <1>1, <1>3, <1>4, <2>1, <2>3
  <2> QED BY <2>2, <2>3
<1>7. \A n \in 1..dequeued' : n \in done' \/ n \in lost' \/ \E d \in Executors : n \in InHand(d)'
  <2> SUFFICES ASSUME NEW n \in 1..dequeued, n \notin done', n \notin lost'
               PROVE  \E d \in Executors : n \in InHand(d)'
    BY <1>2
  <2>1. PICK d \in Executors : n \in InHand(d)
    BY <1>4 DEF WriterInv, Accounted
  <2>2. n \in InHand(d)'
    BY <1>3, <1>4, <2>1
  <2> QED BY <2>2
<1> QED BY <1>4, <1>5, <1>6, <1>7 DEF Accounted

\* The batches written by e afterwards.
LEMMA Appended ==
  ASSUME TypeOK, NEW e \in Executors, CallOK(e), Moves(e)
  PROVE  /\ \A j \in DOMAIN written'[e] :
               \/ j \in DOMAIN written[e] /\ written'[e][j] = written[e][j]
               \/ written'[e][j] = OperationBatch(e) /\ OperationBatch(e) # {}
         /\ \A j \in DOMAIN written[e] : j \in DOMAIN written'[e] /\ written'[e][j] = written[e][j]
<1>1. CASE written'[e] = written[e]
  BY <1>1
<1>2. CASE OperationBatch(e) # {} /\ written'[e] = Append(written[e], OperationBatch(e))
  <2> DEFINE s == written[e]
             t == written'[e]
  <2>1. s \in Seq(SUBSET Operations) /\ OperationBatch(e) \in SUBSET Operations
    BY BatchInHand DEF TypeOK, Operations
  <2>2. t \in Seq(SUBSET Operations) /\ Len(t) = Len(s) + 1 /\ (\A i \in 1..Len(s) : t[i] = s[i]) /\ t[Len(s) + 1] = OperationBatch(e)
    BY <1>2, <2>1, AppendProperties
  <2>3. DOMAIN s = 1..Len(s) /\ DOMAIN t = 1..Len(t) /\ Len(s) \in Nat
    BY <2>1, <2>2, LenProperties
  <2> HIDE DEF s, t
  <2>4. \A j \in DOMAIN t : (j \in DOMAIN s /\ t[j] = s[j]) \/ t[j] = OperationBatch(e)
    BY <2>2, <2>3
  <2>5. \A j \in DOMAIN s : j \in DOMAIN t /\ t[j] = s[j]
    BY <2>2, <2>3
  <2> QED BY <1>2, <2>4, <2>5 DEF s, t
<1> QED BY <1>1, <1>2 DEF Moves

LEMMA MovesKeepOrder ==
  ASSUME WriterInv, NEW e \in Executors, Moves(e)
  PROVE  WrittenOK(e)' /\ Same(e)'
<1> DEFINE B == OperationBatch(e)
<1>1. TypeOK /\ CallOK(e) /\ WrittenOK(e) /\ Same(e)
  BY DEF WriterInv
<1>2. B \subseteq InHand(e) /\ B \subseteq 1..dequeued /\ OneKey(B) /\ (B # {} => Cardinality(B) \in 1..BatchSize)
  BY <1>1, BatchInHand
<1>3. keys' = keys /\ dequeued' = dequeued /\ InHand(e)' \subseteq InHand(e)
  BY DEF Moves
<1>4. \A j \in DOMAIN written'[e] : written'[e][j] = B \/ (j \in DOMAIN written[e] /\ written'[e][j] = written[e][j])
  BY <1>1, Appended
<1>5. ASSUME NEW j \in DOMAIN written'[e]
      PROVE  /\ written'[e][j] # {} /\ Cardinality(written'[e][j]) \in 1..BatchSize
             /\ written'[e][j] \subseteq 1..dequeued /\ OneKey(written'[e][j])
  <2>1. CASE j \in DOMAIN written[e] /\ written'[e][j] = written[e][j]
    BY <1>1, <2>1 DEF WrittenOK
  <2>2. CASE written'[e][j] = B /\ B # {}
    BY <1>2, <2>2
  <2> QED BY <1>1, <2>1, <2>2, Appended
<1>7. ASSUME NEW j \in DOMAIN written'[e], written'[e][j] # B
      PROVE  /\ written'[e][j] \cap InHand(e)' = {}
             /\ \A n \in written'[e][j], m \in InHand(e)' : keys[m] = keys[n] => n < m
  BY <1>1, <1>3, <1>4, <1>7 DEF WrittenOK
<1>8. ASSUME NEW j \in DOMAIN written'[e], written'[e][j] = B, B' # B
      PROVE  /\ written'[e][j] \cap InHand(e)' = {}
             /\ \A n \in written'[e][j], m \in InHand(e)' : keys[m] = keys[n] => n < m
  BY <1>8 DEF Moves
<1>9. WrittenOK(e)'
  BY <1>3, <1>5, <1>7, <1>8 DEF WrittenOK, OneKey
<1>10. Same(e)'
  <2> SUFFICES ASSUME NEW j \in DOMAIN written'[e], NEW k \in DOMAIN written'[e],
                      written'[e][j] \cap written'[e][k] # {}
               PROVE  written'[e][j] = written'[e][k]
    BY DEF Same
  <2>1. CASE written'[e][j] = B /\ written'[e][k] # B
    BY <1>1, <1>2, <1>4, <2>1 DEF WrittenOK
  <2>2. CASE written'[e][j] # B /\ written'[e][k] = B
    BY <1>1, <1>2, <1>4, <2>2 DEF WrittenOK
  <2>3. CASE written'[e][j] # B /\ written'[e][k] # B
    BY <1>1, <1>4, <2>3 DEF Same
  <2> QED BY <2>1, <2>2, <2>3
<1> QED BY <1>9, <1>10

LEMMA MovesKeepApart ==
  ASSUME WriterInv, NEW e \in Executors, Moves(e), NEW d \in Executors, d # e
  PROVE  Apart(d, e)' /\ Apart(e, d)' /\ WrittenOK(d)' /\ Same(d)'
<1> DEFINE B == OperationBatch(e)
<1>1. TypeOK /\ CallOK(e) /\ Apart(d, e) /\ Apart(e, d) /\ WrittenOK(d) /\ Same(d)
  BY DEF WriterInv
<1>2. B \subseteq InHand(e)
  BY <1>1, BatchInHand
<1>3. /\ keys' = keys /\ dequeued' = dequeued /\ InHand(e)' \subseteq InHand(e)
      /\ InHand(d)' = InHand(d) /\ written'[d] = written[d] /\ OperationBatch(d)' = OperationBatch(d)
  BY DEF Moves
<1>4. \A j \in DOMAIN written'[e] : written'[e][j] = B \/ (j \in DOMAIN written[e] /\ written'[e][j] = written[e][j])
  BY <1>1, Appended
<1>5. WrittenOK(d)' /\ Same(d)'
  BY <1>1, <1>3 DEF WrittenOK, Same, OneKey
<1>6. \A j \in DOMAIN written'[e] : /\ written'[e][j] \cap InHand(d) = {}
                                    /\ \A k \in DOMAIN written[d] : written'[e][j] \cap written[d][k] = {}
  BY <1>1, <1>2, <1>4 DEF Apart
<1>7. Apart(d, e)' /\ Apart(e, d)'
  BY <1>1, <1>3, <1>6 DEF Apart
<1> QED BY <1>5, <1>7

-----------------------------------------------------------------------------
(* The steps of Execute.                                                   *)

Untouched(d) == /\ pc'[d] = pc[d] /\ toExecute'[d] = toExecute[d] /\ groups'[d] = groups[d]
                /\ current'[d] = current[d] /\ batch'[d] = batch[d] /\ written'[d] = written[d]

LEMMA UntouchedHands ==
  ASSUME NEW d \in Executors, Untouched(d)
  PROVE  /\ InHand(d)' = InHand(d) /\ OperationBatch(d)' = OperationBatch(d)
         /\ UNCHANGED <<keys, dequeued>> /\ CallOK(d) => CallOK(d)'
<1>1. InHand(d)' = InHand(d) /\ OperationBatch(d)' = OperationBatch(d)
  BY DEF Untouched, InHand, OperationBatch
<1>2. ASSUME UNCHANGED <<keys, dequeued>>, CallOK(d) PROVE CallOK(d)'
  BY <1>1, <1>2 DEF CallOK, Untouched, OneKey, Separate
<1> QED BY <1>1, <1>2

\* The threads that do not take the step have what they had.
Only(e) == \A d \in Executors \ {e} : Untouched(d)

LEMMA OthersKept ==
  ASSUME WriterInv, NEW e \in Executors, Only(e), UNCHANGED <<keys, dequeued>>
  PROVE  \A d \in Executors \ {e} : /\ InHand(d)' = InHand(d) /\ OperationBatch(d)' = OperationBatch(d)
                                    /\ written'[d] = written[d] /\ CallOK(d)'
  BY UntouchedHands DEF Only, Untouched, WriterInv

LEMMA Bounds ==
  ASSUME WriterInv, NEW e \in Executors
  PROVE  /\ dequeued \in Nat /\ Len(keys) \in Nat /\ dequeued <= Len(keys) /\ Len(keys) <= MaxOperations
         /\ 1..dequeued \subseteq Operations /\ InHand(e) \in SUBSET Operations
         /\ current[e] \in Seq(Operations) /\ batch[e] \in Nat
<1>1. dequeued \in Nat /\ Len(keys) \in Nat /\ dequeued <= Len(keys) /\ Len(keys) <= MaxOperations
  BY LenProperties DEF WriterInv, TypeOK
<1>2. 1..dequeued \subseteq Operations
  BY <1>1, ConstantsType DEF Operations
<1> QED BY <1>1, <1>2 DEF WriterInv, CallOK, TypeOK, Operations

LEMMA CountKeeps ==
  ASSUME WriterInv, NEW e \in Executors, Count(e)
  PROVE  TypeOK' /\ CallOK(e)' /\ Moves(e) /\ Only(e) /\ UNCHANGED <<keys, dequeued>>
<1> USE DEF Count, queueVars, tableVars
<1>1. OutstandingOperations \in 0..MaxOperations
  BY Bounds, ConstantsType DEF OutstandingOperations
<1>2. TypeOK'
  BY <1>1 DEF WriterInv, TypeOK
<1>3. Only(e) /\ InHand(e)' = InHand(e) /\ OperationBatch(e)' = OperationBatch(e)
  BY DEF Only, Untouched, InHand, OperationBatch, WriterInv, TypeOK
<1>4. CallOK(e)'
  BY <1>3 DEF WriterInv, CallOK, TypeOK, OneKey, Separate
<1>5. Moves(e)
  BY <1>3, OthersKept DEF Moves
<1> QED BY <1>2, <1>3, <1>4, <1>5

LEMMA GroupKeeps ==
  ASSUME WriterInv, NEW e \in Executors, Group(e)
  PROVE  TypeOK' /\ CallOK(e)' /\ Moves(e) /\ Only(e) /\ UNCHANGED <<keys, dequeued>>
<1> USE DEF Group, queueVars, tableVars
<1>1. TypeOK /\ CallOK(e) /\ toExecute[e] \in SUBSET Operations
  BY DEF WriterInv, TypeOK, Operations
<1>2. /\ GroupByKey(toExecute[e]) \in SUBSET SUBSET Operations
      /\ UNION GroupByKey(toExecute[e]) = toExecute[e] /\ Separate(GroupByKey(toExecute[e]))
  BY <1>1, GroupsByKey
<1>3. TypeOK'
  BY <1>1, <1>2 DEF TypeOK, Operations
<1>4. /\ pc'[e] = "executing" /\ toExecute'[e] = {} /\ groups'[e] = GroupByKey(toExecute[e])
      /\ current'[e] = <<>> /\ batch'[e] = 0 /\ groups[e] = {} /\ current[e] = <<>> /\ batch[e] = 0
  BY <1>1 DEF TypeOK, CallOK
<1>5. InHand(e) = toExecute[e] /\ InHand(e)' = toExecute[e] /\ OperationBatch(e)' = OperationBatch(e)
  BY <1>2, <1>4, NoOperations DEF InHand, OperationBatch
<1>6. CallOK(e)'
  BY <1>1, <1>2, <1>4, <1>5, NoOperations DEF CallOK, OneKey, Separate
<1>7. Only(e)
  BY <1>1 DEF Only, Untouched, TypeOK
<1>8. Moves(e)
  BY <1>5, <1>7, OthersKept DEF Moves
<1> QED BY <1>3, <1>6, <1>7, <1>8

LEMMA NothingLeft ==
  ASSUME WriterInv, NEW e \in Executors, GroupDone(e)
  PROVE  InHand(e) = UNION groups[e] /\ toExecute[e] = {} /\ OperationBatch(e) = {}
<1>1. TypeOK /\ CallOK(e) /\ toExecute[e] = {} /\ OperationBatch(e) = {}
  BY DEF WriterInv, CallOK, GroupDone
<1>2. Rest(current[e], batch[e]) = {}
  BY <1>1, Bounds, BatchProperties DEF OperationBatch, CallOK
<1> QED BY <1>1, <1>2 DEF InHand

LEMMA NextGroupKeeps ==
  ASSUME WriterInv, NEW e \in Executors, NextGroup(e)
  PROVE  TypeOK' /\ CallOK(e)' /\ Moves(e) /\ Only(e) /\ UNCHANGED <<keys, dequeued>>
<1> USE DEF queueVars, tableVars
<1>1. PICK g \in groups[e] : /\ \E s \in ToList(g) : current' = [current EXCEPT ![e] = s]
                             /\ groups' = [groups EXCEPT ![e] = groups[e] \ {g}]
  BY DEF NextGroup
<1>2. PICK s \in ToList(g) : current' = [current EXCEPT ![e] = s]
  BY <1>1
<1>3. /\ GroupDone(e) /\ batch' = [batch EXCEPT ![e] = 0]
      /\ UNCHANGED <<queueVars, pc, count, toExecute, retry, tableVars>>
  BY DEF NextGroup, FirstBatch
<1>4. TypeOK /\ CallOK(e) /\ g \in SUBSET Operations /\ pc[e] = "executing"
  BY <1>1, <1>3 DEF WriterInv, TypeOK, Operations, GroupDone
<1>5. s \in Seq(Operations) /\ Increasing(s) /\ Elements(s) = g /\ Rest(s, 0) = g
  BY <1>2, <1>4, ListOfGroup
<1>6. TypeOK'
  BY <1>1, <1>2, <1>3, <1>4, <1>5 DEF TypeOK, Operations
<1>7. /\ pc'[e] = "executing" /\ toExecute'[e] = {} /\ groups'[e] = groups[e] \ {g}
      /\ current'[e] = s /\ batch'[e] = 0
  BY <1>1, <1>2, <1>3, <1>4, NothingLeft DEF TypeOK
<1>8. InHand(e)' = UNION groups[e]
  BY <1>1, <1>5, <1>7 DEF InHand
<1>9. InHand(e)' = InHand(e) /\ OperationBatch(e) = {}
  BY <1>3, <1>8, NothingLeft
<1>10. CallOK(e)'
  <2>1. InHand(e)' \subseteq 1..dequeued' /\ Elements(s) \subseteq 1..dequeued'
    BY <1>1, <1>3, <1>4, <1>5, <1>8, <1>9 DEF CallOK
  <2>2. OneKey(g) /\ Separate(groups[e] \ {g}) /\ \A m \in g, n \in UNION (groups[e] \ {g}) : keys[m] # keys[n]
    BY <1>1, <1>4 DEF CallOK, Separate
  <2>3. OneKey(g)' /\ (Separate(groups[e])' => TRUE) /\ keys' = keys
    BY <1>3, <2>2 DEF OneKey
  <2>4. Separate(groups'[e]) /\ OneKey(Elements(current'[e])) /\ \A m \in Elements(current'[e]), n \in UNION groups'[e] : keys[m] # keys[n]
    BY <1>5, <1>7, <2>2
  <2> QED BY <1>5, <1>7, <2>1, <2>3, <2>4 DEF CallOK, Separate, OneKey
<1>11. Only(e)
  BY <1>1, <1>2, <1>3, <1>4 DEF Only, Untouched, TypeOK
<1>12. Moves(e)
  BY <1>3, <1>9, <1>11, OthersKept DEF Moves
<1> QED BY <1>3, <1>6, <1>10, <1>11, <1>12

LEMMA ReturnKeeps ==
  ASSUME WriterInv, NEW e \in Executors, Return(e)
  PROVE  TypeOK' /\ CallOK(e)' /\ Moves(e) /\ Only(e) /\ UNCHANGED <<keys, dequeued>>
<1> USE DEF Return, queueVars, tableVars
<1>1. TypeOK /\ CallOK(e)
  BY DEF WriterInv
<1>2. <<>> \in Seq(1..MaxOperations)
  BY EmptySeq
<1>3. TypeOK'
  BY <1>1, <1>2 DEF TypeOK
<1>4. /\ pc'[e] = "idle" /\ current'[e] = <<>> /\ batch'[e] = 0 /\ groups[e] = {} /\ groups'[e] = {}
      /\ toExecute'[e] = toExecute[e]
  BY <1>1 DEF TypeOK
<1>5. InHand(e) = {} /\ toExecute[e] = {} /\ OperationBatch(e) = {}
  BY <1>4, NothingLeft
<1>6. InHand(e)' = {}
  BY <1>4, <1>5, NoOperations DEF InHand
<1>7. CallOK(e)'
  BY <1>4, <1>5, <1>6, NoOperations DEF CallOK, OneKey, Separate
<1>8. Only(e)
  BY <1>1 DEF Only, Untouched, TypeOK
<1>9. Moves(e)
  BY <1>5, <1>6, <1>8, OthersKept DEF Moves
<1> QED BY <1>3, <1>7, <1>8, <1>9

LEMMA Replaced ==
  ASSUME NEW S, NEW f \in [Executors -> S], NEW e \in Executors, NEW x \in S,
         NEW g, g = [f EXCEPT ![e] = x]
  PROVE  g \in [Executors -> S] /\ g[e] = x /\ \A d \in Executors \ {e} : g[d] = f[d]
  OBVIOUS

\* The batch that is out, and what is in hand of e without it.
LEMMA BatchSent ==
  ASSUME WriterInv, NEW e \in Executors, Sending(e)
  PROVE  /\ toExecute[e] = {} /\ pc[e] = "executing" /\ OperationBatch(e) # {}
         /\ written[e] \in Seq(SUBSET Operations) /\ OperationBatch(e) \in SUBSET Operations
         /\ Append(written[e], OperationBatch(e)) \in Seq(SUBSET Operations)
<1>1. TypeOK /\ CallOK(e) /\ toExecute[e] = {} /\ pc[e] = "executing" /\ OperationBatch(e) # {}
  BY DEF WriterInv, CallOK, Sending
<1>2. written[e] \in Seq(SUBSET Operations) /\ OperationBatch(e) \in SUBSET Operations
  BY <1>1, BatchInHand DEF TypeOK, Operations
<1>3. Append(written[e], OperationBatch(e)) \in Seq(SUBSET Operations)
  BY <1>2, AppendProperties
<1> QED BY <1>1, <1>2, <1>3

LEMMA BatchSucceedsKeeps ==
  ASSUME WriterInv, NEW e \in Executors, BatchSucceeds(e)
  PROVE  TypeOK' /\ CallOK(e)' /\ Moves(e) /\ Only(e) /\ UNCHANGED <<keys, dequeued>>
<1> DEFINE B == OperationBatch(e)
<1>1. TypeOK /\ CallOK(e) /\ Sending(e)
  BY DEF WriterInv, BatchSucceeds
<1>2. /\ written' = [written EXCEPT ![e] = Append(written[e], B)] /\ done' = done \cup B
      /\ batch' = [batch EXCEPT ![e] = batch[e] + 1] /\ retry' = [retry EXCEPT ![e] = 0]
      /\ UNCHANGED <<keys, dequeued, pc, count, toExecute, groups, current, lost, faults>>
  BY DEF BatchSucceeds, Taken, queueVars
<1>3. TypeOK'
  <2>1. written \in [Executors -> Seq(SUBSET Operations)]
    BY <1>1 DEF TypeOK, Operations
  <2>2. written' \in [Executors -> Seq(SUBSET Operations)]
    BY <1>1, <1>2, <2>1, BatchSent, Replaced
  <2>3. done' \in SUBSET Operations
    BY <1>1, <1>2, BatchSent DEF TypeOK, Operations
  <2>4. batch' \in [Executors -> Nat] /\ retry' \in [Executors -> 0..Retries]
    BY <1>1, <1>2, ConstantsType DEF TypeOK
  <2> QED BY <1>1, <1>2, <2>2, <2>3, <2>4 DEF TypeOK, Operations
<1>4. written'[e] = Append(written[e], B) /\ batch'[e] = batch[e] + 1 /\ batch[e] \in Nat /\ current[e] \in Seq(Operations)
  BY <1>1, <1>2 DEF TypeOK, Operations
<1>5. /\ B \subseteq Rest(current[e], batch[e]) /\ Rest(current[e], batch[e]) \subseteq Elements(current[e])
      /\ Rest(current[e], batch[e] + 1) = Rest(current[e], batch[e]) \ B
      /\ \A m \in B, n \in Rest(current[e], batch[e] + 1) : m < n
  BY <1>1, <1>4, BatchProperties DEF OperationBatch, CallOK
<1>6. InHand(e) = Rest(current[e], batch[e]) \cup UNION groups[e]
  BY <1>1, BatchSent DEF InHand
<1>7. InHand(e)' = Rest(current[e], batch[e] + 1) \cup UNION groups[e]
  BY <1>1, <1>2, <1>4, BatchSent DEF InHand
<1>8. B \cap UNION groups[e] = {} /\ \A n \in B, m \in UNION groups[e] : keys[m] # keys[n]
  BY <1>1, <1>5 DEF CallOK
<1>9. InHand(e)' = InHand(e) \ B /\ B \subseteq InHand(e)
  BY <1>5, <1>6, <1>7, <1>8
<1>10. CallOK(e)'
  <2>1. InHand(e)' \subseteq 1..dequeued'
    BY <1>1, <1>2, <1>9 DEF CallOK
  <2> QED BY <1>1, <1>2, <1>4, <2>1, BatchSent DEF CallOK, OneKey, Separate
<1>11. Only(e)
  BY <1>1, <1>2 DEF Only, Untouched, TypeOK
<1>12. \A n \in B, m \in InHand(e)' : m # n /\ (keys[m] = keys[n] => n < m)
  BY <1>5, <1>7, <1>8, <1>9
<1>13. Moves(e)
  <2>1. InHand(e) \ InHand(e)' = B /\ InHand(e)' \subseteq InHand(e)
    BY <1>9
  <2>2. \A d \in Executors \ {e} :
          InHand(d)' = InHand(d) /\ OperationBatch(d)' = OperationBatch(d) /\ written'[d] = written[d]
    BY <1>2, <1>11, OthersKept
  <2> QED BY <1>1, <1>2, <1>4, <1>12, <2>1, <2>2, BatchSent DEF Moves
<1> QED BY <1>2, <1>3, <1>10, <1>11, <1>13

\* The table may have taken the batch.
MaybeTaken(e) == written' = written \/ written' = [written EXCEPT ![e] = Append(written[e], OperationBatch(e))]

LEMMA MaybeTakenType ==
  ASSUME WriterInv, NEW e \in Executors, Sending(e), MaybeTaken(e)
  PROVE  /\ written' \in [Executors -> Seq(SUBSET Operations)]
         /\ \A d \in Executors \ {e} : written'[d] = written[d]
         /\ written'[e] = written[e] \/ (OperationBatch(e) # {} /\ written'[e] = Append(written[e], OperationBatch(e)))
<1>1. written \in [Executors -> Seq(SUBSET Operations)]
  BY DEF WriterInv, TypeOK, Operations
<1>2. CASE written' = written
  BY <1>1, <1>2
<1>3. CASE written' = [written EXCEPT ![e] = Append(written[e], OperationBatch(e))]
  BY <1>1, <1>3, BatchSent, Replaced
<1> QED BY <1>2, <1>3 DEF MaybeTaken

LEMMA ThrowKeeps ==
  ASSUME WriterInv, NEW e \in Executors, Sending(e), Throw(e), MaybeTaken(e), Fault,
         UNCHANGED <<queueVars, count, toExecute, done>>
  PROVE  TypeOK' /\ CallOK(e)' /\ Moves(e) /\ Only(e) /\ UNCHANGED <<keys, dequeued>>
<1> USE DEF Throw, queueVars
<1>1. TypeOK /\ CallOK(e) /\ <<>> \in Seq(1..MaxOperations)
  BY EmptySeq DEF WriterInv
<1>2. lost' \in SUBSET (1..MaxOperations) /\ faults' \in 0..MaxFaults
  <2>1. InHand(e) \in SUBSET (1..MaxOperations)
    BY Bounds DEF Operations
  <2>2. faults' \in 0..MaxFaults
    BY <1>1, ConstantsType DEF Fault, TypeOK
  <2> QED BY <1>1, <2>1, <2>2 DEF TypeOK
<1>3. TypeOK'
  BY <1>1, <1>2, MaybeTakenType, ConstantsType DEF TypeOK, Operations
<1>4. /\ pc'[e] = "idle" /\ groups'[e] = {} /\ current'[e] = <<>> /\ batch'[e] = 0
      /\ toExecute'[e] = {}
  BY <1>1, BatchSent DEF TypeOK
<1>5. InHand(e)' = {}
  BY <1>4, NoOperations DEF InHand
<1>6. CallOK(e)'
  BY <1>4, <1>5, NoOperations DEF CallOK, OneKey, Separate
<1>7. Only(e)
  BY <1>1, MaybeTakenType DEF Only, Untouched, TypeOK
<1>8. Moves(e)
  <2>1. lost' = lost \cup (InHand(e) \ InHand(e)') /\ InHand(e)' \subseteq InHand(e)
    BY <1>5
  <2>2. \A n \in OperationBatch(e), m \in InHand(e)' : m # n /\ (keys[m] = keys[n] => n < m)
    BY <1>5
  <2> QED BY <1>7, <2>1, <2>2, OthersKept, MaybeTakenType DEF Moves
<1> QED BY <1>3, <1>6, <1>7, <1>8

LEMMA FailureKeeps ==
  ASSUME WriterInv, NEW e \in Executors, BatchRefused(e) \/ NoAnswer(e)
  PROVE  TypeOK' /\ CallOK(e)' /\ Moves(e) /\ Only(e) /\ UNCHANGED <<keys, dequeued>>
<1>1. CASE BatchRefused(e)
  BY <1>1, ThrowKeeps DEF BatchRefused, MaybeTaken
<1>2. CASE NoAnswer(e) /\ ~(retry[e] < Retries)
  BY <1>2, ThrowKeeps DEF NoAnswer, MaybeTaken, Taken
<1>3. CASE NoAnswer(e) /\ retry[e] < Retries
  <2>1. /\ Sending(e) /\ MaybeTaken(e) /\ Fault /\ retry' = [retry EXCEPT ![e] = retry[e] + 1]
        /\ UNCHANGED <<keys, dequeued, count, toExecute, done, pc, groups, current, batch, lost>>
    BY <1>3 DEF NoAnswer, MaybeTaken, Taken, queueVars
  <2>2. TypeOK /\ CallOK(e)
    BY DEF WriterInv
  <2>3. faults' \in 0..MaxFaults /\ retry' \in [Executors -> 0..Retries]
    BY <1>3, <2>1, <2>2, ConstantsType DEF Fault, TypeOK
  <2>4. TypeOK'
    BY <2>1, <2>2, <2>3, MaybeTakenType DEF TypeOK, Operations
  <2>5. Only(e)
    BY <2>1, MaybeTakenType DEF Only, Untouched
  <2>6. InHand(e)' = InHand(e) /\ OperationBatch(e)' = OperationBatch(e)
    BY <2>1 DEF InHand, OperationBatch
  <2>7. CallOK(e)'
    BY <2>1, <2>2, <2>6 DEF CallOK, OneKey, Separate
  <2>8. Moves(e)
    BY <2>1, <2>5, <2>6, OthersKept, MaybeTakenType DEF Moves
  <2> QED BY <2>1, <2>4, <2>5, <2>7, <2>8
<1> QED BY <1>1, <1>2, <1>3

LEMMA MovesKeep ==
  ASSUME WriterInv, NEW e \in Executors, TypeOK', CallOK(e)', Moves(e), Only(e)
  PROVE  WriterInv'
<1>1. UNCHANGED <<keys, dequeued>>
  BY DEF Moves
<1>2. \A d \in Executors : CallOK(d)'
  BY <1>1, OthersKept
<1>3. \A d \in Executors : WrittenOK(d)' /\ Same(d)'
  BY MovesKeepOrder, MovesKeepApart
<1>4. ASSUME NEW c \in Executors, NEW d \in Executors, c # d PROVE Apart(c, d)'
  <2>1. CASE c = e \/ d = e
    BY <1>4, <2>1, MovesKeepApart
  <2>2. CASE c # e /\ d # e
    <3>1. Apart(c, d) /\ Apart(d, c)
      BY <1>4 DEF WriterInv
    <3> QED BY <1>1, <2>2, <3>1, OthersKept DEF Apart
  <2> QED BY <2>1, <2>2
<1> QED BY <1>2, <1>3, <1>4, MovesKeepAccounts DEF WriterInv

-----------------------------------------------------------------------------
(* The steps that move the queue.                                          *)

LEMMA EnqueueKeeps ==
  ASSUME WriterInv, NEW p \in Partitions, Enqueue(p)
  PROVE  WriterInv'
<1> USE DEF Enqueue
<1>0. UNCHANGED <<dequeued, pc, count, toExecute, groups, current, batch, retry, written, done, lost, faults>>
  BY DEF callVars, tableVars
<1>1. /\ TypeOK /\ dequeued \in Nat /\ Len(keys) \in Nat /\ dequeued <= Len(keys)
      /\ keys' \in Seq(Partitions) /\ Len(keys') = Len(keys) + 1 /\ \A n \in 1..Len(keys) : keys'[n] = keys[n]
  BY AppendProperties, LenProperties DEF WriterInv, TypeOK
<1>2. TypeOK'
  BY <1>0, <1>1, ConstantsType DEF TypeOK
<1>3. \A n \in 1..dequeued : keys'[n] = keys[n]
  BY <1>1
<1>4. \A ops \in SUBSET (1..dequeued) : OneKey(ops) => \A m, n \in ops : keys'[m] = keys'[n]
  BY <1>3 DEF OneKey
<1>5. ASSUME NEW e \in Executors
      PROVE  /\ InHand(e)' = InHand(e) /\ OperationBatch(e)' = OperationBatch(e)
             /\ CallOK(e)' /\ WrittenOK(e)' /\ Same(e)'
  <2>1. InHand(e)' = InHand(e) /\ OperationBatch(e)' = OperationBatch(e)
    BY <1>0 DEF InHand, OperationBatch
  <2>2. /\ CallOK(e) /\ WrittenOK(e) /\ Same(e) /\ InHand(e) \subseteq 1..dequeued
        /\ Elements(current[e]) \subseteq 1..dequeued
    BY DEF WriterInv, CallOK
  <2>3. UNION groups[e] \subseteq 1..dequeued
    BY <2>2 DEF InHand
  <2>4. \A g \in groups[e] : OneKey(g) /\ g \in SUBSET (1..dequeued)
    BY <2>2, <2>3 DEF CallOK, Separate
  <2>5. Separate(groups[e])'
    <3>1. \A g \in groups[e] : \A m, n \in g : keys'[m] = keys'[n]
      BY <1>4, <2>4
    <3>2. ASSUME NEW g \in groups[e], NEW h \in groups[e], NEW m \in g, NEW n \in h, keys'[m] = keys'[n]
          PROVE  g = h
      <4>1. keys[m] = keys[n]
        BY <1>3, <2>4, <3>2
      <4> QED BY <2>2, <4>1 DEF CallOK, Separate
    <3> DEFINE gs == groups[e]
    <3>3. groups'[e] = gs /\ \A g \in gs : OneKey(g)'
      BY <1>0, <3>1 DEF OneKey
    <3>4. \A g, h \in gs : (\E m \in g, n \in h : keys'[m] = keys'[n]) => g = h
      BY <3>2
    <3> QED BY <3>3, <3>4 DEF Separate
  <2>6. CallOK(e)'
    <3>1. \A m, n \in Elements(current[e]) : keys'[m] = keys'[n]
      BY <1>4, <2>2 DEF CallOK
    <3>3. OneKey(Elements(current[e]))' /\ Elements(current[e])' = Elements(current[e])
      BY <1>0, <3>1 DEF OneKey
    <3>2. \A m \in Elements(current[e]), n \in UNION groups[e] : keys'[m] # keys'[n]
      BY <1>3, <2>2, <2>3 DEF CallOK
    <3> QED BY <1>0, <2>1, <2>2, <2>5, <3>2, <3>3 DEF CallOK
  <2>7. WrittenOK(e)'
    <3>1. ASSUME NEW j \in DOMAIN written[e], NEW n \in written[e][j], NEW m \in InHand(e)
          PROVE  keys'[m] = keys[m] /\ keys'[n] = keys[n]
      BY <1>3, <2>2 DEF WrittenOK
    <3>2. \A j \in DOMAIN written[e] : \A m, n \in written[e][j] : keys'[m] = keys'[n]
      BY <1>4, <2>2 DEF WrittenOK
    <3>3. \A j \in DOMAIN written[e] : OneKey(written[e][j])'
      BY <1>0, <3>2 DEF OneKey
    <3>4. \A j \in DOMAIN written[e] : written[e][j] # OperationBatch(e) =>
            \A n \in written[e][j], m \in InHand(e) : keys'[m] = keys'[n] => n < m
      BY <2>2, <3>1 DEF WrittenOK
    <3> QED BY <1>0, <2>1, <2>2, <3>3, <3>4 DEF WrittenOK
  <2> QED BY <1>0, <2>1, <2>2, <2>6, <2>7 DEF Same
<1>6. \A d, e \in Executors : d # e => Apart(d, e)'
  BY <1>0, <1>5 DEF Apart, WriterInv
<1>7. Accounted'
  BY <1>0, <1>5 DEF Accounted, WriterInv
<1> QED BY <1>2, <1>5, <1>6, <1>7 DEF WriterInv

\* An operation goes from the queue into the hands of e.
LEMMA DequeueKeeps ==
  ASSUME WriterInv, NEW e \in Executors, TryDequeue(e), OutstandingOperations > 0
  PROVE  WriterInv'
<1> DEFINE next == dequeued + 1
<1>1. /\ TypeOK /\ CallOK(e) /\ pc[e] = "dequeuing" /\ count[e] > 0
      /\ count' = [count EXCEPT ![e] = count[e] - 1] /\ dequeued' = next
      /\ toExecute' = [toExecute EXCEPT ![e] = toExecute[e] \cup {next}]
      /\ UNCHANGED <<keys, pc, groups, current, batch, retry, written, done, lost, faults>>
  BY DEF WriterInv, TryDequeue, TriesLeft, AfterDequeue, tableVars
<1>2. dequeued \in Nat /\ Len(keys) \in Nat /\ next <= Len(keys) /\ Len(keys) <= MaxOperations /\ next \in Operations
  BY Bounds, ConstantsType DEF OutstandingOperations, Operations
<1>3. TypeOK'
  <2> DEFINE taken == toExecute[e] \cup {next}
  <2>1. toExecute \in [Executors -> SUBSET Operations] /\ taken \in SUBSET Operations
    BY <1>1, <1>2 DEF TypeOK, Operations
  <2>3. toExecute' = [toExecute EXCEPT ![e] = taken]
    BY <1>1
  <2> HIDE DEF taken
  <2>4. toExecute' \in [Executors -> SUBSET Operations]
    BY <2>1, <2>3, Replaced
  <2>2. dequeued' \in 0..Len(keys)
    BY <1>1, <1>2
  <2>5. count \in [Executors -> 0..MaxOperations] /\ count[e] - 1 \in 0..MaxOperations
    BY <1>1, ConstantsType DEF TypeOK
  <2>6. count' \in [Executors -> 0..MaxOperations]
    BY <1>1, <2>5, Replaced
  <2> QED BY <1>1, <2>2, <2>4, <2>6 DEF TypeOK, Operations
<1>4. 1..dequeued' = 1..dequeued \cup {next} /\ next \notin 1..dequeued /\ \A n \in 1..dequeued : n < next
  BY <1>1, <1>2
<1>5. /\ groups[e] = {} /\ current[e] = <<>> /\ batch[e] = 0 /\ OperationBatch(e) = {}
      /\ toExecute'[e] = toExecute[e] \cup {next}
  BY <1>1, NoOperations DEF CallOK, OperationBatch, TypeOK
<1>6. InHand(e)' = InHand(e) \cup {next} /\ OperationBatch(e)' = OperationBatch(e)
  BY <1>1, <1>5 DEF InHand, OperationBatch
<1>7. \A d \in Executors \ {e} : InHand(d)' = InHand(d) /\ OperationBatch(d)' = OperationBatch(d)
  BY <1>1 DEF InHand, OperationBatch, TypeOK
<1>8. ASSUME NEW d \in Executors PROVE CallOK(d)'
  <2>1. CallOK(d) /\ InHand(d)' \subseteq 1..dequeued' /\ Elements(current[d]) \subseteq 1..dequeued'
    BY <1>4, <1>6, <1>7 DEF WriterInv, CallOK
  <2>2. pc[d] # "dequeuing" => toExecute'[d] = {}
    BY <1>1, <2>1 DEF CallOK, TypeOK
  <2> QED BY <1>1, <2>1, <2>2 DEF CallOK, OneKey, Separate
<1>9. ASSUME NEW d \in Executors PROVE WrittenOK(d)' /\ Same(d)'
  <2>1. WrittenOK(d) /\ Same(d) /\ keys' = keys /\ written' = written
    BY <1>1 DEF WriterInv
  <2>2. \A j \in DOMAIN written[d] : written[d][j] \subseteq 1..dequeued
    BY <2>1 DEF WrittenOK
  <2>3. InHand(d)' \subseteq InHand(d) \cup {next} /\ OperationBatch(d)' = OperationBatch(d)
    BY <1>6, <1>7
  <2>4. ASSUME NEW j \in DOMAIN written[d], written[d][j] # OperationBatch(d)
        PROVE  /\ written[d][j] \cap InHand(d)' = {}
               /\ \A n \in written[d][j], m \in InHand(d)' : keys[m] = keys[n] => n < m
    BY <1>4, <2>1, <2>2, <2>3, <2>4 DEF WrittenOK
  <2>5. \A j \in DOMAIN written[d] : written[d][j] \subseteq 1..dequeued'
    BY <1>4, <2>2
  <2> QED BY <2>1, <2>3, <2>4, <2>5 DEF WrittenOK, Same, OneKey
<1>10. ASSUME NEW c \in Executors, NEW d \in Executors, c # d PROVE Apart(c, d)'
  <2>1. Apart(c, d) /\ WrittenOK(c) /\ InHand(c) \subseteq 1..dequeued /\ InHand(d) \subseteq 1..dequeued
    BY <1>10 DEF WriterInv, CallOK
  <2>2. next \notin InHand(c) /\ next \notin InHand(d) /\ \A j \in DOMAIN written[c] : next \notin written[c][j]
    BY <1>4, <2>1 DEF WrittenOK
  <2>3. InHand(c)' \cap InHand(d)' = {}
    BY <1>6, <1>7, <1>10, <2>1, <2>2 DEF Apart
  <2>4. InHand(d)' \subseteq InHand(d) \cup {next}
    BY <1>6, <1>7
  <2> QED BY <1>1, <2>1, <2>2, <2>3, <2>4 DEF Apart
<1>11. Accounted'
  <2>1. Accounted /\ done' = done /\ lost' = lost /\ next \in InHand(e)'
    BY <1>1, <1>6 DEF WriterInv
  <2>2. \A d \in Executors : InHand(d) \subseteq InHand(d)' /\ InHand(d)' \subseteq InHand(d) \cup {next}
    BY <1>6, <1>7
  <2>3. next \notin done \cup lost
    BY <1>4, <2>1 DEF Accounted
  <2>4. \A n \in 1..dequeued' : n \in done \/ n \in lost \/ \E d \in Executors : n \in InHand(d)'
    BY <1>4, <2>1, <2>2 DEF Accounted
  <2>5. \A d \in Executors : InHand(d)' \cap (done \cup lost) = {}
    BY <2>1, <2>2, <2>3 DEF Accounted
  <2>6. done \subseteq 1..dequeued' /\ lost \subseteq 1..dequeued' /\ done \cap lost = {}
    BY <1>4, <2>1 DEF Accounted
  <2> QED BY <2>1, <2>4, <2>5, <2>6 DEF Accounted
<1> QED BY <1>3, <1>8, <1>9, <1>10, <1>11 DEF WriterInv

\* Another thread was faster.
LEMMA NoOperationKeeps ==
  ASSUME WriterInv, NEW e \in Executors, TryDequeue(e), ~(OutstandingOperations > 0)
  PROVE  TypeOK' /\ CallOK(e)' /\ Moves(e) /\ Only(e)
<1>1. /\ TypeOK /\ CallOK(e) /\ count[e] > 0
      /\ count' = [count EXCEPT ![e] = count[e] - 1]
      /\ toExecute' = [toExecute EXCEPT ![e] = toExecute[e]]
      /\ UNCHANGED <<keys, dequeued, pc, groups, current, batch, retry, written, done, lost, faults>>
  BY DEF WriterInv, TryDequeue, TriesLeft, AfterDequeue, tableVars
<1>2. toExecute' = toExecute
  BY <1>1 DEF TypeOK
<1>3. TypeOK'
  BY <1>1, <1>2, ConstantsType DEF TypeOK
<1>4. Only(e) /\ InHand(e)' = InHand(e) /\ OperationBatch(e)' = OperationBatch(e)
  BY <1>1, <1>2 DEF Only, Untouched, InHand, OperationBatch
<1>5. CallOK(e)'
  BY <1>1, <1>2, <1>4 DEF CallOK, OneKey, Separate
<1>6. Moves(e)
  BY <1>1, <1>4, OthersKept DEF Moves
<1> QED BY <1>3, <1>4, <1>5, <1>6

-----------------------------------------------------------------------------
(* Theorems.                                                               *)

LEMMA InitWriterInv == Init => WriterInv
<1> SUFFICES ASSUME Init PROVE WriterInv
  OBVIOUS
<1> USE DEF Init
<1>1. TypeOK
  <2>1. <<>> \in Seq(Partitions) /\ Len(<<>>) = 0 /\ <<>> \in Seq(1..MaxOperations) /\ <<>> \in Seq(SUBSET (1..MaxOperations))
    BY EmptySeq
  <2> QED BY <2>1, ConstantsType DEF TypeOK
<1>2. \A e \in Executors : InHand(e) = {} /\ written[e] = <<>> /\ DOMAIN <<>> = {}
  BY NoOperations DEF InHand
<1>3. \A e \in Executors : CallOK(e)
  BY <1>2, NoOperations DEF CallOK, OneKey, Separate
<1>4. \A e \in Executors : WrittenOK(e) /\ Same(e)
  BY <1>2 DEF WrittenOK, Same
<1>5. \A d, e \in Executors : Apart(d, e)
  BY <1>2 DEF Apart
<1>6. Accounted
  BY <1>2 DEF Accounted
<1> QED BY <1>1, <1>3, <1>4, <1>5, <1>6 DEF WriterInv

LEMMA NextWriterInv == WriterInv /\ [Next]_vars => WriterInv'
<1> SUFFICES ASSUME WriterInv, [Next]_vars PROVE WriterInv'
  OBVIOUS
<1>1. ASSUME NEW p \in Partitions, Enqueue(p) PROVE WriterInv'
  BY <1>1, EnqueueKeeps
<1>2. ASSUME NEW e \in Executors, Count(e) PROVE WriterInv'
  BY <1>2, CountKeeps, MovesKeep
<1>3. ASSUME NEW e \in Executors, TryDequeue(e) PROVE WriterInv'
  <2>1. CASE OutstandingOperations > 0
    BY <1>3, <2>1, DequeueKeeps
  <2>2. CASE ~(OutstandingOperations > 0)
    BY <1>3, <2>2, NoOperationKeeps, MovesKeep
  <2> QED BY <2>1, <2>2
<1>4. ASSUME NEW e \in Executors, Group(e) \/ NextGroup(e) \/ Return(e) PROVE WriterInv'
  BY <1>4, GroupKeeps, NextGroupKeeps, ReturnKeeps, MovesKeep
<1>5. ASSUME NEW e \in Executors, BatchSucceeds(e) \/ BatchRefused(e) \/ NoAnswer(e) PROVE WriterInv'
  BY <1>5, BatchSucceedsKeeps, FailureKeeps, MovesKeep
<1>6. CASE UNCHANGED vars
  <2>1. UNCHANGED <<keys, dequeued, pc, count, toExecute, groups, current, batch, retry, written, done, lost, faults>>
    BY <1>6 DEF vars, queueVars, callVars, tableVars
  <2>2. \A e \in Executors : InHand(e)' = InHand(e) /\ OperationBatch(e)' = OperationBatch(e)
    BY <2>1 DEF InHand, OperationBatch
  <2>3. TypeOK' /\ Accounted'
    BY <2>1, <2>2 DEF WriterInv, TypeOK, Accounted
  <2>4. \A e \in Executors : CallOK(e)'
    BY <2>1, <2>2 DEF WriterInv, CallOK, OneKey, Separate
  <2>5. \A e \in Executors : WrittenOK(e)' /\ Same(e)'
    BY <2>1, <2>2 DEF WriterInv, WrittenOK, Same, OneKey
  <2>6. \A d, e \in Executors : d # e => Apart(d, e)'
    BY <2>1, <2>2 DEF WriterInv, Apart
  <2> QED BY <2>3, <2>4, <2>5, <2>6 DEF WriterInv
<1> QED BY <1>1, <1>2, <1>3, <1>4, <1>5, <1>6 DEF Next, Execute

LEMMA WriterInvariant == Spec => []WriterInv
  BY InitWriterInv, NextWriterInv, PTL DEF Spec

\* The queue, the threads and the table keep their types.
THEOREM TypeCorrect == Spec => []TypeOK
<1>1. WriterInv => TypeOK
  BY DEF WriterInv
<1> QED BY <1>1, WriterInvariant, PTL

\* What has been answered is in the table.
Acknowledged == done \subseteq InTable

LEMMA InTableMember ==
  ASSUME NEW n
  PROVE  n \in InTable <=> \E e \in Executors : \E j \in DOMAIN written[e] : n \in written[e][j]
  BY DEF InTable, Elements

\* Nothing that was written disappears.
LEMMA TableGrows ==
  ASSUME WriterInv, [Next]_vars
  PROVE  InTable \subseteq InTable'
<1>1. ASSUME NEW e \in Executors, Moves(e) PROVE InTable \subseteq InTable'
  <2> SUFFICES ASSUME NEW d \in Executors, NEW j \in DOMAIN written[d], NEW n \in written[d][j]
               PROVE  \E k \in DOMAIN written'[d] : n \in written'[d][k]
    BY DEF InTable, Elements
  <2>1. TypeOK /\ CallOK(e)
    BY DEF WriterInv
  <2>2. CASE d = e
    BY <1>1, <2>1, <2>2, Appended
  <2>3. CASE d # e
    BY <1>1, <2>3 DEF Moves
  <2> QED BY <2>2, <2>3
<1>2. ASSUME NEW e \in Executors,
             Count(e) \/ Group(e) \/ NextGroup(e) \/ Return(e) \/ BatchSucceeds(e) \/ BatchRefused(e) \/ NoAnswer(e)
      PROVE  Moves(e)
  BY <1>2, CountKeeps, GroupKeeps, NextGroupKeeps, ReturnKeeps, BatchSucceedsKeeps, FailureKeeps
<1>3. ASSUME written' = written PROVE InTable \subseteq InTable'
  BY <1>3 DEF InTable
<1>4. ASSUME NEW p \in Partitions, Enqueue(p) PROVE written' = written
  BY <1>4 DEF Enqueue, tableVars
<1>5. ASSUME NEW e \in Executors, TryDequeue(e) PROVE written' = written
  BY <1>5 DEF TryDequeue, tableVars
<1>6. CASE UNCHANGED vars
  BY <1>3, <1>6 DEF vars, tableVars
<1> QED BY <1>1, <1>2, <1>3, <1>4, <1>5, <1>6 DEF Next, Execute

LEMMA AlwaysAcknowledged == Spec => []Acknowledged
<1>1. Init => Acknowledged
  BY DEF Init, Acknowledged
<1>2. WriterInv /\ Acknowledged /\ [Next]_vars => Acknowledged'
  <2> SUFFICES ASSUME WriterInv, Acknowledged, [Next]_vars PROVE Acknowledged'
    OBVIOUS
  <2>1. ASSUME done' = done PROVE Acknowledged'
    BY <2>1, TableGrows DEF Acknowledged
  <2>2. ASSUME NEW e \in Executors, BatchSucceeds(e) PROVE Acknowledged'
    <3>1. done' = done \cup OperationBatch(e) /\ written' = [written EXCEPT ![e] = Append(written[e], OperationBatch(e))]
      BY <2>2 DEF BatchSucceeds, Taken
    <3>2. OperationBatch(e) \subseteq InTable'
      <4> DEFINE B == OperationBatch(e)
      <4>1. Sending(e) /\ written \in [Executors -> Seq(SUBSET Operations)]
        BY <2>2 DEF BatchSucceeds, WriterInv, TypeOK, Operations
      <4>2. written[e] \in Seq(SUBSET Operations) /\ B \in SUBSET Operations
        BY <4>1, BatchSent
      <4>3. written'[e] = Append(written[e], B)
        BY <3>1, <4>1, <4>2, BatchSent, Replaced
      <4> HIDE DEF B
      <4>4. \E j \in DOMAIN written'[e] : written'[e][j] = B
        <5> DEFINE t == Append(written[e], B)
        <5>1. t \in Seq(SUBSET Operations) /\ Len(t) = Len(written[e]) + 1 /\ t[Len(written[e]) + 1] = B
          BY <4>2, AppendProperties
        <5>2. DOMAIN t = 1..Len(t) /\ Len(written[e]) \in Nat
          BY <4>2, <5>1, LenProperties
        <5> HIDE DEF t
        <5>3. Len(written[e]) + 1 \in DOMAIN t
          BY <5>1, <5>2
        <5> QED BY <4>3, <5>1, <5>3 DEF t
      <4> QED BY <4>4 DEF InTable, Elements, B
    <3> QED BY <3>1, <3>2, TableGrows DEF Acknowledged
  <2>3. ASSUME NEW e \in Executors,
               Count(e) \/ TryDequeue(e) \/ Group(e) \/ NextGroup(e) \/ Return(e) \/ BatchRefused(e) \/ NoAnswer(e)
        PROVE  done' = done
    BY <2>3 DEF Count, TryDequeue, Group, NextGroup, Return, BatchRefused, NoAnswer, tableVars
  <2>4. ASSUME NEW p \in Partitions, Enqueue(p) PROVE done' = done
    BY <2>4 DEF Enqueue, tableVars
  <2>5. CASE UNCHANGED vars
    BY <2>1, <2>5 DEF vars, tableVars
  <2> QED BY <2>1, <2>2, <2>3, <2>4, <2>5 DEF Next, Execute
<1> QED BY <1>1, <1>2, WriterInvariant, PTL DEF Spec

\* Every operation is queued, in hand of one Execute, done, or dropped by an
\* Execute that threw, and in no two of these: none is skipped between batches
\* or groups and none taken twice, for any number of threads.  What is done is in
\* the table, and nothing else is but what was dropped and batches that are out.
THEOREM OperationsAccountedFor == Spec => []EveryOperationAccountedFor
<1>1. WriterInv /\ Acknowledged => EveryOperationAccountedFor
  <2> SUFFICES ASSUME WriterInv, Acknowledged PROVE EveryOperationAccountedFor
    OBVIOUS
  <2> DEFINE Queued == (dequeued + 1)..Len(keys)
             InHands == UNION {InHand(e) : e \in Executors}
  <2>1. dequeued \in Nat /\ Len(keys) \in Nat /\ dequeued <= Len(keys)
    BY LenProperties DEF WriterInv, TypeOK
  <2>2. 1..Len(keys) = Queued \cup 1..dequeued /\ Queued \cap 1..dequeued = {}
    BY <2>1
  <2>3. InHands \subseteq 1..dequeued
    BY DEF WriterInv, CallOK
  <2>4. InHands \cup done \cup lost = 1..dequeued
    BY <2>3 DEF WriterInv, Accounted
  <2>5. InHands \cap (done \cup lost) = {} /\ done \cap lost = {}
    BY DEF WriterInv, Accounted
  <2>6. \A d, e \in Executors : d # e => InHand(d) \cap InHand(e) = {}
    BY DEF WriterInv, Apart
  <2>8. Queued \cap InTable = {}
    <3>1. InTable \subseteq 1..dequeued
      BY InTableMember DEF WriterInv, WrittenOK
    <3> QED BY <2>2, <3>1
  <2>9. ASSUME NEW e \in Executors PROVE InHand(e) \cap InTable \subseteq OperationBatch(e)
    <3> SUFFICES ASSUME NEW d \in Executors, NEW j \in DOMAIN written[d], NEW n \in written[d][j] \cap InHand(e)
                 PROVE  n \in OperationBatch(e)
      BY InTableMember
    <3>1. d = e
      BY DEF WriterInv, Apart
    <3> QED BY <3>1 DEF WriterInv, WrittenOK
  <2> HIDE DEF Queued, InHands
  <2>7. /\ Queued \cup InHands \cup done \cup lost = 1..Len(keys)
        /\ (Queued \cup InHands) \cap (done \cup lost) = {} /\ done \cap lost = {}
        /\ Queued \cap InHands = {}
    BY <2>2, <2>3, <2>4, <2>5
  <2> QED BY <2>6, <2>7, <2>8, <2>9 DEF EveryOperationAccountedFor, Acknowledged, Queued, InHands
<1> QED BY <1>1, WriterInvariant, AlwaysAcknowledged, PTL

\* No batch is larger than the table takes or mixes partitions, and nothing is
\* written twice but one batch of one thread, for any size of a batch.
THEOREM BatchesAreWellFormed == Spec => []BatchesWellFormed
<1>1. WriterInv => BatchesWellFormed
  <2> SUFFICES ASSUME WriterInv, NEW d \in Executors, NEW j \in DOMAIN written[d]
               PROVE  /\ Cardinality(written[d][j]) \in 1..BatchSize
                      /\ \A m, n \in written[d][j] : keys[m] = keys[n]
                      /\ \A e \in Executors : \A k \in DOMAIN written[e] :
                           written[d][j] \cap written[e][k] # {} => d = e /\ written[d][j] = written[e][k]
    BY DEF BatchesWellFormed
  <2>1. WrittenOK(d) /\ Same(d) /\ \A e \in Executors : d # e => Apart(d, e)
    BY DEF WriterInv
  <2> QED BY <2>1 DEF WrittenOK, Same, Apart, OneKey
<1> QED BY <1>1, WriterInvariant, PTL

\* In which steps something is lost.
LEMMA WhatIsLost ==
  ASSUME WriterInv, [Next]_vars
  PROVE  \/ lost' = lost
         \/ \E e \in Executors : Sending(e) /\ Throw(e) /\ MaybeTaken(e) /\ Moves(e) /\ Only(e)
<1>1. ASSUME NEW e \in Executors, BatchRefused(e) PROVE Sending(e) /\ Throw(e) /\ MaybeTaken(e) /\ Moves(e) /\ Only(e)
  BY <1>1, FailureKeeps DEF BatchRefused, MaybeTaken
<1>2. ASSUME NEW e \in Executors, NoAnswer(e), ~(retry[e] < Retries)
      PROVE  Sending(e) /\ Throw(e) /\ MaybeTaken(e) /\ Moves(e) /\ Only(e)
  BY <1>2, FailureKeeps DEF NoAnswer, MaybeTaken, Taken
<1>3. ASSUME NEW e \in Executors, NoAnswer(e), retry[e] < Retries PROVE lost' = lost
  BY <1>3 DEF NoAnswer
<1>4. ASSUME NEW e \in Executors,
             Count(e) \/ TryDequeue(e) \/ Group(e) \/ NextGroup(e) \/ Return(e) \/ BatchSucceeds(e)
      PROVE  lost' = lost
  BY <1>4 DEF Count, TryDequeue, Group, NextGroup, Return, BatchSucceeds, tableVars
<1>5. ASSUME NEW p \in Partitions, Enqueue(p) PROVE lost' = lost
  BY <1>5 DEF Enqueue, tableVars
<1>6. CASE UNCHANGED vars
  BY <1>6 DEF vars, tableVars
<1> QED BY <1>1, <1>2, <1>3, <1>4, <1>5, <1>6 DEF Next, Execute

\* An Execute that throws leaves one batch in doubt at most, whichever request
\* it gave up on and however often that was sent.
THEOREM OnlyOneBatchInDoubt == Spec => OneBatchInDoubt
<1>1. ASSUME WriterInv, [Next]_vars PROVE Cardinality((lost' \ lost) \cap InTable') <= BatchSize
  <2>1. CASE lost' = lost
    <3>1. (lost' \ lost) \cap InTable' = {}
      BY <2>1
    <3> QED BY <3>1, FS_EmptySet, ConstantsType
  <2>2. CASE \E e \in Executors : Sending(e) /\ Throw(e) /\ MaybeTaken(e) /\ Moves(e) /\ Only(e)
    <3>1. PICK e \in Executors : Sending(e) /\ Throw(e) /\ MaybeTaken(e) /\ Moves(e) /\ Only(e)
      BY <2>2
    <3> DEFINE T == (lost' \ lost) \cap InTable'
    <3>2. lost' \ lost \subseteq InHand(e)
      BY <3>1 DEF Throw
    <3>3. CallOK(e) /\ WrittenOK(e) /\ TypeOK /\ \A d \in Executors \ {e} : Apart(d, e)
      BY <1>1 DEF WriterInv
    <3>4. ASSUME NEW d \in Executors, NEW j \in DOMAIN written'[d]
          PROVE  written'[d][j] \cap InHand(e) \subseteq OperationBatch(e)
      <4>1. CASE d = e
        BY <3>1, <3>3, <3>4, <4>1, Appended DEF WrittenOK
      <4>2. CASE d # e
        BY <3>1, <3>3, <3>4, <4>2 DEF Moves, Apart
      <4> QED BY <4>1, <4>2
    <3>5. T \in SUBSET OperationBatch(e)
      BY <3>2, <3>4 DEF InTable, Elements
    <3>6. current[e] \in Seq(Operations) /\ batch[e] \in Nat
      BY <1>1, Bounds
    <3> QED BY <3>5, <3>6, BatchSizeKept DEF OperationBatch
  <2> QED BY <1>1, <2>1, <2>2, WhatIsLost
<1>2. WriterInv /\ [Next]_vars => [Cardinality((lost' \ lost) \cap InTable') <= BatchSize]_vars
  BY <1>1
<1> QED BY <1>2, WriterInvariant, PTL DEF Spec, OneBatchInDoubt

-----------------------------------------------------------------------------
(* The abstract log.                                                       *)

\* The instance has a Cardinality of its own.
LEMMA SameCardinality == ASSUME NEW e, NEW S PROVE Log(e)!Cardinality(S) = Cardinality(S)
  BY DEF Log!Cardinality, Cardinality

\* The batch that is out may be written to the log of its thread.
LEMMA BatchFollows ==
  ASSUME WriterInv, NEW e \in Executors, OperationBatch(e) # {}, keys' = keys,
         written'[e] = Append(written[e], OperationBatch(e))
  PROVE  Log(e)!Next
<1> DEFINE b == OperationBatch(e)
<1>1. TypeOK /\ CallOK(e) /\ WrittenOK(e)
  BY DEF WriterInv
<1>2. /\ b \subseteq InHand(e) /\ b \subseteq 1..dequeued /\ OneKey(b)
      /\ Cardinality(b) \in 1..BatchSize
  BY <1>1, BatchInHand
<1>3. DOMAIN keys = 1..Len(keys) /\ 1..dequeued \subseteq DOMAIN keys /\ \A n \in DOMAIN keys : keys[n] \in Partitions
  <2>1. DOMAIN keys = 1..Len(keys) /\ \A n \in 1..Len(keys) : keys[n] \in Partitions
    BY <1>1, LenProperties, ElementOfSeq DEF TypeOK
  <2> QED BY <2>1, Bounds
<1>4. PICK o \in b : TRUE
  OBVIOUS
<1> DEFINE p == keys[o]
<1>5. p \in Partitions
  BY <1>2, <1>3
<1>6. b \in SUBSET Log(e)!InPartition(p)
  BY <1>2, <1>3 DEF Log!InPartition, OneKey
<1>7. Log(e)!Cardinality(b) <= BatchSize
  BY <1>2, SameCardinality, ConstantsType
<1>8. Log(e)!Follows(b, p)
  <2> SUFFICES ASSUME NEW k \in Log(e)!BatchesOf(p), written[e][k] # b
               PROVE  \A m \in b, n \in written[e][k] : n < m
    BY DEF Log!Follows
  <2>1. k \in DOMAIN written[e] /\ written[e][k] \subseteq Log(e)!InPartition(p)
    BY DEF Log!BatchesOf
  <2>2. \A m \in b, n \in written[e][k] : keys[m] = keys[n]
    BY <1>6, <2>1 DEF Log!InPartition
  <2> QED BY <1>1, <1>2, <2>1, <2>2 DEF WrittenOK
<1>9. Log(e)!Write(p)
  BY <1>6, <1>7, <1>8 DEF Log!Write
<1> QED BY <1>5, <1>9 DEF Log!Next

LEMMA MovesFollow ==
  ASSUME WriterInv, NEW d \in Executors, Moves(d)
  PROVE  \A e \in Executors : Log(e)!Next \/ UNCHANGED Log(e)!vars
<1> SUFFICES ASSUME NEW e \in Executors PROVE Log(e)!Next \/ UNCHANGED Log(e)!vars
  OBVIOUS
<1>1. CASE d = e /\ written'[e] # written[e]
  BY <1>1, BatchFollows DEF Moves
<1>2. CASE d # e \/ written'[e] = written[e]
  BY <1>2 DEF Moves, Log!vars
<1> QED BY <1>1, <1>2

\* Every thread writes the operations of a partition in the order they were
\* enqueued, through batches, retries and failures.
THEOREM KeepsTheOrder == Spec => ImplementsPartitionedLog
<1>1. Init => \A e \in Executors : Log(e)!Init
  BY DEF Init, Log!Init
<1>2. ASSUME WriterInv, [Next]_vars
      PROVE  \A e \in Executors : Log(e)!Next \/ UNCHANGED Log(e)!vars
  <2>1. ASSUME NEW p \in Partitions, Enqueue(p) PROVE \A e \in Executors : Log(e)!Next
    BY <2>1 DEF Enqueue, tableVars, Log!Next, Log!Submit
  <2>2. ASSUME NEW d \in Executors,
               Count(d) \/ Group(d) \/ NextGroup(d) \/ Return(d) \/ BatchSucceeds(d) \/ BatchRefused(d) \/ NoAnswer(d)
        PROVE  \A e \in Executors : Log(e)!Next \/ UNCHANGED Log(e)!vars
    <3>1. Moves(d)
      BY <1>2, <2>2, CountKeeps, GroupKeeps, NextGroupKeeps, ReturnKeeps, BatchSucceedsKeeps, FailureKeeps
    <3> QED BY <1>2, <3>1, MovesFollow
  <2>3. ASSUME NEW d \in Executors, TryDequeue(d) PROVE \A e \in Executors : UNCHANGED Log(e)!vars
    BY <2>3 DEF TryDequeue, tableVars, Log!vars
  <2>4. CASE UNCHANGED vars
    BY <2>4 DEF vars, queueVars, tableVars, Log!vars
  <2> QED BY <1>2, <2>1, <2>2, <2>3, <2>4 DEF Next, Execute
<1>3. WriterInv /\ [Next]_vars => [\A e \in Executors : Log(e)!Next \/ UNCHANGED Log(e)!vars]_vars
  BY <1>2
<1> QED BY <1>1, <1>3, WriterInvariant, PTL DEF Spec, ImplementsPartitionedLog
-----------------------------------------------------------------------------
(* Why Execute ends.                                                        *)

\* What is left of the group e is at.
Left(e) == Cardinality(Rest(current[e], batch[e]))

\* The step brings Execute nearer to its end: a dequeue less to try, a group
\* less, less left of the group, or, with as much left, a retry less.
Closer(e) ==
  \/ pc'[e] = "idle"
  \/ pc[e] = "dequeuing" /\ pc'[e] = "executing"
  \/ pc[e] = "dequeuing" /\ pc'[e] = "dequeuing" /\ count'[e] < count[e]
  \/ /\ pc[e] = "executing" /\ pc'[e] = "executing"
     /\ \/ Cardinality(groups'[e]) < Cardinality(groups[e])
        \/ groups'[e] = groups[e] /\ Left(e)' < Left(e)
        \/ groups'[e] = groups[e] /\ Left(e)' = Left(e) /\ retry[e] < retry'[e]

Waits(e) == /\ pc'[e] = pc[e] /\ count'[e] = count[e] /\ groups'[e] = groups[e]
            /\ Left(e)' = Left(e) /\ retry'[e] = retry[e]

\* Every step of an Execute brings it nearer to its end, and nothing that
\* others do, adding operations or emptying the queue, takes it back.
Advances(e) == /\ Execute(e) => Closer(e)
               /\ pc[e] # "idle" => Closer(e) \/ Waits(e)

ExecuteAdvances == [][\A e \in Executors : Advances(e)]_vars

\* Until it ends there is a step it can take: a dequeue, the grouping, the
\* request for a batch, the return, or a group to come to next, which has a list.
ExecuteNeverStuck == \A e \in Executors : pc[e] # "idle" =>
  \/ pc[e] = "dequeuing" /\ (count[e] > 0 \/ count[e] = 0)
  \/ Sending(e)
  \/ GroupDone(e) /\ groups[e] = {}
  \/ GroupDone(e) /\ \E g \in groups[e] : ComesFirst(g, groups[e]) /\ ToList(g) # {}

\* What the group whose key appeared first rests on.
LEMMA LeastElement ==
  ASSUME NEW S \in SUBSET Nat, S # {}
  PROVE  \E x \in S : \A y \in S : x <= y
<1> DEFINE R == OpToRel(<, Nat)
<1>1. IsWellFoundedOn(R, Nat)
  BY NatLessThanWellFounded
<1>2. \A x, y \in Nat : x < y => <<x, y>> \in R
  BY DEF OpToRel
<1> HIDE DEF R
<1>3. PICK x \in S : \A y \in S : ~(<<y, x>> \in R)
  BY <1>1, WFMin
<1>4. \A y \in S : ~(y < x)
  BY <1>2, <1>3
<1> QED BY <1>4

\* A group has a list.
LEMMA ListExists == \A g \in SUBSET Operations : ToList(g) # {}
<1> DEFINE Unlisted == {n \in Nat : \E g \in SUBSET Operations : Cardinality(g) = n /\ ToList(g) = {}}
<1> SUFFICES ASSUME NEW h \in SUBSET Operations, ToList(h) = {} PROVE FALSE
  OBVIOUS
<1>1. Cardinality(h) \in Unlisted
  BY OperationsFinite
<1>2. PICK n \in Unlisted : \A m \in Unlisted : n <= m
  BY <1>1, LeastElement
<1>3. PICK g \in SUBSET Operations : Cardinality(g) = n /\ ToList(g) = {}
  BY <1>2
<1>4. n \in Nat /\ IsFiniteSet(g)
  BY <1>3, OperationsFinite
<1>5. CASE g = {}
  <2> DEFINE s == [k \in 1..0 |-> 0]
  <2>1. Cardinality(g) = 0 /\ 1..0 = {} /\ s \in [1..0 -> g]
    BY <1>5, FS_EmptySet
  <2>2. Elements(s) = g /\ DOMAIN s = {}
    BY <1>5, <2>1 DEF Elements
  <2>3. s \in ToList(g)
    BY <2>1, <2>2 DEF ToList
  <2> QED BY <1>3, <2>3
<1>6. CASE g # {}
  <2>1. PICK x \in g : \A y \in g : x <= y
    BY <1>6, LeastElement, ConstantsType DEF Operations
  <2> DEFINE h2 == g \ {x}
  <2>2. h2 \in SUBSET Operations /\ n - 1 \in Nat /\ Cardinality(h2) = n - 1
    <3>1. h2 \in SUBSET Operations
      OBVIOUS
    <3>2. Cardinality(h2) = n - 1
      BY <1>3, <1>4, <2>1, FS_RemoveElement
    <3> HIDE DEF h2
    <3>3. Cardinality(h2) \in Nat
      BY <3>1, OperationsFinite
    <3> QED BY <1>4, <3>1, <3>2, <3>3
  <2>3. PICK s \in ToList(h2) : TRUE
    <3>1. n - 1 \notin Unlisted
      BY <1>2, <1>4
    <3> QED BY <2>2, <3>1
  <2>4. /\ s \in [1..(n - 1) -> h2] /\ Elements(s) = h2
        /\ \A i, j \in 1..(n - 1) : i < j => s[i] < s[j]
    BY <2>2, <2>3 DEF ToList
  <2> DEFINE t == [k \in 1..n |-> IF k = 1 THEN x ELSE s[k - 1]]
  <2>5. \A k \in 1..n : k # 1 => k - 1 \in 1..(n - 1) /\ s[k - 1] \in h2
    BY <1>4, <2>4
  <2>6. t \in [1..n -> g] /\ DOMAIN t = 1..n
    BY <2>1, <2>5
  <2>7. Elements(t) = g
    <3>1. \A k \in DOMAIN t : t[k] \in g
      BY <2>6
    <3>2. ASSUME NEW y \in g PROVE \E k \in DOMAIN t : y = t[k]
      <4>1. CASE y = x
        <5>1. 1 \in 1..n
          BY <1>4, <2>2
        <5> QED BY <4>1, <5>1
      <4>2. CASE y # x
        <5>1. PICK k \in 1..(n - 1) : y = s[k]
          BY <2>4, <4>2 DEF Elements
        <5>2. k + 1 \in 1..n /\ k + 1 # 1 /\ (k + 1) - 1 = k
          BY <1>4, <5>1
        <5> QED BY <5>1, <5>2
      <4> QED BY <4>1, <4>2
    <3> QED BY <3>1, <3>2 DEF Elements
  <2>8. ASSUME NEW i \in 1..n, NEW j \in 1..n, i < j PROVE t[i] < t[j]
    <3> DEFINE y == s[j - 1]
    <3>1. j # 1 /\ j - 1 \in 1..(n - 1) /\ y \in h2 /\ t[j] = y
      BY <1>4, <2>5, <2>8
    <3>2. i # 1 => i - 1 \in 1..(n - 1) /\ i - 1 < j - 1 /\ t[i] = s[i - 1]
      BY <1>4, <2>5, <2>8
    <3>3. i = 1 => t[i] = x
      OBVIOUS
    <3>4. s[j - 1] = y
      OBVIOUS
    <3> HIDE DEF t, y
    <3>5. x <= y /\ x # y /\ x \in Nat /\ y \in Nat
      BY <2>1, <3>1, ConstantsType DEF Operations
    <3> QED BY <2>4, <3>1, <3>2, <3>3, <3>4, <3>5
  <2> HIDE DEF t
  <2>9. t \in ToList(g)
    BY <1>3, <2>6, <2>7, <2>8 DEF ToList
  <2> QED BY <1>3, <2>9
<1> QED BY <1>5, <1>6

\* No group is empty.
GroupsNotEmpty == \A e \in Executors : {} \notin groups[e]

LEMMA GroupsAreNotEmpty == Spec => []GroupsNotEmpty
<1>1. Init => GroupsNotEmpty
  BY DEF Init, GroupsNotEmpty
<1>2. WriterInv /\ GroupsNotEmpty /\ [Next]_vars => GroupsNotEmpty'
  <2> SUFFICES ASSUME WriterInv, GroupsNotEmpty, [Next]_vars, NEW d \in Executors PROVE {} \notin groups'[d]
    BY DEF GroupsNotEmpty
  <2>1. TypeOK /\ {} \notin groups[d] /\ groups \in [Executors -> SUBSET SUBSET (1..MaxOperations)]
    BY DEF WriterInv, GroupsNotEmpty, TypeOK
  <2>2. ASSUME NEW e \in Executors, Group(e) PROVE {} \notin groups'[d]
    <3>1. {} \notin GroupByKey(toExecute[e])
      BY DEF GroupByKey
    <3> QED BY <2>1, <2>2, <3>1 DEF Group
  <2>3. ASSUME NEW e \in Executors, NextGroup(e) PROVE {} \notin groups'[d]
    <3>1. PICK g : groups' = [groups EXCEPT ![e] = groups[e] \ {g}]
      BY <2>3 DEF NextGroup
    <3> QED BY <2>1, <3>1
  <2>4. ASSUME NEW e \in Executors, BatchRefused(e) \/ NoAnswer(e) PROVE {} \notin groups'[d]
    BY <2>1, <2>4 DEF BatchRefused, NoAnswer, Throw
  <2>5. ASSUME NEW e \in Executors, Count(e) \/ TryDequeue(e) \/ Return(e) \/ BatchSucceeds(e)
        PROVE  {} \notin groups'[d]
    BY <2>1, <2>5 DEF Count, TryDequeue, Return, BatchSucceeds
  <2>6. ASSUME NEW p \in Partitions, Enqueue(p) PROVE {} \notin groups'[d]
    BY <2>1, <2>6 DEF Enqueue, callVars
  <2>7. CASE UNCHANGED vars
    BY <2>1, <2>7 DEF vars, callVars
  <2> QED BY <2>2, <2>3, <2>4, <2>5, <2>6, <2>7 DEF Next, Execute
<1> QED BY <1>1, <1>2, WriterInvariant, PTL DEF Spec

\* While Execute has not ended, it has a step to take, however many threads
\* empty the queue under it and whatever has failed.
THEOREM NeverStuck == Spec => []ExecuteNeverStuck
<1>1. WriterInv /\ GroupsNotEmpty => ExecuteNeverStuck
  <2> SUFFICES ASSUME WriterInv, GroupsNotEmpty, NEW e \in Executors, pc[e] # "idle",
                      ~(pc[e] = "dequeuing" /\ (count[e] > 0 \/ count[e] = 0)), ~Sending(e),
                      ~(GroupDone(e) /\ groups[e] = {})
               PROVE  GroupDone(e) /\ \E g \in groups[e] : ComesFirst(g, groups[e]) /\ ToList(g) # {}
    BY DEF ExecuteNeverStuck
  <2>1. pc[e] \in {"idle", "dequeuing", "executing"} /\ count[e] \in Nat
    BY ConstantsType DEF WriterInv, TypeOK
  <2>2. pc[e] = "executing"
    BY <2>1
  <2>3. GroupDone(e) /\ groups[e] # {}
    BY <2>2 DEF Sending, GroupDone
  <2>4. groups[e] \in SUBSET SUBSET Operations /\ {} \notin groups[e]
    BY DEF WriterInv, TypeOK, Operations, GroupsNotEmpty
  <2>5. UNION groups[e] \in SUBSET Nat /\ UNION groups[e] # {}
    BY <2>4, <2>3 DEF Operations
  <2>6. PICK o \in UNION groups[e] : \A q \in UNION groups[e] : o <= q
    BY <2>5, LeastElement
  <2>7. PICK g \in groups[e] : o \in g
    BY <2>6
  <2> QED BY <2>4, <2>6, <2>7, <2>3, ListExists DEF ComesFirst
<1> QED BY <1>1, WriterInvariant, GroupsAreNotEmpty, PTL

LEMMA RestFinite ==
  ASSUME WriterInv, NEW e \in Executors, NEW b \in Nat
  PROVE  Rest(current[e], b) \in SUBSET Operations /\ IsFiniteSet(Rest(current[e], b))
<1>1. current[e] \in Seq(Operations)
  BY Bounds
<1>2. Rest(current[e], b) \in SUBSET Elements(current[e])
  BY DEF Rest, Elements
<1> QED BY <1>1, <1>2, ElementsOfSeq, OperationsFinite

\* A group that is taken leaves fewer.
LEMMA FewerGroups ==
  ASSUME WriterInv, NEW e \in Executors, NEW g \in groups[e]
  PROVE  Cardinality(groups[e] \ {g}) < Cardinality(groups[e])
<1> DEFINE All == SUBSET Operations
           gs == groups[e]
<1>1. IsFiniteSet(Operations) /\ gs \in SUBSET All /\ g \in gs
  BY OperationsFinite DEF WriterInv, TypeOK, Operations
<1>2. IsFiniteSet(All)
  BY <1>1, FS_SUBSET
<1> HIDE DEF All, gs
<1>3. IsFiniteSet(gs)
  BY <1>1, <1>2, FS_Subset
<1>4. Cardinality(gs) \in Nat /\ Cardinality(gs \ {g}) = Cardinality(gs) - 1
  BY <1>1, <1>3, FS_CardinalityType, FS_RemoveElement
<1> QED BY <1>4 DEF gs

\* So does a batch that is through.
LEMMA LessLeft ==
  ASSUME WriterInv, NEW e \in Executors, Sending(e)
  PROVE  Cardinality(Rest(current[e], batch[e] + 1)) < Cardinality(Rest(current[e], batch[e]))
<1> DEFINE R == Rest(current[e], batch[e])
           B == OperationBatch(e)
<1>1. current[e] \in Seq(Operations) /\ batch[e] \in Nat /\ Increasing(current[e]) /\ B # {}
  BY Bounds DEF WriterInv, CallOK, Sending
<1>2. B \subseteq R /\ Rest(current[e], batch[e] + 1) = R \ B
  BY <1>1, BatchProperties DEF OperationBatch
<1>3. IsFiniteSet(R) /\ R = Rest(current[e], batch[e])
  BY <1>1, RestFinite
<1> HIDE DEF R, B
<1>4. PICK o \in B : TRUE
  BY <1>1
<1>5. R \ B \in SUBSET (R \ {o}) /\ o \in R
  BY <1>2, <1>4
<1>6. IsFiniteSet(R \ {o}) /\ Cardinality(R \ {o}) = Cardinality(R) - 1 /\ Cardinality(R) \in Nat
  BY <1>3, <1>5, FS_RemoveElement, FS_CardinalityType
<1>7. Cardinality(R \ B) \in Nat /\ Cardinality(R \ B) <= Cardinality(R \ {o})
  BY <1>5, <1>6, FS_Subset, FS_CardinalityType
<1>8. Cardinality(R \ B) < Cardinality(R)
  BY <1>6, <1>7
<1> QED BY <1>2, <1>3, <1>8

\* What Execute does brings it nearer to its end.
LEMMA ExecuteIsCloser ==
  ASSUME WriterInv, NEW e \in Executors, Execute(e)
  PROVE  Closer(e)
<1>1. /\ TypeOK /\ count[e] \in Nat /\ retry[e] \in Nat /\ batch[e] \in Nat
      /\ pc[e] \in {"idle", "dequeuing", "executing"}
  BY ConstantsType DEF WriterInv, TypeOK
<1>2. CASE TryDequeue(e)
  <2>1. pc'[e] = "dequeuing" /\ count'[e] = count[e] - 1
    BY <1>1, <1>2 DEF TryDequeue, TriesLeft, TypeOK
  <2> QED BY <1>1, <1>2, <2>1 DEF TryDequeue, Closer
<1>3. CASE Group(e)
  BY <1>1, <1>3 DEF Group, Closer, TypeOK
<1>4. CASE NextGroup(e)
  <2>1. PICK g \in groups[e] : groups' = [groups EXCEPT ![e] = groups[e] \ {g}]
    BY <1>4 DEF NextGroup
  <2>2. pc[e] = "executing" /\ pc'[e] = "executing" /\ groups'[e] = groups[e] \ {g}
    BY <1>1, <1>4, <2>1 DEF NextGroup, GroupDone, TypeOK
  <2> QED BY <2>1, <2>2, FewerGroups DEF Closer
<1>5. CASE Return(e)
  BY <1>1, <1>5 DEF Return, Closer, TypeOK
<1>6. CASE BatchSucceeds(e)
  <2>1. /\ Sending(e) /\ pc[e] = "executing" /\ pc'[e] = "executing" /\ groups'[e] = groups[e]
        /\ current'[e] = current[e] /\ batch'[e] = batch[e] + 1
    BY <1>1, <1>6 DEF BatchSucceeds, Sending, TypeOK
  <2>2. Left(e)' < Left(e)
    BY <2>1, LessLeft DEF Left
  <2> QED BY <2>1, <2>2 DEF Closer
<1>7. CASE BatchRefused(e) \/ (NoAnswer(e) /\ ~(retry[e] < Retries))
  BY <1>1, <1>7 DEF BatchRefused, NoAnswer, Throw, Closer, TypeOK
<1>8. CASE NoAnswer(e) /\ retry[e] < Retries
  <2>1. /\ pc[e] = "executing" /\ pc'[e] = "executing" /\ groups'[e] = groups[e]
        /\ current'[e] = current[e] /\ batch'[e] = batch[e] /\ retry'[e] = retry[e] + 1
    BY <1>1, <1>8 DEF NoAnswer, Sending, TypeOK
  <2>2. Left(e)' = Left(e)
    BY <2>1 DEF Left
  <2> QED BY <1>1, <2>1, <2>2 DEF Closer
<1> QED BY <1>2, <1>3, <1>4, <1>5, <1>6, <1>7, <1>8 DEF Execute

\* Every step of Execute brings it nearer to its end, and nothing takes it
\* back: neither the threads that add operations nor those that take them.  As
\* tries, groups, operations and retries are natural numbers and retries are
\* bounded, Execute can take finitely many steps only.
THEOREM AlwaysAdvances == Spec => ExecuteAdvances
<1>1. ASSUME WriterInv, [Next]_vars, NEW d \in Executors
      PROVE  (Execute(d) => Closer(d)) /\ (pc[d] # "idle" => Closer(d) \/ Waits(d))
  <2>1. Execute(d) => Closer(d)
    BY <1>1, ExecuteIsCloser
  <2>2. ASSUME pc[d] # "idle", ~Execute(d) PROVE Waits(d)
    <3>1. TypeOK
      BY <1>1 DEF WriterInv
    <3>2. SUFFICES UNCHANGED <<pc[d], count[d], groups[d], current[d], batch[d], retry[d]>>
      BY DEF Waits, Left
    <3>3. ASSUME NEW p \in Partitions, Enqueue(p)
          PROVE  UNCHANGED <<pc[d], count[d], groups[d], current[d], batch[d], retry[d]>>
      BY <3>3 DEF Enqueue, callVars
    <3>4. ASSUME NEW e \in Executors, Count(e)
          PROVE  UNCHANGED <<pc[d], count[d], groups[d], current[d], batch[d], retry[d]>>
      BY <2>2, <3>1, <3>4 DEF Count, TypeOK
    <3>5. ASSUME NEW e \in Executors, TryDequeue(e) \/ Group(e) \/ Return(e) \/ BatchSucceeds(e)
          PROVE  UNCHANGED <<pc[d], count[d], groups[d], current[d], batch[d], retry[d]>>
      BY <2>2, <3>1, <3>5 DEF Execute, TryDequeue, Group, Return, BatchSucceeds, TypeOK
    <3>6. ASSUME NEW e \in Executors, NextGroup(e)
          PROVE  UNCHANGED <<pc[d], count[d], groups[d], current[d], batch[d], retry[d]>>
      <4>1. PICK g : groups' = [groups EXCEPT ![e] = groups[e] \ {g}]
        BY <3>6 DEF NextGroup
      <4>2. PICK s : current' = [current EXCEPT ![e] = s]
        BY <3>6 DEF NextGroup
      <4> QED BY <2>2, <3>1, <3>6, <4>1, <4>2 DEF Execute, NextGroup, TypeOK
    <3>7. ASSUME NEW e \in Executors, BatchRefused(e) \/ NoAnswer(e)
          PROVE  UNCHANGED <<pc[d], count[d], groups[d], current[d], batch[d], retry[d]>>
      <4>1. d # e
        BY <2>2, <3>7 DEF Execute
      <4>2. UNCHANGED count
        BY <3>7 DEF BatchRefused, NoAnswer
      <4>3. \/ UNCHANGED <<pc, groups, current, batch>> /\ retry' = [retry EXCEPT ![e] = retry[e] + 1]
            \/ Throw(e)
        BY <3>7 DEF BatchRefused, NoAnswer
      <4> QED BY <3>1, <4>1, <4>2, <4>3 DEF Throw, TypeOK
    <3>8. CASE UNCHANGED vars
      BY <3>8 DEF vars, callVars
    <3> QED BY <1>1, <3>3, <3>4, <3>5, <3>6, <3>7, <3>8 DEF Next, Execute
  <2> QED BY <2>1, <2>2
<1>2. WriterInv /\ [Next]_vars => [\A e \in Executors : Advances(e)]_vars
  BY <1>1 DEF Advances
<1> QED BY <1>2, WriterInvariant, PTL DEF Spec, ExecuteAdvances
=============================================================================
