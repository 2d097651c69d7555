------------------------ MODULE KinesisProducerProofs ------------------------
(***************************************************************************)
(* Proofs about KinesisProducer, for any number of records, batch size and *)
(* number of attempts: the PutResult adds up and does not overstate, no    *)
(* record is put on the stream twice, records are overtaken only within    *)
(* their chunk, and a call ends.                                           *)
(***************************************************************************)
EXTENDS KinesisProducer, FiniteSetTheorems, TLAPS

\* The records of the call that are in no finished chunk, or in no chunk yet.
Behind == IF pc = "send" THEN next - 1 - size ELSE next - 1

\* The counters and the stream, between any two steps: finished chunks are in
\* the result, the current one in ok and entries, and no record still to be
\* sent has been taken.
Balance ==
  /\ Behind \in Nat
  /\ result.succeeded \in Nat /\ result.succeeded + result.failed = Behind
  /\ pc = "send" => /\ ok + Cardinality(entries) = size
                    /\ entries \subseteq (Behind + 1)..(next - 1)
                    /\ Taken \cap entries = {}
  /\ pc = "returned" => next = Total + 1
  /\ Taken \subseteq 1..(next - 1)
  /\ Cardinality(Taken) >= result.succeeded + (IF pc = "send" THEN ok ELSE 0)

ProducerInv == TypeOK /\ Balance /\ NoRecordTwice

\* A chunk has at least one record and at most those that are left.
LEMMA ChunkBounds ==
  ASSUME NEW n \in 1..Total
  PROVE  ChunkEnd(n) \in Int /\ n <= ChunkEnd(n) /\ ChunkEnd(n) <= Total
BY ProducerAssumption DEF ProducerAssumption, ChunkEnd, BatchSize, Smaller, Larger

\* Sets of record numbers are finite, and counting them respects union and inclusion.
LEMMA RecordSets ==
  ASSUME NEW S \in SUBSET (1..Total)
  PROVE  IsFiniteSet(S) /\ Cardinality(S) \in Nat
<1>1. IsFiniteSet(1..Total)
  BY FS_Interval, ProducerAssumption DEF ProducerAssumption
<1> QED BY <1>1, FS_Subset, FS_CardinalityType

\* Kinesis takes some of the entries: the others are what remains to be counted.
LEMMA SplitEntries ==
  ASSUME NEW S \in SUBSET (1..Total), NEW R \in SUBSET S
  PROVE  Cardinality(S) = Cardinality(R) + Cardinality(S \ R)
<1>1. S = R \cup (S \ R) /\ R \cap (S \ R) = {}
  OBVIOUS
<1>2. IsFiniteSet(R) /\ IsFiniteSet(S \ R) /\ Cardinality(R) \in Nat /\ Cardinality(S \ R) \in Nat
  BY RecordSets
<1>3. Cardinality(R \cup (S \ R)) = Cardinality(R) + Cardinality(S \ R) - Cardinality(R \cap (S \ R))
  BY <1>2, FS_Union
<1>4. Cardinality(R \cap (S \ R)) = 0
  BY <1>1, FS_EmptySet
<1>5. Cardinality(S) = Cardinality(R \cup (S \ R))
  BY <1>1
<1> QED BY <1>2, <1>3, <1>4, <1>5

\* A request extends what was taken.
LEMMA TakenGrows ==
  ASSUME TypeOK, NEW s \in SUBSET (1..Total), stream' = Append(stream, s)
  PROVE  Taken' = Taken \cup s
<1>1. DOMAIN stream' = DOMAIN stream \cup {Len(stream) + 1}
  BY DEF TypeOK
<1>2. stream'[Len(stream) + 1] = s /\ \A k \in DOMAIN stream : stream'[k] = stream[k]
  BY DEF TypeOK
<1> QED BY <1>1, <1>2 DEF Taken

\* A request with only records that were never taken repeats none.
LEMMA NoRepeat ==
  ASSUME TypeOK, NoRecordTwice, NEW s \in SUBSET (1..Total), Taken \cap s = {},
         stream' = Append(stream, s)
  PROVE  NoRecordTwice'
<1>1. DOMAIN stream' = DOMAIN stream \cup {Len(stream) + 1}
  BY DEF TypeOK
<1>2. stream'[Len(stream) + 1] = s /\ \A k \in DOMAIN stream : stream'[k] = stream[k]
  BY DEF TypeOK
<1>3. \A k \in DOMAIN stream : stream[k] \cap s = {}
  BY DEF Taken
<1> QED BY <1>1, <1>2, <1>3 DEF NoRecordTwice

\* Records that were not taken add to what was, one by one.
LEMMA TakenCount ==
  ASSUME Taken \in SUBSET (1..Total), NEW s \in SUBSET (1..Total), Taken \cap s = {}
  PROVE  Cardinality(Taken \cup s) = Cardinality(Taken) + Cardinality(s)
<1>1. IsFiniteSet(Taken) /\ IsFiniteSet(s) /\ Cardinality(Taken) \in Nat /\ Cardinality(s) \in Nat
  BY RecordSets
<1>2. Cardinality(Taken \cup s) = Cardinality(Taken) + Cardinality(s) - Cardinality(Taken \cap s)
  BY <1>1, FS_Union
<1>3. Cardinality(Taken \cap s) = 0
  BY FS_EmptySet
<1> QED BY <1>1, <1>2, <1>3

\* A new chunk owes all of its records.
LEMMA StartChunkStep == ASSUME ProducerInv, StartChunk PROVE ProducerInv'
<1> DEFINE last == ChunkEnd(next)
<1>1. /\ pc = "chunk" /\ next \in 1..Total
      /\ entries' = next..last /\ size' = last - next + 1 /\ next' = last + 1
      /\ attempt' = 0 /\ ok' = 0 /\ pc' = "send" /\ UNCHANGED <<result, stream>>
  BY ProducerAssumption DEF ProducerAssumption, StartChunk, ProducerInv, TypeOK
<1>2. last \in Int /\ next <= last /\ last <= Total
  BY <1>1, ChunkBounds
<1>3. Total \in Nat /\ MaxRetries \in Nat
  BY ProducerAssumption DEF ProducerAssumption
<1> HIDE DEF last
<1>4. TypeOK'
  BY <1>1, <1>2, <1>3 DEF ProducerInv, TypeOK
<1>5. Cardinality(next..last) = last - next + 1
  BY <1>1, <1>2, FS_Interval
<1>6. Taken' = Taken /\ Behind' = Behind /\ Behind = next - 1
  BY <1>1, <1>2 DEF Taken, Behind
<1>7. Taken \subseteq 1..(next - 1) /\ Cardinality(Taken) >= result.succeeded
  BY <1>1 DEF ProducerInv, Balance
<1>8. Balance'
  BY <1>1, <1>2, <1>3, <1>5, <1>6, <1>7 DEF ProducerInv, TypeOK, Balance
<1>9. NoRecordTwice'
  BY <1>1 DEF ProducerInv, NoRecordTwice
<1> QED BY <1>4, <1>8, <1>9 DEF ProducerInv

\* What Kinesis takes moves from entries to ok and onto the stream.
LEMMA SendStep == ASSUME ProducerInv, Send PROVE ProducerInv'
<1>1. PICK rejected \in SUBSET entries :
        /\ entries' = rejected
        /\ ok' = ok + Cardinality(entries \ rejected)
        /\ stream' = Append(stream, entries \ rejected)
  BY DEF Send
<1>2. /\ pc = "send" /\ attempt < MaxRetries /\ attempt' = attempt + 1
      /\ UNCHANGED <<pc, next, size, result>>
  BY DEF Send
<1> DEFINE s == entries \ rejected
<1>3. entries \in SUBSET (1..Total) /\ rejected \in SUBSET entries /\ s \in SUBSET (1..Total)
  BY DEF ProducerInv, TypeOK
<1>4. /\ Cardinality(entries) = Cardinality(rejected) + Cardinality(s)
      /\ Cardinality(s) \in Nat /\ Cardinality(rejected) \in Nat
  BY <1>3, SplitEntries, RecordSets
<1>5. Taken \cap s = {} /\ Taken \cap entries = {}
  BY <1>2 DEF ProducerInv, Balance
<1>6. Taken' = Taken \cup s
  BY <1>1, <1>3, TakenGrows DEF ProducerInv
<1>7. Taken \in SUBSET (1..Total)
  BY ProducerAssumption DEF ProducerAssumption, ProducerInv, TypeOK, Balance
<1>8. /\ Cardinality(Taken') = Cardinality(Taken) + Cardinality(s)
      /\ Cardinality(Taken) \in Nat
  BY <1>3, <1>5, <1>6, <1>7, TakenCount, RecordSets
<1>9. TypeOK'
  BY <1>1, <1>2, <1>3, <1>4, ProducerAssumption DEF ProducerAssumption, ProducerInv, TypeOK
<1>10. Behind' = Behind
  BY <1>2 DEF Behind
<1>11. Balance'
  <2>1. entries \subseteq (Behind + 1)..(next - 1) /\ Taken \subseteq 1..(next - 1) /\ Behind \in Nat
    BY <1>2 DEF ProducerInv, Balance
  <2>2. Taken' \subseteq 1..(next - 1)
    BY <1>6, <2>1
  <2>3. Taken' \cap entries' = {}
    BY <1>1, <1>5, <1>6
  <2>4. ok' + Cardinality(entries') = size
    BY <1>1, <1>2, <1>4 DEF ProducerInv, TypeOK, Balance
  <2>5. Cardinality(Taken') >= result.succeeded + ok'
    BY <1>1, <1>2, <1>4, <1>8 DEF ProducerInv, TypeOK, Balance
  <2> QED BY <1>1, <1>2, <1>10, <2>1, <2>2, <2>3, <2>4, <2>5 DEF ProducerInv, Balance
<1>12. NoRecordTwice'
  BY <1>1, <1>3, <1>5, NoRepeat DEF ProducerInv
<1> QED BY <1>9, <1>11, <1>12 DEF ProducerInv

\* A request that throws ends the chunk: what it took is on the stream but
\* counts as failed.
LEMMA SendThrowsStep == ASSUME ProducerInv, SendThrows PROVE ProducerInv'
<1>1. PICK taken \in SUBSET entries : stream' = Append(stream, taken)
  BY DEF SendThrows
<1>2. /\ pc = "send" /\ pc' = "chunk" /\ UNCHANGED <<next, size, entries, attempt, ok>>
      /\ result' = [succeeded |-> result.succeeded + ok,
                    failed |-> result.failed
                                 + (Cardinality(entries) + (size - ok - Cardinality(entries)))]
  BY DEF SendThrows, AddToResult
<1>3. entries \in SUBSET (1..Total) /\ taken \in SUBSET (1..Total)
  BY DEF ProducerInv, TypeOK
<1>4. Cardinality(entries) \in Nat /\ Cardinality(taken) \in Nat
  BY <1>3, RecordSets
<1>5. Taken \cap taken = {}
  BY <1>2 DEF ProducerInv, Balance
<1>6. Taken' = Taken \cup taken /\ Taken \in SUBSET (1..Total)
  BY <1>1, <1>3, TakenGrows, ProducerAssumption DEF ProducerAssumption, ProducerInv, TypeOK, Balance
<1>7. /\ Cardinality(Taken') = Cardinality(Taken) + Cardinality(taken)
      /\ Cardinality(Taken) \in Nat
  BY <1>3, <1>5, <1>6, TakenCount, RecordSets
<1>8. TypeOK'
  BY <1>1, <1>2, <1>3, <1>4 DEF ProducerInv, TypeOK
<1>9. Balance'
  <2>1. Taken' \subseteq 1..(next - 1)
    <3>1. entries \subseteq (Behind + 1)..(next - 1) /\ Taken \subseteq 1..(next - 1) /\ Behind \in Nat
      BY <1>2 DEF ProducerInv, Balance
    <3> QED BY <1>1, <1>2, <1>6, <3>1
  <2>2. /\ Behind = next - 1 - size /\ Behind' = next - 1
        /\ result.succeeded + result.failed = next - 1 - size
        /\ next \in Int /\ next >= 1 /\ size \in Int /\ ok \in Nat
        /\ result.succeeded \in Nat /\ result.failed \in Int
    BY <1>2 DEF ProducerInv, TypeOK, Balance, Behind
  <2>3. /\ result'.succeeded = result.succeeded + ok
        /\ result'.failed = result.failed
                             + (Cardinality(entries) + (size - ok - Cardinality(entries)))
    BY <1>2
  <2>4. result'.succeeded + result'.failed = next - 1
    BY <1>4, <2>2, <2>3
  <2>5. Cardinality(Taken') >= result'.succeeded
    BY <1>2, <1>4, <1>7, <2>2, <2>3 DEF ProducerInv, Balance
  <2> QED BY <1>2, <2>1, <2>2, <2>3, <2>4, <2>5 DEF Balance
<1>10. NoRecordTwice'
  BY <1>1, <1>3, <1>5, NoRepeat DEF ProducerInv
<1> QED BY <1>8, <1>9, <1>10 DEF ProducerInv

\* The end of a chunk adds its two counters to the result.
LEMMA EndChunkStep == ASSUME ProducerInv, EndChunk PROVE ProducerInv'
<1>1. /\ pc = "send" /\ pc' = "chunk" /\ UNCHANGED <<next, size, entries, attempt, ok, stream>>
      /\ result' = [succeeded |-> result.succeeded + ok,
                    failed |-> result.failed + Cardinality(entries)]
  BY DEF EndChunk, AddToResult
<1>2. Cardinality(entries) \in Nat
  BY RecordSets DEF ProducerInv, TypeOK
<1>3. Taken' = Taken /\ NoRecordTwice'
  BY <1>1 DEF Taken, ProducerInv, NoRecordTwice
<1>4. TypeOK'
  BY <1>1, <1>2 DEF ProducerInv, TypeOK
<1>5. Balance'
  <2>1. /\ Behind = next - 1 - size /\ Behind' = next - 1
        /\ result.succeeded + result.failed = next - 1 - size
        /\ next \in Int /\ next >= 1 /\ size = ok + Cardinality(entries) /\ ok \in Nat
        /\ result.succeeded \in Nat /\ result.failed \in Int
        /\ Taken \subseteq 1..(next - 1) /\ Cardinality(Taken) >= result.succeeded + ok
    BY <1>1 DEF ProducerInv, TypeOK, Balance, Behind
  <2>2. /\ result'.succeeded = result.succeeded + ok
        /\ result'.failed = result.failed + Cardinality(entries)
    BY <1>1
  <2> QED BY <1>1, <1>2, <1>3, <2>1, <2>2 DEF Balance
<1> QED BY <1>3, <1>4, <1>5 DEF ProducerInv

\* Every step keeps the invariant.
LEMMA ProducerStep == ProducerInv /\ [Next]_vars => ProducerInv'
<1> SUFFICES ASSUME ProducerInv, [Next]_vars PROVE ProducerInv'
  OBVIOUS
<1>1. CASE Return
  <2>1. next = Total + 1
    BY <1>1, ProducerAssumption DEF ProducerAssumption, Return, ProducerInv, TypeOK
  <2> QED BY <1>1, <2>1 DEF Return, ProducerInv, TypeOK, Balance, NoRecordTwice, Behind, Taken
<1>2. CASE UNCHANGED vars
  BY <1>2 DEF vars, ProducerInv, TypeOK, Balance, NoRecordTwice, Behind, Taken
<1> QED BY <1>1, <1>2, StartChunkStep, SendStep, SendThrowsStep, EndChunkStep DEF Next

LEMMA ProducerInit == Init => ProducerInv
<1>1. ASSUME Init PROVE Taken = {}
  BY <1>1 DEF Init, Taken
<1> QED BY <1>1, FS_EmptySet, ProducerAssumption
    DEF ProducerAssumption, Init, ProducerInv, TypeOK, Balance, NoRecordTwice, Behind

LEMMA ProducerInvariant == Spec => []ProducerInv
BY ProducerInit, ProducerStep, PTL DEF Spec

\* The variables of a call are well typed.
THEOREM ProducerTypeCorrect == Spec => []TypeOK
<1>1. ProducerInv => TypeOK
  BY DEF ProducerInv
<1> QED BY <1>1, ProducerInvariant, PTL

\* The PutResult of every call adds up and never overstates, whatever Kinesis
\* rejects, throws or takes, and however the records are cut: at least "succeeded"
\* records are on the stream, and at most "failed" are missing.
THEOREM ResultNeverOverstates == Spec => []ResultIsSafe
<1>1. ASSUME ProducerInv, pc = "returned"
      PROVE  /\ result.succeeded + result.failed = Total
             /\ Cardinality(Taken) >= result.succeeded
             /\ Cardinality((1..Total) \ Taken) <= result.failed
  <2>1. /\ result.succeeded + result.failed = Total /\ result.succeeded \in Nat
        /\ result.failed \in Int /\ Taken \in SUBSET (1..Total)
        /\ Cardinality(Taken) >= result.succeeded
    BY <1>1, ProducerAssumption DEF ProducerAssumption, ProducerInv, TypeOK, Balance, Behind
  <2>2. Cardinality(1..Total) = Total
    BY FS_Interval, ProducerAssumption DEF ProducerAssumption
  <2>3. /\ Cardinality(1..Total) = Cardinality(Taken) + Cardinality((1..Total) \ Taken)
        /\ Cardinality(Taken) \in Nat /\ Cardinality((1..Total) \ Taken) \in Nat
    BY <2>1, SplitEntries, RecordSets
  <2> QED BY <2>1, <2>2, <2>3, ProducerAssumption DEF ProducerAssumption
<1>2. ProducerInv => ResultIsSafe
  BY <1>1 DEF ResultIsSafe
<1> QED BY <1>2, ProducerInvariant, PTL

\* A call never puts a record on the stream twice.
THEOREM SentOnce == Spec => []NoRecordTwice
<1>1. ProducerInv => NoRecordTwice
  BY DEF ProducerInv
<1> QED BY <1>1, ProducerInvariant, PTL

-----------------------------------------------------------------------------
(* The order of the records.                                               *)

\* Chunks are cut at multiples of the batch size: the records of the current
\* one have the same chunk number, and the next one begins a chunk.
Aligned ==
  /\ next <= Total => (next - 1) % BatchSize = 0
  /\ pc = "send" => \A x, y \in (Behind + 1)..(next - 1) :
                      (x - 1) \div BatchSize = (y - 1) \div BatchSize

OrderInv == ProducerInv /\ Aligned /\ OvertakenOnlyWithinChunk

\* The batch size is a positive number, whatever the option says.
LEMMA BatchSizePositive == BatchSize \in Nat \ {0}
BY ProducerAssumption DEF ProducerAssumption, BatchSize, Smaller, Larger

\* Numbers from a multiple of b on, fewer than b, have the same quotient.
LEMMA SameQuotient ==
  ASSUME NEW b \in Nat \ {0}, NEW n \in Nat, n % b = 0, NEW x \in Int, n <= x, x < n + b
  PROVE  x \div b = n \div b
OBVIOUS

\* A multiple of b and b make a multiple of b.
LEMMA NextMultiple ==
  ASSUME NEW b \in Nat \ {0}, NEW n \in Nat, n % b = 0
  PROVE  (n + b) % b = 0
<1>1. PICK q \in Nat : n = b * q
  <2>1. n \div b \in Nat /\ n = b * (n \div b)
    OBVIOUS
  <2> QED BY <2>1
<1>2. n + b = b * (q + 1) /\ q + 1 \in Nat
  BY <1>1
<1>3. ASSUME NEW p \in Nat PROVE (b * p) % b = 0
  OBVIOUS
<1> QED BY <1>2, <1>3

\* A request can only overtake records of its own chunk: everything on the
\* stream is from this chunk or from an earlier one.
LEMMA RequestInOrder ==
  ASSUME OrderInv, pc = "send", NEW s \in SUBSET entries, stream' = Append(stream, s)
  PROVE  OvertakenOnlyWithinChunk'
<1>1. DOMAIN stream' = DOMAIN stream \cup {Len(stream) + 1} /\ DOMAIN stream = 1..Len(stream)
      /\ Len(stream) \in Nat
  <2>1. entries \in SUBSET (1..Total) /\ stream \in Seq(SUBSET (1..Total))
    BY DEF OrderInv, ProducerInv, TypeOK
  <2> QED BY <2>1
<1>2. stream'[Len(stream) + 1] = s /\ \A k \in DOMAIN stream : stream'[k] = stream[k]
  BY DEF OrderInv, ProducerInv, TypeOK
<1>3. entries \subseteq (Behind + 1)..(next - 1) /\ Taken \subseteq 1..(next - 1) /\ Behind \in Nat
      /\ next \in Int
  BY DEF OrderInv, ProducerInv, TypeOK, Balance
<1>4. \A j \in DOMAIN stream : stream[j] \subseteq Taken
  BY DEF Taken
<1>5. \A x, y \in (Behind + 1)..(next - 1) : (x - 1) \div BatchSize = (y - 1) \div BatchSize
  BY DEF OrderInv, Aligned
<1>6. SUFFICES ASSUME NEW j \in DOMAIN stream', NEW k \in DOMAIN stream', j < k,
                      NEW x \in stream'[j], NEW y \in stream'[k], x > y
               PROVE  (x - 1) \div BatchSize = (y - 1) \div BatchSize
  BY DEF OvertakenOnlyWithinChunk, BatchSize
<1>7. j \in DOMAIN stream /\ stream'[j] = stream[j]
  BY <1>1, <1>2, <1>6
<1>8. CASE k \in DOMAIN stream
  BY <1>2, <1>6, <1>7, <1>8 DEF OrderInv, OvertakenOnlyWithinChunk
<1>9. CASE k = Len(stream) + 1
  <2>1. y \in (Behind + 1)..(next - 1)
    BY <1>2, <1>3, <1>6, <1>9
  <2>2. x \in 1..(next - 1)
    BY <1>3, <1>4, <1>6, <1>7
  <2>3. x \in (Behind + 1)..(next - 1)
    BY <1>3, <1>6, <2>1, <2>2
  <2> QED BY <1>5, <2>1, <2>3
<1> QED BY <1>1, <1>6, <1>8, <1>9

\* A new chunk begins where the last one ended, and is at most BatchSize long.
LEMMA StartChunkAligned == ASSUME OrderInv, StartChunk PROVE Aligned'
<1> DEFINE last == ChunkEnd(next)
<1>1. /\ pc = "chunk" /\ next \in 1..Total /\ (next - 1) % BatchSize = 0
      /\ size' = last - next + 1 /\ next' = last + 1 /\ pc' = "send"
  BY ProducerAssumption DEF ProducerAssumption, StartChunk, OrderInv, Aligned, ProducerInv, TypeOK
<1>2. /\ last \in Int /\ next <= last /\ last <= Total
      /\ last = next + BatchSize - 1 \/ last = Total
      /\ last <= next + BatchSize - 1
  <2>1. last \in Int /\ next <= last /\ last <= Total
    BY <1>1, ChunkBounds
  <2> QED BY <1>1, <2>1, BatchSizePositive, ProducerAssumption
          DEF ProducerAssumption, ChunkEnd, Smaller
<1> HIDE DEF last
<1>3. Behind' = next - 1 /\ next' - 1 = last
  BY <1>1, <1>2 DEF Behind
<1>4. ASSUME NEW x \in next..last PROVE (x - 1) \div BatchSize = (next - 1) \div BatchSize
  <2>1. x - 1 \in Int /\ next - 1 <= x - 1 /\ x - 1 < (next - 1) + BatchSize
    BY <1>1, <1>2, BatchSizePositive
  <2>2. next - 1 \in Nat /\ (next - 1) % BatchSize = 0 /\ BatchSize \in Nat \ {0}
    BY <1>1, BatchSizePositive
  <2>3. \A b \in Nat \ {0}, n \in Nat, z \in Int :
          n % b = 0 /\ n <= z /\ z < n + b => z \div b = n \div b
    BY SameQuotient
  <2> HIDE DEF last
  <2> QED BY <2>1, <2>2, <2>3
<1>5. \A x, y \in next..last : (x - 1) \div BatchSize = (y - 1) \div BatchSize
  BY <1>4
<1>6. \A x, y \in (Behind' + 1)..(next' - 1) : (x - 1) \div BatchSize = (y - 1) \div BatchSize
  BY <1>1, <1>3, <1>5
<1>7. ASSUME next' <= Total PROVE (next' - 1) % BatchSize = 0
  <2>1. next' - 1 = (next - 1) + BatchSize
    BY <1>1, <1>2, <1>7, BatchSizePositive, ProducerAssumption DEF ProducerAssumption
  <2>2. next - 1 \in Nat /\ (next - 1) % BatchSize = 0 /\ BatchSize \in Nat \ {0}
    BY <1>1, BatchSizePositive
  <2>3. \A b \in Nat \ {0}, n \in Nat : n % b = 0 => (n + b) % b = 0
    BY NextMultiple
  <2>4. ((next - 1) + BatchSize) % BatchSize = 0
    BY <2>2, <2>3
  <2> QED BY <2>1, <2>4
<1>8. BatchSize' = BatchSize /\ Total' = Total
  BY DEF BatchSize
<1> QED BY <1>6, <1>7, <1>8 DEF Aligned

\* Every step keeps the records of the stream in the order of their chunks.
LEMMA OrderStep == ASSUME OrderInv, [Next]_vars PROVE OrderInv'
<1>1. ProducerInv'
  BY ProducerStep DEF OrderInv
<1>2. BatchSize' = BatchSize
  BY DEF BatchSize
<1>3. CASE StartChunk
  <2>1. UNCHANGED stream
    BY <1>3 DEF StartChunk
  <2>2. OvertakenOnlyWithinChunk'
    BY <1>2, <2>1 DEF OrderInv, OvertakenOnlyWithinChunk
  <2> QED BY <1>1, <1>3, <2>2, StartChunkAligned DEF OrderInv
<1>4. CASE Send
  <2>1. pc = "send" /\ UNCHANGED <<pc, next, size>>
    BY <1>4 DEF Send
  <2>2. PICK rejected \in SUBSET entries : stream' = Append(stream, entries \ rejected)
    BY <1>4 DEF Send
  <2>3. Aligned'
    BY <1>2, <2>1 DEF OrderInv, Aligned, Behind
  <2>4. entries \ rejected \in SUBSET entries
    OBVIOUS
  <2>5. OvertakenOnlyWithinChunk'
    BY <2>1, <2>2, <2>4, RequestInOrder
  <2> QED BY <1>1, <2>3, <2>5 DEF OrderInv
<1>5. CASE SendThrows
  <2>1. pc = "send" /\ pc' = "chunk" /\ next' = next
    BY <1>5 DEF SendThrows
  <2>2. PICK taken \in SUBSET entries : stream' = Append(stream, taken)
    BY <1>5 DEF SendThrows
  <2>3. Aligned'
    BY <1>2, <2>1 DEF OrderInv, Aligned
  <2>4. OvertakenOnlyWithinChunk'
    BY <2>1, <2>2, RequestInOrder
  <2> QED BY <1>1, <2>3, <2>4 DEF OrderInv
<1>6. CASE EndChunk \/ Return
  <2>1. pc' # "send" /\ UNCHANGED <<next, stream>>
    BY <1>6 DEF EndChunk, Return
  <2> QED BY <1>1, <1>2, <2>1 DEF OrderInv, Aligned, OvertakenOnlyWithinChunk
<1>7. CASE UNCHANGED vars
  <2>1. UNCHANGED <<pc, next, size, stream>>
    BY <1>7 DEF vars
  <2> QED BY <1>1, <1>2, <2>1 DEF OrderInv, Aligned, OvertakenOnlyWithinChunk, Behind
<1> QED BY <1>3, <1>4, <1>5, <1>6, <1>7 DEF Next

LEMMA OrderInit == ASSUME Init PROVE OrderInv
<1>1. next = 1 /\ pc = "chunk" /\ stream = <<>>
  BY DEF Init
<1>2. (next - 1) % BatchSize = 0
  BY <1>1, BatchSizePositive
<1> QED BY <1>1, <1>2, ProducerInit DEF OrderInv, Aligned, OvertakenOnlyWithinChunk

\* Records overtake each other only within a chunk of the call, however often
\* entries are sent again and however the records are cut.
THEOREM OrderKeptAcrossChunks == Spec => []OvertakenOnlyWithinChunk
<1>1. Init => OrderInv
  BY OrderInit
<1>2. OrderInv /\ [Next]_vars => OrderInv'
  BY OrderStep
<1>3. OrderInv => OvertakenOnlyWithinChunk
  BY DEF OrderInv
<1> QED BY <1>1, <1>2, <1>3, PTL DEF Spec

-----------------------------------------------------------------------------
(* How long a call takes.                                                  *)

\* Starting a chunk uses up at least one record, whatever the others would take.
LEMMA FewerRecords ==
  ASSUME NEW left \in Nat, NEW used \in Nat \ {0}, used <= left, NEW m \in Nat
  PROVE  (left - used) * m + m <= left * m /\ (left - used) * m \in Nat
<1>1. left - used \in Nat /\ left - used + 1 <= left
  OBVIOUS
<1>2. PICK rest \in Nat : left = (left - used) + 1 + rest
  <2>1. used - 1 \in Nat /\ left = (left - used) + 1 + (used - 1)
    OBVIOUS
  <2> QED BY <2>1
<1>3. \A x, y \in Nat : x * y \in Nat
  OBVIOUS
<1>4. \A x, y, z \in Nat : (x + 1 + y) * z = x * z + z + y * z
  OBVIOUS
<1> DEFINE x == left - used
<1>5. x \in Nat /\ left = x + 1 + rest
  BY <1>1, <1>2
<1> HIDE DEF x
<1>6. left * m = x * m + m + rest * m /\ x * m \in Nat /\ rest * m \in Nat /\ left * m \in Nat
  BY <1>3, <1>4, <1>5
<1>7. x * m + m <= left * m
  <2> DEFINE xm == x * m
             rm == rest * m
             lm == left * m
  <2>1. lm = xm + m + rm /\ xm \in Nat /\ rm \in Nat /\ lm \in Nat
    BY <1>6
  <2> HIDE DEF xm, rm, lm
  <2>2. xm + m <= lm
    BY <2>1
  <2> QED BY <2>2 DEF xm, lm
<1> QED BY <1>6, <1>7 DEF x

\* Every call of putRecords ends within a number of steps, and so of requests, that
\* only the number of its records and the limit on the attempts determine, for any
\* batch size and whatever Kinesis answers: each step leaves it fewer.
THEOREM CallsShrink == Spec => CallShrinks
<1>1. ASSUME TypeOK, TypeOK', Next PROVE StepsLeft' \in Nat /\ StepsLeft' < StepsLeft
  <2> DEFINE m == MaxRetries + 2
             left == Total + 1 - next
             within == CASE pc = "chunk" -> 1 [] pc = "send" -> MaxRetries - attempt + 2
                         [] pc = "returned" -> 0
             after == Total + 1 - next'
             withinAfter == CASE pc' = "chunk" -> 1 [] pc' = "send" -> MaxRetries - attempt' + 2
                              [] pc' = "returned" -> 0
  <2>1. /\ m \in Nat /\ left \in Nat /\ after \in Nat /\ attempt \in 0 .. MaxRetries
        /\ MaxRetries \in Nat
    <3>1. Total \in Nat /\ MaxRetries \in Nat
      BY ProducerAssumption DEF ProducerAssumption
    <3>2. next \in 1 .. (Total + 1) /\ next' \in 1 .. (Total + 1) /\ attempt \in 0 .. MaxRetries
      BY <1>1 DEF TypeOK
    <3>3. m \in Nat
      BY <3>1
    <3>4. \A n \in 1 .. (Total + 1) : Total + 1 - n \in Nat
      BY <3>1
    <3>5. left \in Nat /\ after \in Nat
      BY <3>2, <3>4, Zenon
    <3> QED BY <3>1, <3>2, <3>3, <3>5
  <2>2. StepsLeft = left * m + within /\ StepsLeft' = after * m + withinAfter
    BY DEF StepsLeft
  <2>3. left * m \in Nat /\ after * m \in Nat
    BY <2>1
  <2>4. CASE StartChunk
    <3>1. pc = "chunk" /\ next \in 1 .. Total /\ next' = ChunkEnd(next) + 1 /\ attempt' = 0
          /\ pc' = "send"
      BY <1>1, <2>4, ProducerAssumption DEF ProducerAssumption, TypeOK, StartChunk
    <3>2. ChunkEnd(next) \in Int /\ next <= ChunkEnd(next) /\ ChunkEnd(next) <= Total
      BY <3>1, ChunkBounds
    <3> DEFINE used == ChunkEnd(next) + 1 - next
    <3>3. used \in Nat \ {0} /\ used <= left /\ after = left - used
      <4>1. Total \in Nat
        BY ProducerAssumption DEF ProducerAssumption
      <4> QED BY <3>1, <3>2, <4>1
    <3> HIDE DEF m, used
    <3>4. after * m + m <= left * m
      BY <2>1, <3>3, FewerRecords
    <3>5. within = 1 /\ withinAfter = m
      BY <2>1, <3>1 DEF m
    <3> DEFINE old == left * m
               new == after * m
    <3>6. /\ old \in Nat /\ new \in Nat /\ new + m <= old
          /\ StepsLeft = old + 1 /\ StepsLeft' = new + m
      BY <2>2, <2>3, <3>4, <3>5
    <3> HIDE DEF old, new, left, after
    <3> QED BY <2>1, <3>6
  <2>5. ASSUME next' = next, withinAfter \in Nat, withinAfter < within, within \in Nat
        PROVE  StepsLeft' \in Nat /\ StepsLeft' < StepsLeft
    <3>1. after = left
      BY <2>5
    <3> HIDE DEF left, after, m, within, withinAfter
    <3> QED BY <2>2, <2>3, <2>5, <3>1
  <2>6. CASE Send
    BY <2>1, <2>5, <2>6 DEF Send
  <2>7. CASE SendThrows
    BY <2>1, <2>5, <2>7 DEF SendThrows
  <2>8. CASE EndChunk
    BY <2>1, <2>5, <2>8 DEF EndChunk
  <2>9. CASE Return
    BY <2>1, <2>5, <2>9 DEF Return
  <2> QED BY <1>1, <2>4, <2>6, <2>7, <2>8, <2>9 DEF Next
<1>2. TypeOK /\ TypeOK' /\ [Next]_vars => [StepsLeft' \in Nat /\ StepsLeft' < StepsLeft]_vars
  BY <1>1
<1> QED BY <1>2, ProducerTypeCorrect, PTL DEF Spec, CallShrinks
=============================================================================
