--------------------------- MODULE KinesisProducer ---------------------------
(***************************************************************************)
(* One call of KinesisProducer.putRecords: the records, numbered in order, *)
(* are cut into chunks of BatchSize; putBatch sends a chunk and sends      *)
(* again, at most MaxRetries times in all, the entries Kinesis rejected.   *)
(* An exception ends the chunk without a retry and is swallowed.           *)
(* The backoff between attempts is left out: nothing else runs meanwhile.  *)
(* Retries inside the AWS client are not modelled: a send is one request.  *)
(***************************************************************************)
EXTENDS Integers, Sequences, FiniteSets

CONSTANTS
  Total,        \* records in the call
  BatchOption,  \* the constructor's batchSize
  MaxBatchSize, \* MAX_BATCH_SIZE
  MaxRetries    \* MAX_RETRIES

ASSUME ProducerAssumption ==
  /\ Total \in Nat /\ BatchOption \in Int
  /\ MaxBatchSize \in Nat \ {0} /\ MaxRetries \in Nat \ {0}

Smaller(a, b) == IF a <= b THEN a ELSE b
Larger(a, b) == IF a >= b THEN a ELSE b

BatchSize == Smaller(Larger(BatchOption, 1), MaxBatchSize)

VARIABLES
  pc,         \* "chunk": between chunks; "send": in putBatch; "returned"
  next,       \* the first record that is in no chunk yet
  size,       \* records.length of the current chunk
  entries,    \* its entries still to be sent
  attempt,    \* its requests so far
  ok,         \* its succeeded counter
  result,     \* the PutResult of the call
  stream      \* per request: the records Kinesis took from it

vars == <<pc, next, size, entries, attempt, ok, result, stream>>

Taken == UNION {stream[k] : k \in DOMAIN stream}

Init ==
  /\ pc = "chunk"
  /\ next = 1
  /\ size = 0
  /\ entries = {}
  /\ attempt = 0
  /\ ok = 0
  /\ result = [succeeded |-> 0, failed |-> 0]
  /\ stream = <<>>

\* The last record of the chunk that begins at first (Array.slice).
ChunkEnd(first) == Smaller(first + BatchSize - 1, Total)

\* Mutant: entries given up in a chunk are carried into the next one.
StartChunkCarries ==
  /\ pc = "chunk" /\ next <= Total
  /\ entries' = entries \cup next..ChunkEnd(next)
  /\ size' = Cardinality(entries')
  /\ next' = ChunkEnd(next) + 1
  /\ attempt' = 0
  /\ ok' = 0
  /\ pc' = "send"
  /\ UNCHANGED <<result, stream>>

StartChunk ==
  /\ pc = "chunk" /\ next <= Total
  /\ LET last == ChunkEnd(next) IN
       /\ entries' = next..last
       /\ size' = last - next + 1
       /\ next' = last + 1
  /\ attempt' = 0
  /\ ok' = 0
  /\ pc' = "send"
  /\ UNCHANGED <<result, stream>>

\* Mutant: if any entry was rejected, all of them are sent again.
SendAgainAll ==
  /\ pc = "send" /\ entries # {} /\ attempt < MaxRetries
  /\ \E rejected \in SUBSET entries :
       /\ entries' = IF rejected = {} THEN {} ELSE entries
       /\ ok' = ok + Cardinality(entries \ rejected)
       /\ stream' = Append(stream, entries \ rejected)
  /\ attempt' = attempt + 1
  /\ UNCHANGED <<pc, next, size, result>>

\* Kinesis answers, one result per entry, and rejects some of them.
Send ==
  /\ pc = "send" /\ entries # {} /\ attempt < MaxRetries
  /\ \E rejected \in SUBSET entries :
       /\ entries' = rejected
       /\ ok' = ok + Cardinality(entries \ rejected)
       /\ stream' = Append(stream, entries \ rejected)
  /\ attempt' = attempt + 1
  /\ UNCHANGED <<pc, next, size, result>>

AddToResult(succeeded, failed) ==
  result' = [succeeded |-> result.succeeded + succeeded, failed |-> result.failed + failed]

\* client.send throws; Kinesis may have taken records of the request.  What
\* was not counted as succeeded counts as failed.
SendThrows ==
  /\ pc = "send" /\ entries # {} /\ attempt < MaxRetries
  /\ \E taken \in SUBSET entries : stream' = Append(stream, taken)
  /\ AddToResult(ok, Cardinality(entries) + (size - ok - Cardinality(entries)))
  /\ pc' = "chunk"
  /\ UNCHANGED <<next, size, entries, attempt, ok>>

\* Mutant: what was still rejected at the last attempt is not reported.
EndChunkForgets ==
  /\ pc = "send"
  /\ entries = {} \/ attempt = MaxRetries
  /\ AddToResult(ok, 0)
  /\ pc' = "chunk"
  /\ UNCHANGED <<next, size, entries, attempt, ok, stream>>

\* Mutant: the loop has no limit on the attempts.
EndChunkIfEmpty ==
  /\ pc = "send"
  /\ entries = {}
  /\ AddToResult(ok, Cardinality(entries))
  /\ pc' = "chunk"
  /\ UNCHANGED <<next, size, entries, attempt, ok, stream>>

\* Nothing is left to send, or the attempts are used up.
EndChunk ==
  /\ pc = "send"
  /\ entries = {} \/ attempt = MaxRetries
  /\ AddToResult(ok, Cardinality(entries))
  /\ pc' = "chunk"
  /\ UNCHANGED <<next, size, entries, attempt, ok, stream>>

Return ==
  /\ pc = "chunk" /\ next > Total
  /\ pc' = "returned"
  /\ UNCHANGED <<next, size, entries, attempt, ok, result, stream>>

Next == StartChunk \/ Send \/ SendThrows \/ EndChunk \/ Return

Spec == Init /\ [][Next]_vars

\* Every step is taken by the caller's own event loop.
FairSpec == Spec /\ WF_vars(Next)

-----------------------------------------------------------------------------
(* Properties.                                                             *)

\* Type invariant.
TypeOK ==
  /\ pc \in {"chunk", "send", "returned"}
  /\ next \in 1..(Total + 1)
  /\ size \in Nat /\ attempt \in 0..MaxRetries /\ ok \in Nat
  /\ entries \subseteq 1..Total
  /\ result \in [succeeded : Int, failed : Int]
  /\ stream \in Seq(SUBSET (1..Total))

\* The PutResult adds up, every record of the call being counted once across
\* chunks, retries and exceptions, and never overstates: what it counts as
\* succeeded is on the stream, and at most "failed" records are missing from it.
ResultIsSafe ==
  pc = "returned" => /\ result.succeeded + result.failed = Total
                     /\ Cardinality(Taken) >= result.succeeded
                     /\ Cardinality((1..Total) \ Taken) <= result.failed

\* The retry loop of a call puts no record on the stream twice: only rejected
\* entries are sent again, and after an exception none is.
NoRecordTwice ==
  \A j, k \in DOMAIN stream : j # k => stream[j] \cap stream[k] = {}

\* The call returns, whatever Kinesis answers.
Returns == <>(pc = "returned")

\* How many steps a call has left at most: for each record that is in no chunk yet,
\* as many as a chunk of its own would take.
StepsLeft ==
  (Total + 1 - next) * (MaxRetries + 2)
    + CASE pc = "chunk" -> 1 [] pc = "send" -> MaxRetries - attempt + 2 [] pc = "returned" -> 0

\* A call ends after a number of requests that only its records and the limit on the
\* attempts determine, however often Kinesis rejects: every step leaves it fewer.
CallShrinks == [][StepsLeft' \in Nat /\ StepsLeft' < StepsLeft]_vars

\* Entries that are sent again can be overtaken, but only by records of their
\* own chunk: a chunk is over before the next one is sent.
OvertakenOnlyWithinChunk ==
  \A j, k \in DOMAIN stream : j < k =>
    \A x \in stream[j], y \in stream[k] :
      x > y => (x - 1) \div BatchSize = (y - 1) \div BatchSize
=============================================================================
