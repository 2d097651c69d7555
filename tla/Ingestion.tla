------------------------------ MODULE Ingestion ------------------------------
(***************************************************************************)
(* The ingestion Lambda on one batch of r17-telemetry: the records are     *)
(* taken in chunks of batchParallelism, the records of a chunk are         *)
(* processed concurrently (Promise.allSettled), each ends on r17-ingested  *)
(* or in the dead-letter queue - or nowhere, because putRecords reports a  *)
(* failed write only in its result and sendToDLQ swallows its errors.      *)
(* The invocation may time out; the batch is then delivered again and,     *)
(* when the retries are used up, sent to the failure destination.  A half  *)
(* of a bisected batch is a batch of this model, with its own retries.     *)
(***************************************************************************)
EXTENDS Integers, Sequences, FiniteSets

CONSTANTS
  Total,        \* records in the batch
  Parallelism,  \* BATCH_PARALLELISM
  MaxRetries,   \* failed invocations before the mapping gives the batch up
  Faults        \* "kinesis": a write fails; "sqs": a DLQ send fails; "timeout"

\* The records of the batch, in stream order.
Records == 1..Total

Kinds == {"valid", "unparseable", "invalid"}

ASSUME IngestionAssumption ==
  /\ {Total, MaxRetries} \subseteq Nat /\ Parallelism \in Nat \ {0}
  /\ Faults \subseteq {"kinesis", "sqs", "timeout"}

VARIABLES
  kind,     \* what parsing and the schema make of each record
  state,    \* per record: "waiting", "fanout", "dlq" or "settled"
  tries,    \* failed invocations on the batch
  pc,       \* "running", "succeeded", or "abandoned" to the failure destination
  ingested, \* the stream r17-ingested
  dlq       \* records in r17-telemetry-dlq by sendToDLQ

vars == <<kind, state, tries, pc, ingested, dlq>>

ChunkOf(r) == (r - 1) \div Parallelism

\* Mutant: the chunk loop waits for the record's own chunk.
ReachedTooLate(r) == \A q \in Records : ChunkOf(q) <= ChunkOf(r) => state[q] = "settled"

\* The chunk loop reaches a record when all chunks before its own settled.
Reached(r) == \A q \in Records : ChunkOf(q) < ChunkOf(r) => state[q] = "settled"

Step(r, from, to) ==
  /\ pc = "running"
  /\ state[r] = from
  /\ state' = [state EXCEPT ![r] = to]

\* processRecord up to its first await: parse, validate, enrich.
Start(r) ==
  /\ Reached(r)
  /\ Step(r, "waiting", IF kind[r] = "valid" THEN "fanout" ELSE "dlq")
  /\ UNCHANGED <<kind, tries, pc, ingested, dlq>>

\* Mutant: the write is repeated although it may have been done.
FanOutRepeats(r) ==
  /\ Step(r, "fanout", "settled")
  /\ \/ ingested' = ingested \o <<r, r>>
     \/ "kinesis" \in Faults /\ UNCHANGED ingested
  /\ UNCHANGED <<kind, tries, pc, dlq>>

\* putRecords resolves in either case, so FANOUT_FAILED is never reached.
FanOut(r) ==
  /\ Step(r, "fanout", "settled")
  /\ \/ ingested' = Append(ingested, r)
     \/ "kinesis" \in Faults /\ UNCHANGED ingested
  /\ UNCHANGED <<kind, tries, pc, dlq>>

SendToDLQ(r) ==
  /\ Step(r, "dlq", "settled")
  /\ \/ dlq' = dlq \cup {r}
     \/ "sqs" \in Faults /\ UNCHANGED dlq
  /\ UNCHANGED <<kind, tries, pc, ingested>>

\* process returns success, whatever happened to the records.
Succeed ==
  /\ pc = "running"
  /\ \A r \in Records : state[r] = "settled"
  /\ pc' = "succeeded"
  /\ UNCHANGED <<kind, state, tries, ingested, dlq>>

RetriesLeft == tries < MaxRetries

\* The invocation is cut off, with some of its calls made.
TimeOut ==
  /\ "timeout" \in Faults
  /\ pc = "running"
  /\ \/ /\ RetriesLeft
        /\ tries' = tries + 1
        /\ state' = [r \in Records |-> "waiting"]
        /\ UNCHANGED pc
     \/ /\ ~RetriesLeft
        /\ pc' = "abandoned"
        /\ UNCHANGED <<state, tries>>
  /\ UNCHANGED <<kind, ingested, dlq>>

Init ==
  /\ kind \in [Records -> Kinds]
  /\ state = [r \in Records |-> "waiting"]
  /\ tries = 0
  /\ pc = "running"
  /\ ingested = <<>>
  /\ dlq = {}

Work(r) == Start(r) \/ FanOut(r) \/ SendToDLQ(r)

Next == (\E r \in Records : Work(r)) \/ Succeed \/ TimeOut

Spec == Init /\ [][Next]_vars

\* The event loop runs every promise of a chunk on.
FairSpec == Spec /\ (\A r \in Records : WF_vars(Work(r))) /\ WF_vars(Succeed)

-----------------------------------------------------------------------------
(* Properties.                                                             *)

\* Type invariant.
TypeOK ==
  /\ kind \in [Records -> Kinds]
  /\ state \in [Records -> {"waiting", "fanout", "dlq", "settled"}]
  /\ tries \in 0..MaxRetries
  /\ pc \in {"running", "succeeded", "abandoned"}
  /\ ingested \in Seq(Records)
  /\ dlq \subseteq Records

\* A record is on the output more than once only because the batch was
\* delivered more than once.
CopiesBoundedByDeliveries ==
  \A r \in Records : Cardinality({k \in DOMAIN ingested : ingested[k] = r}) <= tries + 1

\* The batch leaves the lane, whichever of its calls fail.
BatchSettles == <>(pc # "running")

\* How many steps a batch has left at most: two for each record of each delivery still
\* to come and of the present one, and one to end a delivery.
Waiting == {r \in Records : state[r] = "waiting"}
Unsettled == {r \in Records : state[r] # "settled"}

StepsLeft ==
  IF pc = "running"
    THEN (MaxRetries - tries) * (2 * Total + 1) + Cardinality(Waiting) + Cardinality(Unsettled) + 1
    ELSE 0

\* A batch leaves the lane after a number of steps that only its length and the limit
\* on the retries determine: every step leaves it fewer, in whatever order its
\* records settle and wherever its invocations are cut off.
BatchShrinks == [][StepsLeft' \in Nat /\ StepsLeft' < StepsLeft]_vars

\* "Must NOT drop valid events silently - every event either fans out or goes
\* to DLQ" (ingestion-service.md).  This fails with the fault "kinesis" alone: the
\* result of a failed putRecords is not looked at, and FANOUT_FAILED never sent.
NothingDropped ==
  pc = "succeeded" => \A r \in Records :
    r \in dlq \/ \E k \in DOMAIN ingested : ingested[k] = r
=============================================================================
