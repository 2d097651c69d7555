------------------------------- MODULE History -------------------------------
(***************************************************************************)
(* The asset-history table of one asset: the History Projector that        *)
(* writes a row per risk event, the clean-up of the admin API that deletes *)
(* them page by page, and the TTL.                                         *)
(*                                                                         *)
(* A risk event is its position in the stream of the asset; its row is     *)
(* filed under its timestamp, which events repeat when an agent upstream   *)
(* processed a reading again.  A row is the event it was written from.     *)
(***************************************************************************)
EXTENDS Naturals, Sequences, FiniteSetsExt

CONSTANTS
  Stamp,         \* the timestamp of each event of the stream
  BatchSize,     \* batch_size of the event source mapping
  ChunkSize,     \* Puts of a BatchWriteItem of the projector
  DeleteSize,    \* deletes of a BatchWriteItem of the clean-up
  PageSize,      \* rows of a page of a Query
  MaxRetries,    \* maximum_retry_attempts
  Faults,        \* subset of {"throttle", "timeout", "unprocessed"}
  MaxClears      \* bound: clean-ups

Events == DOMAIN Stamp
Stamps == {Stamp[e] : e \in Events}

ASSUME HistoryAssumption ==
  /\ Stamp \in Seq(Nat \ {0})
  /\ {BatchSize, ChunkSize, DeleteSize, PageSize} \subseteq Nat \ {0}
  /\ {MaxRetries, MaxClears} \subseteq Nat
  /\ Faults \subseteq {"throttle", "timeout", "unprocessed"}

VARIABLES
  table,      \* timestamp -> the event its row was written from; only the rows there are
  next,       \* the first event behind the last checkpoint
  lane,       \* ranges of events still to be processed, the first one at work
  at,         \* the first event of that range not yet written
  dlq,        \* events given up
  clear,      \* the clean-up: [pc, after, page] and how many there were
  skipped,    \* ghost: events whose Put came back unprocessed, the last time
  old,        \* ghost: timestamps in the table since before the clean-up
  removed     \* ghost: timestamps whose row was deleted or expired

writer == <<next, lane, at, dlq, skipped>>
vars == <<table, writer, clear, old, removed>>

Rows == DOMAIN table
Idle == [pc |-> "idle", after |-> 0, page |-> {}, count |-> 0, kept |-> {}]

Init ==
  /\ table = << >> /\ next = 1 /\ lane = << >> /\ at = 1 /\ dlq = {}
  /\ clear = Idle
  /\ skipped = {} /\ old = {} /\ removed = {}

-----------------------------------------------------------------------------
(* The event source mapping of the projector.                              *)

Batch(from, to) == [from |-> from, to |-> to, tries |-> 0]

\* A batch of any size up to the limit is delivered when the previous is done.
Deliver ==
  /\ lane = << >>
  /\ \E to \in next .. Len(Stamp) :
       /\ to < next + BatchSize
       /\ lane' = <<Batch(next, to)>>
  /\ at' = next
  /\ UNCHANGED <<table, next, dlq, skipped, clear, old, removed>>

\* Mutant: the later half is run first.
HalvesSwapped(range) ==
  LET mid == (range.from + range.to) \div 2
  IN  <<Batch(mid + 1, range.to), Batch(range.from, mid)>>
\* bisect_batch_on_function_error: the halves of a failed batch, in order.
Halves(range) ==
  LET mid == (range.from + range.to) \div 2
  IN  <<Batch(range.from, mid), Batch(mid + 1, range.to)>>

Exhausted(range) == range.tries >= MaxRetries

\* Mutant: attempts are not counted.
AgainUncounted(range) == range
Again(range) == [range EXCEPT !.tries = @ + 1]

\* The range at work is done with: the checkpoint moves, and the next one starts.
Leave ==
  /\ lane' = Tail(lane)
  /\ next' = Max({next, Head(lane).to + 1})
  /\ at' = IF Len(lane) = 1 THEN at ELSE lane[2].from

\* The invocation threw: the batch is split, a single event is tried again, and
\* after its retries goes to the queue of failures.
FailInvocation ==
  LET range == Head(lane)
  IN  \/ /\ range.from < range.to
         /\ lane' = Halves(range) \o Tail(lane)
         /\ at' = Halves(range)[1].from
         /\ UNCHANGED <<next, dlq>>
      \/ /\ range.from = range.to
         /\ ~Exhausted(range)
         /\ lane' = <<Again(range)>> \o Tail(lane)
         /\ at' = range.from
         /\ UNCHANGED <<next, dlq>>
      \/ /\ range.from = range.to
         /\ Exhausted(range)
         /\ dlq' = dlq \cup {range.from}
         /\ Leave

-----------------------------------------------------------------------------
(* HistoryProjectorHandler.process and HistoryRepository.batchWrite.       *)

\* rows.slice(i, i + BATCH_SIZE)
Chunk == {e \in at .. Head(lane).to : e < at + ChunkSize}

\* BatchWriteItem refuses a request with two Puts of one key.
DuplicateKeys(events) == \E e, f \in events : e # f /\ Stamp[e] = Stamp[f]

\* The rows of events without a common timestamp are put in the table.
Written(events) ==
  [t \in Rows \cup {Stamp[e] : e \in events} |->
     IF \E e \in events : Stamp[e] = t
     THEN CHOOSE e \in events : Stamp[e] = t
     ELSE table[t]]

PutRows(events) ==
  /\ table' = Written(events)
  /\ old' = old \ {Stamp[e] : e \in events}
  /\ removed' = removed \ {Stamp[e] : e \in events}

\* Mutant: the projector returns after its first chunk.
EndAtFirstChunk == UNCHANGED dlq /\ Leave
\* One chunk was answered; after the last one the invocation returns.
EndChunk ==
  /\ UNCHANGED dlq
  /\ IF at + ChunkSize <= Head(lane).to
     THEN at' = at + ChunkSize /\ UNCHANGED <<lane, next>>
     ELSE Leave

WriteChunk ==
  /\ lane # << >>
  /\ ~DuplicateKeys(Chunk)
  /\ PutRows(Chunk)
  /\ skipped' = skipped \ Chunk
  /\ EndChunk
  /\ UNCHANGED <<clear>>

\* Some Puts come back as UnprocessedItems, which nobody looks at.
SkipRows ==
  /\ "unprocessed" \in Faults
  /\ lane # << >>
  /\ ~DuplicateKeys(Chunk)
  /\ \E left \in (SUBSET Chunk) \ {{}} :
       /\ PutRows(Chunk \ left)
       /\ skipped' = (skipped \ Chunk) \cup left
  /\ EndChunk
  /\ UNCHANGED <<clear>>

\* The request is refused, for two rows with one key or for its load.
RefuseChunk ==
  /\ lane # << >>
  /\ DuplicateKeys(Chunk) \/ "throttle" \in Faults
  /\ FailInvocation
  /\ UNCHANGED <<table, skipped, clear, old, removed>>

\* No answer arrives, though some of the rows are written.
LoseAnswer ==
  /\ "timeout" \in Faults
  /\ lane # << >>
  /\ ~DuplicateKeys(Chunk)
  /\ \E done \in (SUBSET Chunk) \ {{}} : PutRows(done)
  /\ FailInvocation
  /\ UNCHANGED <<skipped, clear>>

-----------------------------------------------------------------------------
(* deleteHistoryForAsset, and the TTL.                                     *)

\* The n smallest of a set of keys: the order in which a Query returns rows.
Lowest(n, stamps) == {t \in stamps : Cardinality({s \in stamps : s < t}) < n}
Without(stamps) == [t \in Rows \ stamps |-> table[t]]

Drop(stamps) ==
  /\ table' = Without(stamps)
  /\ old' = old \ stamps
  /\ removed' = removed \cup (stamps \cap Rows)

StartClear ==
  /\ clear.pc \in {"idle", "done", "failed"}
  /\ clear.count < MaxClears
  /\ clear' = [Idle EXCEPT !.pc = "query", !.count = clear.count + 1]
  /\ old' = Rows
  /\ UNCHANGED <<table, writer, removed>>

\* Mutant: LastEvaluatedKey is not looked at.
OnePage(rest, page) == FALSE
More(rest, page) == page # rest

\* A page of keys after ExclusiveStartKey; after = 0 when it is the last one.
ClearQuery ==
  /\ clear.pc = "query"
  /\ LET rest == {t \in Rows : t > clear.after}
         page == Lowest(PageSize, rest)
         last == IF More(rest, page) THEN Max(page) ELSE 0
     IN  clear' = [clear EXCEPT !.page = page, !.after = last,
                                !.pc = IF page = {} THEN "done" ELSE "delete"]
  /\ UNCHANGED <<table, writer, old, removed>>

\* One BatchWriteItem of deletes; those in `left` come back unprocessed.
DeleteAllBut(left) ==
  LET chunk == Lowest(DeleteSize, clear.page)
      rest == clear.page \ chunk
  IN  /\ left \subseteq chunk
      /\ Drop(chunk \ left)
      /\ clear' = [clear EXCEPT !.page = rest, !.kept = @ \cup left,
                                !.pc = IF rest # {} THEN "delete"
                                       ELSE IF clear.after # 0 THEN "query" ELSE "done"]

ClearDelete ==
  /\ clear.pc = "delete"
  /\ DeleteAllBut({})
  /\ UNCHANGED <<writer>>

ClearSkips ==
  /\ clear.pc = "delete"
  /\ "unprocessed" \in Faults
  /\ \E left \in (SUBSET clear.page) \ {{}} : DeleteAllBut(left)
  /\ UNCHANGED <<writer>>

\* A call throws: the request fails where it is.
ClearFails ==
  /\ clear.pc \in {"query", "delete"}
  /\ "throttle" \in Faults
  /\ clear' = [clear EXCEPT !.pc = "failed"]
  /\ UNCHANGED <<table, writer, old, removed>>

\* DynamoDB deletes a row some time after its expires_at.
Expire ==
  /\ \E t \in Rows : Drop({t})
  /\ UNCHANGED <<writer, clear>>

-----------------------------------------------------------------------------
Project == WriteChunk \/ SkipRows \/ RefuseChunk \/ LoseAnswer
Clear == ClearQuery \/ ClearDelete \/ ClearSkips \/ ClearFails

Next == Deliver \/ Project \/ StartClear \/ Clear \/ Expire

Spec == Init /\ [][Next]_vars

\* Lambda runs what is delivered, and the API works a clean-up off.
FairSpec ==
  /\ Spec
  /\ WF_vars(Project) /\ WF_vars(Clear)

-----------------------------------------------------------------------------
(* Properties.                                                             *)

\* Type invariant: a row is filed under the timestamp of its event, and the
\* invocation is within its range.
TypeOK ==
  /\ Rows \subseteq Stamps /\ \A t \in Rows : table[t] \in Events /\ Stamp[table[t]] = t
  /\ next \in 1 .. Len(Stamp) + 1
  /\ \A i \in DOMAIN lane : lane[i].from <= lane[i].to /\ lane[i].tries \in 0 .. MaxRetries
  /\ lane # << >> => at \in Head(lane).from .. Head(lane).to
  /\ dlq \cup skipped \subseteq Events
  /\ clear.pc \in {"idle", "query", "delete", "done", "failed"}

\* Every event the projector is done with has a row under its timestamp, unless
\* the row was removed, the event is in the queue of failures or its Put came
\* back unprocessed: refusals, lost answers and bisection lose nothing.
NothingElseLost ==
  \A e \in 1 .. next - 1 :
    Stamp[e] \in Rows \cup removed \/ e \in dlq \cup skipped

\* Between batches a row is that of the last event with its timestamp which was
\* not given up or skipped: the table is what a replay of the stream yields,
\* although attempts overlap and repeat.
LatestWins ==
  lane = << >> =>
    \A t \in Rows : \A e \in 1 .. next - 1 :
      Stamp[e] = t /\ e \notin dlq \cup skipped => table[t] >= e

\* A clean-up that reports success leaves no row of before it, except those
\* whose deletes came back unprocessed, though rows are written between its pages.
ClearedIsNew == clear.pc = "done" => old \subseteq clear.kept

\* Every delivered batch is left behind, whatever is refused: a poisonous pair of
\* events is separated by bisection, and a single event runs out of retries.
LaneMoves == (lane # << >>) ~> (lane = << >>)

\* How many steps the projector may still take with what it was delivered: what its
\* invocation has left, and what each split and each range behind it may add.
StepsLeft ==
  IF lane = << >> THEN 0
  ELSE LET range == Head(lane)
           events == lane[Len(lane)].to + 1 - range.from
       IN  (MaxRetries + BatchSize) * (2 * events - Len(lane))
             + (MaxRetries - range.tries) + (range.to + 1 - at)

\* The reason for LaneMoves, which needs no fairness: every answer, refusal or lost
\* answer brings the lane closer to its end, because a failed range is split or
\* uses up a retry, and no clean-up or expiry gives it more to do.
LaneShrinks ==
  [][IF Project THEN StepsLeft' \in Nat /\ StepsLeft' < StepsLeft
     ELSE lane # << >> => UNCHANGED StepsLeft]_vars

=============================================================================
