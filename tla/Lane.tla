-------------------------------- MODULE Lane --------------------------------
(***************************************************************************)
(* One lane of an event source mapping: the records of one partition key,  *)
(* numbered 1, 2, ... in stream order, handed to the consumer in batches.  *)
(* A lane is a record                                                      *)
(*   from  - the records up to from are checkpointed,                      *)
(*   to    - the current batch is from+1 .. to; there is none if to = from,*)
(*   at    - the record being processed; to + 1 when all are processed,    *)
(*   tries - failed invocations on this batch.                             *)
(* The mapping is configured, not coded, here (infra/envs/dev/main.tf).    *)
(* Redelivering a half of a bisected batch repeats a part of what          *)
(* redelivering the batch repeats, so a lane repeats the batch, and its    *)
(* bound on the failures of a batch stands for the configured retries plus *)
(* the halvings.                                                           *)
(***************************************************************************)
EXTENDS Integers

LaneType == [from : Nat, to : Nat, at : Nat, tries : Nat]

NewLane == [from |-> 0, to |-> 0, at |-> 0, tries |-> 0]

Busy(l) == l.from < l.to

Processed(l) == Busy(l) /\ l.at = l.to + 1

\* Mutant: processing starts at the second record of the batch.
FetchSkipsFirst(l, n) == [l EXCEPT !.to = n, !.at = l.from + 2, !.tries = 0]

\* A batch that ends at record n.
Fetch(l, n) == [l EXCEPT !.to = n, !.at = l.from + 1, !.tries = 0]

\* The consumer goes on to the next record of the batch.
Advance(l) == [l EXCEPT !.at = @ + 1]

\* The batch is done with.
Checkpointed(l) == [from |-> l.to, to |-> l.to, at |-> 0, tries |-> 0]

\* Mutant: failures are not counted.
AfterFailureUncounted(l, maxRetries) ==
  {[l EXCEPT !.at = l.from + 1]}

\* Mutant: a batch whose retries are used up is not let go.
AfterFailureStuck(l, maxRetries) ==
  {m \in {[l EXCEPT !.at = l.from + 1, !.tries = @ + 1]} : l.tries < maxRetries}

\* What may follow a failed invocation: the batch again, or, after maxRetries
\* failures, its rest (the batch was bisected around the record at which it
\* stopped) or nothing more of it.
AfterFailure(l, maxRetries) ==
  IF l.tries < maxRetries
    THEN {[l EXCEPT !.at = l.from + 1, !.tries = @ + 1]}
    ELSE {Checkpointed(l)} \cup {m \in {Advance(l)} : l.at < l.to}
=============================================================================
