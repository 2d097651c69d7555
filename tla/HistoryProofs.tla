----------------------------- MODULE HistoryProofs -----------------------------
(***************************************************************************)
(* Proofs about History, for any stream of timestamps, sizes of batches,   *)
(* chunks and pages, retries and faults: the projector loses only what it  *)
(* gives up, skips or has removed, the last event of a timestamp wins, a   *)
(* clean-up that succeeds leaves no row of before it, and every batch is   *)
(* done with after boundedly many steps of the projector.                  *)
(*                                                                         *)
(* Three arguments.  The ranges of the lane follow each other without a gap*)
(* from the checkpoint on, so what is behind the first event not yet       *)
(* written is settled and only later events are put over it.  And the      *)
(* clean-up has accounted for the old rows up to the key it resumes after, *)
(* as a page holds the lowest keys there are.  And what the ranges may     *)
(* still take, splits and retries included, gets less with every step.     *)
(***************************************************************************)
EXTENDS History, FiniteSetTheorems, SequenceTheorems, TLAPS

Ranges == [from : Nat, to : Nat, tries : Nat]

\* The ranges of the lane are adjacent and begin at the checkpoint; the event at
\* work is in the first.
LaneInv ==
  /\ lane \in Seq(Ranges) /\ at \in Nat
  /\ next \in Nat /\ 1 <= next /\ next <= Len(Stamp) + 1
  /\ \A i \in 1 .. Len(lane) :
       /\ lane[i].from <= lane[i].to /\ lane[i].to <= Len(Stamp) /\ lane[i].tries <= MaxRetries
       /\ lane[i].from = (IF i = 1 THEN next ELSE lane[i - 1].to + 1)
  /\ lane # << >> => next <= at /\ at <= lane[1].to

\* A row is filed under the timestamp of its event.
TableInv ==
  /\ \A t \in Rows : table[t] \in Events /\ Stamp[table[t]] = t
  /\ dlq \subseteq Events /\ skipped \subseteq Events

\* The first event that is not written for good.
Past == IF lane = << >> THEN next ELSE at

Settled(e) ==
  /\ Stamp[e] \in Rows \cup removed \/ e \in dlq \cup skipped
  /\ Stamp[e] \in Rows /\ e \notin dlq \cup skipped => table[Stamp[e]] >= e

SettledInv == \A e \in Nat : 1 <= e /\ e < Past => Settled(e)

\* The clean-up accounted for the old rows up to the key it resumes after.
ClearInv ==
  /\ clear \in [pc : {"idle", "query", "delete", "done", "failed"}, after : Nat,
                page : SUBSET Nat, count : Nat, kept : SUBSET Nat]
  /\ old \subseteq Rows
  /\ clear.pc = "query" => \A t \in old : t <= clear.after => t \in clear.kept
  /\ clear.pc = "delete" =>
       \A t \in old : clear.after = 0 \/ t <= clear.after => t \in clear.kept \cup clear.page
  /\ clear.pc = "done" => old \subseteq clear.kept

Inv == LaneInv /\ TableInv /\ SettledInv /\ ClearInv

-----------------------------------------------------------------------------
(* Finite sets of numbers.                                                 *)

\* A finite set of numbers that is not empty has a lowest and a highest member.
LEMMA Extremes ==
  ASSUME NEW S \in SUBSET Nat, IsFiniteSet(S), S # {}
  PROVE  /\ \E x \in S : \A y \in S : x <= y
         /\ \E x \in S : \A y \in S : y <= x
<1> DEFINE Below(t) == {u \in S : u < t}
           Above(t) == {u \in S : u > t}
<1>0. \A t \in S : t \in Nat
  OBVIOUS
<1>1. /\ \A t \in S : Below(t) \in FiniteSubsetsOf(S)
      /\ \A t \in S : Above(t) \in FiniteSubsetsOf(S)
  <2>1. \A T \in SUBSET S : T \in FiniteSubsetsOf(S)
    BY FS_FiniteSubsetsOfFinite
  <2> QED BY <2>1
<1>2. IsWellFoundedOn(StrictSubsetOrdering(S), FiniteSubsetsOf(S))
  BY FS_StrictSubsetOrderingWellFounded
<1>3. PICK x \in S : \A y \in S : <<Below(y), Below(x)>> \notin StrictSubsetOrdering(S)
  <2> DEFINE B == {Below(t) : t \in S}
  <2>1. B \subseteq FiniteSubsetsOf(S) /\ B # {}
    BY <1>1
  <2>2. \E b \in B : \A c \in B : <<c, b>> \notin StrictSubsetOrdering(S)
    <3> HIDE DEF B
    <3> QED BY <1>2, <2>1, WFMin
  <2> QED BY <2>2
<1>4. PICK z \in S : \A y \in S : <<Above(y), Above(z)>> \notin StrictSubsetOrdering(S)
  <2> DEFINE B == {Above(t) : t \in S}
  <2>1. B \subseteq FiniteSubsetsOf(S) /\ B # {}
    BY <1>1
  <2>2. \E b \in B : \A c \in B : <<c, b>> \notin StrictSubsetOrdering(S)
    <3> HIDE DEF B
    <3> QED BY <1>2, <2>1, WFMin
  <2> QED BY <2>2
<1>5. ASSUME NEW y \in S PROVE x <= y
  <2>1. CASE y < x
    <3>1. Below(y) \subseteq Below(x) /\ y \in Below(x) /\ y \notin Below(y)
      <4>1. (\A u \in S : u < y => u < x) /\ y < x /\ ~(y < y)
        BY <1>0, <2>1
      <4> QED BY <4>1
    <3>2. <<Below(y), Below(x)>> \in StrictSubsetOrdering(S)
      BY <3>1 DEF StrictSubsetOrdering
    <3> QED BY <1>3, <3>2
  <2> QED BY <2>1
<1>6. ASSUME NEW y \in S PROVE y <= z
  <2>1. CASE y > z
    <3>1. Above(y) \subseteq Above(z) /\ y \in Above(z) /\ y \notin Above(y)
      <4>1. (\A u \in S : u > y => u > z) /\ y > z /\ ~(y > y)
        BY <1>0, <2>1
      <4> QED BY <4>1
    <3>2. <<Above(y), Above(z)>> \in StrictSubsetOrdering(S)
      BY <3>1 DEF StrictSubsetOrdering
    <3> QED BY <1>4, <3>2
  <2> QED BY <2>1
<1> QED BY <1>5, <1>6

\* A page holds the lowest keys, and some if there are any.
LEMMA PageIsLowest ==
  ASSUME NEW S \in SUBSET Nat, IsFiniteSet(S), NEW n \in Nat \ {0}
  PROVE  /\ S # {} => Lowest(n, S) # {}
         /\ \A t \in Lowest(n, S) : \A u \in S : u <= t => u \in Lowest(n, S)
<1> DEFINE Below(t) == {u \in S : u < t}
<1>0. \A t \in S : t \in Nat
  OBVIOUS
<1>1. \A t : IsFiniteSet(Below(t)) /\ Cardinality(Below(t)) \in Nat
  <2>1. \A t : Below(t) \in SUBSET S
    OBVIOUS
  <2> QED BY <2>1, FS_Subset, FS_CardinalityType
<1>2. ASSUME S # {} PROVE Lowest(n, S) # {}
  <2>1. PICK x \in S : \A y \in S : x <= y
    BY <1>2, Extremes
  <2>2. Below(x) = {}
    <3>1. \A y \in S : ~(y < x)
      BY <1>0, <2>1
    <3> QED BY <3>1
  <2>3. Cardinality(Below(x)) = 0
    BY <2>2, FS_EmptySet
  <2> QED BY <2>3 DEF Lowest
<1>3. ASSUME NEW t \in Lowest(n, S), NEW u \in S, u <= t PROVE u \in Lowest(n, S)
  <2>1. t \in S /\ Cardinality(Below(t)) < n
    BY DEF Lowest
  <2>2. Below(u) \subseteq Below(t)
    <3>1. \A v \in S : v < u => v < t
      BY <1>0, <1>3, <2>1
    <3> QED BY <3>1
  <2>3. Cardinality(Below(u)) <= Cardinality(Below(t))
    BY <1>1, <2>2, FS_Subset
  <2>4. Cardinality(Below(u)) < n
    BY <1>1, <2>1, <2>3
  <2> QED BY <2>4 DEF Lowest
<1> QED BY <1>2, <1>3

\* There are finitely many timestamps.
LEMMA StampsFinite ==
  ASSUME NEW S \in SUBSET Stamps
  PROVE  S \in SUBSET (Nat \ {0}) /\ IsFiniteSet(S)
<1> DEFINE f == [e \in Events |-> Stamp[e]]
<1>1. Stamp \in Seq(Nat \ {0}) /\ Events = 1 .. Len(Stamp) /\ Len(Stamp) \in Nat
  BY HistoryAssumption DEF HistoryAssumption, Events
<1>2. IsFiniteSet(Events)
  BY <1>1, FS_Interval
<1>3. f \in Surjection(Events, Stamps)
  BY DEF Surjection, Stamps
<1>4. IsFiniteSet(Stamps)
  BY <1>2, <1>3, FS_Surjection
<1>5. Stamps \subseteq Nat \ {0}
  BY <1>1 DEF Stamps
<1> QED BY <1>4, <1>5, FS_Subset

\* The constants are numbers, and the stream is finite.
LEMMA Numbers ==
  /\ Stamp \in Seq(Nat \ {0}) /\ Len(Stamp) \in Nat /\ Events = 1 .. Len(Stamp)
  /\ \A e \in Events : Stamp[e] \in Nat \ {0} /\ Stamp[e] \in Stamps
  /\ BatchSize \in Nat \ {0} /\ ChunkSize \in Nat \ {0}
  /\ DeleteSize \in Nat \ {0} /\ PageSize \in Nat \ {0} /\ MaxRetries \in Nat
BY HistoryAssumption DEF HistoryAssumption, Events, Stamps

-----------------------------------------------------------------------------
(* The lane.                                                               *)

\* The range at work and its place in the stream.
LEMMA AtWork ==
  ASSUME LaneInv, lane # << >>
  PROVE  /\ Head(lane) = lane[1] /\ lane[1] \in Ranges /\ Len(lane) \in Nat /\ 1 <= Len(lane)
         /\ lane[1].from = next /\ lane[1].to \in Nat /\ lane[1].to <= Len(Stamp)
         /\ next <= at /\ at <= lane[1].to /\ next \in Nat /\ at \in Nat
         /\ lane[1].tries \in Nat /\ lane[1].tries <= MaxRetries
<1>1. lane \in Seq(Ranges) /\ Len(lane) \in Nat /\ 1 <= Len(lane)
  BY EmptySeq DEF LaneInv
<1>2. lane[1] \in Ranges /\ Head(lane) = lane[1]
  BY <1>1
<1> QED BY <1>1, <1>2 DEF LaneInv, Ranges

\* A lane that begins with the ranges of `first`, adjacent from the checkpoint on
\* and as far as the range at work, and goes on as before.
LEMMA Replace ==
  ASSUME LaneInv, lane # << >>, NEW first \in Seq(Ranges), first # << >>,
         lane' = first \o Tail(lane), next' = next, at' = next,
         first[Len(first)].to = lane[1].to,
         \A i \in 1 .. Len(first) :
           /\ first[i].from <= first[i].to /\ first[i].to <= Len(Stamp)
           /\ first[i].tries <= MaxRetries
           /\ first[i].from = (IF i = 1 THEN next ELSE first[i - 1].to + 1)
  PROVE  LaneInv' /\ lane' # << >>
<1> DEFINE n == Len(first)
           rest == Tail(lane)
<1>1. /\ n \in Nat /\ 1 <= n /\ rest \in Seq(Ranges) /\ Len(rest) = Len(lane) - 1
      /\ Len(lane) \in Nat /\ \A i \in 1 .. Len(rest) : rest[i] = lane[i + 1]
  BY EmptySeq, HeadTailProperties DEF LaneInv
<1>2. /\ lane' \in Seq(Ranges) /\ Len(lane') = n + Len(lane) - 1
      /\ \A i \in 1 .. Len(lane') : lane'[i] = (IF i <= n THEN first[i] ELSE lane[i - n + 1])
  <2>1. /\ lane' \in Seq(Ranges) /\ Len(lane') = n + Len(rest)
        /\ \A i \in 1 .. n + Len(rest) : lane'[i] = (IF i <= n THEN first[i] ELSE rest[i - n])
    BY <1>1, ConcatProperties
  <2>2. ASSUME NEW i \in 1 .. n + Len(rest), ~(i <= n) PROVE rest[i - n] = lane[i - n + 1]
    BY <1>1, <2>2
  <2> QED BY <1>1, <2>1, <2>2
<1>3. ASSUME NEW i \in 1 .. Len(lane')
      PROVE  /\ lane'[i].from <= lane'[i].to /\ lane'[i].to <= Len(Stamp)
             /\ lane'[i].tries <= MaxRetries
             /\ lane'[i].from = (IF i = 1 THEN next ELSE lane'[i - 1].to + 1)
  <2>1. CASE i <= n
    <3>1. lane'[i] = first[i] /\ i \in 1 .. n
      BY <1>1, <1>2, <2>1
    <3>2. i # 1 => lane'[i - 1] = first[i - 1]
      BY <1>1, <1>2, <2>1
    <3> QED BY <3>1, <3>2
  <2>2. CASE ~(i <= n)
    <3> DEFINE j == i - n + 1
    <3>1. j \in 1 .. Len(lane) /\ j # 1 /\ i # 1
      BY <1>1, <1>2, <2>2
    <3>2. lane'[i] = lane[j]
      BY <1>2, <2>2
    <3>3. lane'[i - 1].to = lane[j - 1].to
      <4>1. CASE i - 1 <= n
        <5>1. i - 1 = n /\ j - 1 = 1
          BY <1>1, <2>2, <4>1
        <5>2. lane'[i - 1] = first[n] /\ lane[j - 1] = lane[1]
          BY <1>1, <1>2, <5>1
        <5> QED BY <5>2
      <4>2. CASE ~(i - 1 <= n)
        <5>1. i - 1 \in 1 .. Len(lane') /\ (i - 1) - n + 1 = j - 1
          BY <1>1, <1>2, <4>2
        <5>2. lane'[i - 1] = lane[j - 1]
          BY <1>2, <4>2, <5>1
        <5> QED BY <5>2
      <4> QED BY <4>1, <4>2
    <3>4. /\ lane[j].from <= lane[j].to /\ lane[j].to <= Len(Stamp) /\ lane[j].tries <= MaxRetries
          /\ lane[j].from = lane[j - 1].to + 1
      <4> HIDE DEF j
      <4> QED BY <3>1 DEF LaneInv
    <3> HIDE DEF j
    <3> QED BY <3>1, <3>2, <3>3, <3>4
  <2> QED BY <2>1, <2>2
<1>4. lane' # << >> /\ lane'[1] = first[1] /\ first[1].from = next /\ first[1].from <= first[1].to
  BY <1>1, <1>2
<1> QED BY <1>2, <1>3, <1>4 DEF LaneInv

\* When the range at work is left, the next one follows it without a gap.
LEMMA LeaveStep ==
  ASSUME LaneInv, lane # << >>, Leave
  PROVE  LaneInv' /\ Past' = lane[1].to + 1
<1> DEFINE rest == Tail(lane)
<1>1. /\ Head(lane) = lane[1] /\ lane[1] \in Ranges /\ Len(lane) \in Nat /\ 1 <= Len(lane)
      /\ lane[1].from = next /\ lane[1].to \in Nat /\ lane[1].to <= Len(Stamp)
      /\ next <= lane[1].to /\ next \in Nat /\ at \in Nat
  BY AtWork
<1>2. /\ rest \in Seq(Ranges) /\ Len(rest) = Len(lane) - 1
      /\ \A i \in 1 .. Len(rest) : rest[i] = lane[i + 1]
  BY HeadTailProperties DEF LaneInv
<1>3. next' = lane[1].to + 1
  <2>1. \A x, y \in Nat : x < y => Max({x, y}) = y
    BY DEF Max
  <2>2. next < lane[1].to + 1 /\ lane[1].to + 1 \in Nat
    BY <1>1
  <2> QED BY <1>1, <2>1, <2>2 DEF Leave
<1>4. ASSUME NEW i \in 1 .. Len(rest)
      PROVE  /\ rest[i].from <= rest[i].to /\ rest[i].to <= Len(Stamp) /\ rest[i].tries <= MaxRetries
             /\ rest[i].from = (IF i = 1 THEN next' ELSE rest[i - 1].to + 1)
  <2>1. i + 1 \in 1 .. Len(lane) /\ i + 1 # 1 /\ i + 1 - 1 = i
    BY <1>1, <1>2
  <2>2. /\ lane[i + 1].from <= lane[i + 1].to /\ lane[i + 1].to <= Len(Stamp)
        /\ lane[i + 1].tries <= MaxRetries /\ lane[i + 1].from = lane[i].to + 1
    BY <2>1 DEF LaneInv
  <2>3. rest[i] = lane[i + 1] /\ (i # 1 => rest[i - 1] = lane[i])
    BY <1>2
  <2> QED BY <1>3, <2>2, <2>3
<1>5. /\ lane' = rest /\ next' \in Nat /\ 1 <= next' /\ next' <= Len(Stamp) + 1
      /\ Len(rest) = 0 => rest = << >>
  <2>1. Len(rest) = 0 => rest = << >>
    BY <1>2, EmptySeq
  <2>2. next' \in Nat /\ 1 <= next' /\ next' <= Len(Stamp) + 1
    BY <1>1, <1>3, Numbers
  <2> QED BY <2>1, <2>2 DEF Leave
<1> HIDE DEF rest
<1>6. CASE Len(lane) = 1
  <2>1. rest = << >> /\ at' = at
    BY <1>2, <1>5, <1>6 DEF Leave
  <2>2. LaneInv'
    BY <1>1, <1>2, <1>4, <1>5, <2>1 DEF LaneInv
  <2> QED BY <1>3, <1>5, <2>1, <2>2 DEF Past
<1>7. CASE Len(lane) # 1
  <2>1. at' = lane[2].from /\ 1 \in 1 .. Len(rest) /\ rest[1] = lane[2]
    BY <1>1, <1>2, <1>7 DEF Leave
  <2>2. rest # << >> /\ rest[1].from = next' /\ rest[1].from <= rest[1].to
    BY <1>4, <2>1
  <2>3. LaneInv'
    BY <1>2, <1>4, <1>5, <2>1, <2>2 DEF LaneInv
  <2> QED BY <1>3, <1>5, <2>1, <2>2, <2>3 DEF Past
<1> QED BY <1>6, <1>7

\* The range of another attempt.
LEMMA AgainFields ==
  ASSUME NEW r \in Ranges
  PROVE  /\ Again(r) \in Ranges /\ Again(r).from = r.from /\ Again(r).to = r.to
         /\ Again(r).tries = r.tries + 1
BY DEF Again, Ranges

\* A failed invocation starts the range over in smaller parts or another time, or
\* gives its only event up.
LEMMA FailStep ==
  ASSUME LaneInv, lane # << >>, FailInvocation
  PROVE  /\ LaneInv'
         /\ \/ dlq' = dlq /\ Past' <= at /\ Past' \in Nat
            \/ dlq' = dlq \cup {at} /\ Past' = at + 1 /\ at \in Events
<1> DEFINE range == lane[1]
           mid == (range.from + range.to) \div 2
<1>1. /\ Head(lane) = range /\ range \in Ranges /\ range.from = next /\ range.to \in Nat
      /\ range.to <= Len(Stamp) /\ next <= at /\ at <= range.to /\ next \in Nat /\ at \in Nat
      /\ range.tries \in Nat /\ range.tries <= MaxRetries /\ Len(lane) \in Nat
  BY AtWork
<1>2. CASE /\ range.from < range.to
           /\ lane' = Halves(range) \o Tail(lane)
           /\ at' = Halves(range)[1].from
           /\ UNCHANGED <<next, dlq>>
  <2> DEFINE low == Batch(range.from, mid)
             high == Batch(mid + 1, range.to)
  <2>1. mid \in Nat /\ range.from <= mid /\ mid < range.to
    BY <1>1, <1>2
  <2>2. /\ low \in Ranges /\ low.from = next /\ low.to = mid /\ low.tries = 0
        /\ high \in Ranges /\ high.from = mid + 1 /\ high.to = range.to /\ high.tries = 0
    <3> HIDE DEF mid
    <3> QED BY <1>1, <2>1 DEF Batch, Ranges
  <2>3. Halves(range) = <<low, high>>
    BY DEF Halves
  <2> HIDE DEF low, high
  <2>4. /\ <<low, high>> \in Seq(Ranges) /\ <<low, high>> # << >> /\ Len(<<low, high>>) = 2
        /\ <<low, high>>[1] = low /\ <<low, high>>[2] = high
    BY <2>2
  <2>5. LaneInv' /\ lane' # << >>
    <3>1. \A i \in 1 .. 2 :
            LET r == <<low, high>>[i]
            IN  /\ r.from <= r.to /\ r.to <= Len(Stamp) /\ r.tries <= MaxRetries
                /\ r.from = (IF i = 1 THEN next ELSE <<low, high>>[i - 1].to + 1)
      <4>1. /\ low.from <= low.to /\ low.to <= Len(Stamp) /\ low.tries <= MaxRetries
            /\ high.from <= high.to /\ high.to <= Len(Stamp) /\ high.tries <= MaxRetries
            /\ low.from = next /\ high.from = low.to + 1
        <5> HIDE DEF mid
        <5> QED BY <1>1, <2>1, <2>2, Numbers
      <4> QED BY <2>4, <4>1
    <3> HIDE DEF mid
    <3> QED BY <1>1, <1>2, <2>2, <2>3, <2>4, <3>1, Replace
  <2> QED BY <1>1, <1>2, <2>2, <2>3, <2>4, <2>5 DEF Past
<1>3. CASE /\ range.from = range.to
           /\ ~Exhausted(range)
           /\ lane' = <<Again(range)>> \o Tail(lane)
           /\ at' = range.from
           /\ UNCHANGED <<next, dlq>>
  <2> DEFINE again == Again(range)
  <2>1. /\ again \in Ranges /\ again.from = next /\ again.to = range.to
        /\ again.tries <= MaxRetries
    BY <1>1, <1>3, Numbers, AgainFields DEF Exhausted
  <2> HIDE DEF again
  <2>2. <<again>> \in Seq(Ranges) /\ <<again>> # << >> /\ Len(<<again>>) = 1 /\ <<again>>[1] = again
    BY <2>1
  <2>3. LaneInv' /\ lane' # << >>
    <3>1. \A i \in 1 .. 1 :
            LET r == <<again>>[i]
            IN  /\ r.from <= r.to /\ r.to <= Len(Stamp) /\ r.tries <= MaxRetries
                /\ r.from = (IF i = 1 THEN next ELSE <<again>>[i - 1].to + 1)
      BY <1>1, <1>3, <2>1, <2>2
    <3>2. lane' = <<again>> \o Tail(lane)
      BY <1>3 DEF again
    <3> QED BY <1>1, <1>3, <2>1, <2>2, <3>1, <3>2, Replace
  <2> QED BY <1>1, <1>3, <2>3 DEF Past
<1>4. CASE range.from = range.to /\ dlq' = dlq \cup {range.from} /\ Leave
  <2>1. at = range.from /\ at \in Events
    BY <1>1, <1>4, Numbers DEF LaneInv
  <2> QED BY <1>1, <1>4, <2>1, LeaveStep
<1> QED BY <1>1, <1>2, <1>3, <1>4 DEF FailInvocation

\* The events of a chunk are at or after the first one not yet written, and the
\* projector goes on behind them.
LEMMA ChunkStep ==
  ASSUME LaneInv, lane # << >>
  PROVE  /\ Chunk \in SUBSET Events /\ \A e \in Chunk : e \in Nat /\ at <= e
         /\ EndChunk => LaneInv' /\ \A e \in Nat : e < Past' => e < at \/ e \in Chunk
<1>1. /\ Head(lane) = lane[1] /\ lane[1].to \in Nat /\ lane[1].to <= Len(Stamp)
      /\ next <= at /\ at <= lane[1].to /\ next \in Nat /\ at \in Nat /\ 1 <= next
      /\ ChunkSize \in Nat \ {0}
  BY AtWork, Numbers DEF LaneInv
<1>2. Chunk \in SUBSET Events /\ \A e \in Chunk : e \in Nat /\ at <= e
  BY <1>1, Numbers DEF Chunk
<1>3. ASSUME EndChunk
      PROVE  LaneInv' /\ \A e \in Nat : e < Past' => e < at \/ e \in Chunk
  <2>1. CASE at + ChunkSize <= lane[1].to
    <3>1. at' = at + ChunkSize /\ UNCHANGED <<lane, next>>
      BY <1>1, <1>3, <2>1 DEF EndChunk
    <3>2. Past' = at + ChunkSize
      BY <3>1 DEF Past
    <3>3. LaneInv'
      BY <1>1, <2>1, <3>1 DEF LaneInv
    <3>4. \A e \in Nat : e < at + ChunkSize => e < at \/ e \in Chunk
      BY <1>1, <2>1 DEF Chunk
    <3> QED BY <3>2, <3>3, <3>4
  <2>2. CASE ~(at + ChunkSize <= lane[1].to)
    <3>1. LaneInv' /\ Past' = lane[1].to + 1
      BY <1>1, <1>3, <2>2, LeaveStep DEF EndChunk
    <3>2. \A e \in Nat : e < lane[1].to + 1 => e < at \/ e \in Chunk
      BY <1>1, <2>2 DEF Chunk
    <3> QED BY <3>1, <3>2
  <2> QED BY <2>1, <2>2
<1> QED BY <1>2, <1>3

LEMMA DeliverStep ==
  ASSUME LaneInv, Deliver
  PROVE  LaneInv' /\ Past' = Past
<1>1. PICK to \in next .. Len(Stamp) : lane' = <<Batch(next, to)>> /\ at' = next /\ next' = next
  BY DEF Deliver
<1>2. next \in Nat /\ to \in Nat /\ 1 <= next /\ next <= to /\ to <= Len(Stamp) /\ next <= Len(Stamp) + 1
  BY <1>1, Numbers DEF LaneInv
<1> DEFINE b == Batch(next, to)
<1>3. b \in Ranges /\ b.from = next /\ b.to = to /\ b.tries = 0
  BY <1>2 DEF Batch, Ranges
<1> HIDE DEF b
<1>4. lane' = <<b>>
  BY <1>1 DEF b
<1>5. lane' \in Seq(Ranges) /\ Len(lane') = 1 /\ lane'[1] = b /\ lane' # << >>
  BY <1>3, <1>4
<1>6. LaneInv'
  BY <1>1, <1>2, <1>3, <1>5, Numbers DEF LaneInv
<1>7. Past' = next /\ Past = next
  BY <1>1, <1>5 DEF Past, Deliver
<1> QED BY <1>6, <1>7

-----------------------------------------------------------------------------
(* The table.                                                              *)

\* What a put of rows does to the table.
LEMMA PutStep ==
  ASSUME TableInv, NEW events \in SUBSET Events, ~DuplicateKeys(events), PutRows(events)
  PROVE  /\ Rows' = Rows \cup {Stamp[e] : e \in events}
         /\ \A e \in events : Stamp[e] \in Rows' /\ table'[Stamp[e]] = e
         /\ \A t \in Rows' : \/ t \in Rows /\ table'[t] = table[t]
                             \/ table'[t] \in events /\ Stamp[table'[t]] = t
         /\ \A t \in Rows \cup removed : t \in Rows' \cup removed'
         /\ old' \subseteq old /\ (old \subseteq Rows => old' \subseteq Rows')
<1>1. Rows' = Rows \cup {Stamp[e] : e \in events}
  BY DEF PutRows, Written, Rows
<1>2. \A t \in Rows' : table'[t] = (IF \E e \in events : Stamp[e] = t
                                    THEN CHOOSE e \in events : Stamp[e] = t ELSE table[t])
  BY <1>1 DEF PutRows, Written, Rows
<1>3. ASSUME NEW e \in events PROVE Stamp[e] \in Rows' /\ table'[Stamp[e]] = e
  <2>1. (CHOOSE x \in events : Stamp[x] = Stamp[e]) = e
    BY DEF DuplicateKeys
  <2> QED BY <1>1, <1>2, <2>1
<1>4. ASSUME NEW t \in Rows'
      PROVE  \/ t \in Rows /\ table'[t] = table[t]
             \/ table'[t] \in events /\ Stamp[table'[t]] = t
  <2>1. CASE \E e \in events : Stamp[e] = t
    BY <1>3, <2>1
  <2>2. CASE ~\E e \in events : Stamp[e] = t
    BY <1>1, <1>2, <2>2
  <2> QED BY <2>1, <2>2
<1>5. /\ \A t \in Rows \cup removed : t \in Rows' \cup removed'
      /\ old' \subseteq old /\ (old \subseteq Rows => old' \subseteq Rows')
  BY <1>1 DEF PutRows
<1> QED BY <1>1, <1>3, <1>4, <1>5

\* An event stays settled when later ones are put.
LEMMA StaysSettled ==
  ASSUME TableInv, NEW e \in Nat, Settled(e),
         NEW events \in SUBSET Events, ~DuplicateKeys(events), PutRows(events),
         \A x \in events : x \in Nat /\ e < x,
         dlq \subseteq dlq', e \in skipped' <=> e \in skipped
  PROVE  Settled(e)'
<1>1. Stamp[e] \in Rows' \cup removed' \/ e \in dlq' \cup skipped'
  BY PutStep DEF Settled
<1>2. ASSUME Stamp[e] \in Rows', e \notin dlq' \cup skipped' PROVE table'[Stamp[e]] >= e
  <2>1. CASE Stamp[e] \in Rows /\ table'[Stamp[e]] = table[Stamp[e]]
    BY <1>2, <2>1 DEF Settled
  <2>2. CASE table'[Stamp[e]] \in events
    BY <2>2
  <2> QED BY <1>2, <2>1, <2>2, PutStep
<1> QED BY <1>1, <1>2 DEF Settled

\* A put keeps the rows under the timestamps of their events.
LEMMA TableStep ==
  ASSUME TableInv, NEW events \in SUBSET Events, ~DuplicateKeys(events), PutRows(events),
         dlq' \subseteq Events, skipped' \subseteq Events
  PROVE  TableInv'
BY PutStep DEF TableInv, Rows, Events

\* What is settled stays so without a put.
LEMMA NothingPut ==
  ASSUME NEW e \in Nat, Settled(e), UNCHANGED <<table, removed, skipped>>, dlq \subseteq dlq'
  PROVE  Settled(e)'
BY DEF Settled, Rows

\* A chunk that is answered: the Puts of `left` came back.
LEMMA AnsweredStep ==
  ASSUME Inv, lane # << >>, NEW left \in SUBSET Chunk, ~DuplicateKeys(Chunk),
         PutRows(Chunk \ left), skipped' = (skipped \ Chunk) \cup left, EndChunk,
         UNCHANGED clear
  PROVE  Inv'
<1> DEFINE events == Chunk \ left
<1>1. LaneInv' /\ \A e \in Nat : e < Past' => e < at \/ e \in Chunk
  BY ChunkStep DEF Inv
<1>2. /\ Chunk \in SUBSET Events /\ events \in SUBSET Events /\ ~DuplicateKeys(events)
      /\ \A x \in Chunk : x \in Nat /\ at <= x
  BY ChunkStep DEF Inv, DuplicateKeys
<1>3. at \in Nat /\ TableInv /\ PutRows(events)
  BY DEF Inv, LaneInv
<1>4. dlq' = dlq
  BY DEF EndChunk
<1> HIDE DEF events
<1>5. TableInv'
  <2>1. dlq' \subseteq Events /\ skipped' \subseteq Events
    BY <1>2, <1>4 DEF Inv, TableInv
  <2> QED BY <1>2, <1>3, <2>1, TableStep DEF Events
<1>6. SettledInv'
  <2>1. SUFFICES ASSUME NEW e \in Nat, 1 <= e, e < Past' PROVE Settled(e)'
    BY DEF SettledInv
  <2>2. CASE e < at
    <3>1. Settled(e)
      BY <2>1, <2>2 DEF Inv, SettledInv, Past
    <3>2. e \notin Chunk /\ \A x \in Chunk : e < x
      BY <1>2, <1>3, <2>2
    <3>3. \A x \in events : x \in Nat /\ e < x
      BY <1>2, <3>2 DEF events
    <3> QED BY <1>2, <1>3, <1>4, <3>1, <3>2, <3>3, StaysSettled
  <2>3. CASE e \in left
    BY <2>3 DEF Settled
  <2>4. CASE e \in events
    <3>1. Stamp[e] \in Rows' /\ table'[Stamp[e]] = e
      BY <1>2, <1>3, <2>4, PutStep
    <3> QED BY <3>1 DEF Settled
  <2> QED BY <1>1, <2>1, <2>2, <2>3, <2>4 DEF events
<1>7. ClearInv'
  <2>1. old' \subseteq old /\ old' \subseteq Rows'
    BY <1>2, <1>3, PutStep DEF Inv, ClearInv
  <2> QED BY <2>1 DEF Inv, ClearInv
<1> QED BY <1>1, <1>5, <1>6, <1>7 DEF Inv

\* A failed invocation, after which `events` are in the table.
LEMMA FailedStep ==
  ASSUME Inv, lane # << >>, FailInvocation, UNCHANGED <<skipped, clear>>,
         \/ UNCHANGED <<table, old, removed>>
         \/ \E events \in SUBSET Chunk : ~DuplicateKeys(Chunk) /\ PutRows(events)
  PROVE  Inv'
<1>1. /\ LaneInv'
      /\ \/ dlq' = dlq /\ Past' <= at /\ Past' \in Nat
         \/ dlq' = dlq \cup {at} /\ Past' = at + 1 /\ at \in Events
  BY FailStep DEF Inv
<1>2. /\ Chunk \in SUBSET Events /\ \A x \in Chunk : x \in Nat /\ at <= x
      /\ TableInv /\ ClearInv /\ at \in Nat
  BY ChunkStep DEF Inv, LaneInv
<1>3. dlq \subseteq dlq' /\ dlq' \subseteq Events /\ skipped' \subseteq Events
  BY <1>1 DEF Inv, TableInv
<1>4. ASSUME NEW e \in Nat, 1 <= e, e < Past'
      PROVE  (Settled(e) /\ e < at) \/ e \in dlq'
  <2>1. e < at => Settled(e)
    BY <1>4 DEF Inv, SettledInv, Past
  <2>2. e < at \/ (e = at /\ dlq' = dlq \cup {at})
    BY <1>1, <1>2, <1>4
  <2> QED BY <2>1, <2>2
<1>5. CASE UNCHANGED <<table, old, removed>>
  <2>1. TableInv'
    BY <1>2, <1>3, <1>5 DEF TableInv, Rows, Events
  <2>2. SettledInv'
    <3>1. SUFFICES ASSUME NEW e \in Nat, 1 <= e, e < Past' PROVE Settled(e)'
      BY DEF SettledInv
    <3>2. CASE Settled(e)
      BY <1>3, <1>5, <3>2, NothingPut
    <3>3. CASE e \in dlq'
      BY <3>3 DEF Settled
    <3> QED BY <1>4, <3>1, <3>2, <3>3
  <2>3. ClearInv'
    BY <1>2, <1>5 DEF ClearInv, Rows
  <2> QED BY <1>1, <2>1, <2>2, <2>3 DEF Inv
<1>6. ASSUME NEW events \in SUBSET Chunk, ~DuplicateKeys(Chunk), PutRows(events) PROVE Inv'
  <2>1. events \in SUBSET Events /\ ~DuplicateKeys(events)
    BY <1>2, <1>6 DEF DuplicateKeys
  <2>2. TableInv'
    BY <1>2, <1>3, <1>6, <2>1, TableStep
  <2>3. SettledInv'
    <3>1. SUFFICES ASSUME NEW e \in Nat, 1 <= e, e < Past' PROVE Settled(e)'
      BY DEF SettledInv
    <3>2. CASE Settled(e) /\ e < at
      <4>1. \A x \in events : x \in Nat /\ e < x
        BY <1>2, <3>2
      <4> QED BY <1>2, <1>3, <1>6, <2>1, <3>2, <4>1, StaysSettled
    <3>3. CASE e \in dlq'
      BY <3>3 DEF Settled
    <3> QED BY <1>4, <3>1, <3>2, <3>3
  <2>4. ClearInv'
    <3>1. old' \subseteq old /\ old' \subseteq Rows'
      BY <1>2, <1>6, <2>1, PutStep DEF ClearInv
    <3> QED BY <1>2, <3>1 DEF ClearInv
  <2> QED BY <1>1, <2>2, <2>3, <2>4 DEF Inv
<1> QED BY <1>5, <1>6

\* Rows that are deleted or expire.
LEMMA DropStep ==
  ASSUME Inv, NEW stamps, Drop(stamps), UNCHANGED writer
  PROVE  LaneInv' /\ TableInv' /\ SettledInv' /\ old' = old \ stamps /\ old' \subseteq Rows'
<1>1. UNCHANGED <<next, lane, at, dlq, skipped>>
  BY DEF writer
<1>2. Rows' = Rows \ stamps /\ \A t \in Rows' : table'[t] = table[t]
  BY DEF Drop, Without, Rows
<1>3. removed' = removed \cup (stamps \cap Rows) /\ old' = old \ stamps
  BY DEF Drop
<1>4. LaneInv'
  BY <1>1 DEF Inv, LaneInv
<1>5. TableInv'
  <2>1. \A t \in Rows' : table'[t] \in Events /\ Stamp[table'[t]] = t
    BY <1>2 DEF Inv, TableInv
  <2> QED BY <1>1, <2>1 DEF Inv, TableInv, Events
<1>6. SettledInv'
  <2>1. SUFFICES ASSUME NEW e \in Nat, 1 <= e, e < Past' PROVE Settled(e)'
    BY DEF SettledInv
  <2>2. Settled(e)
    BY <1>1, <2>1 DEF Inv, SettledInv, Past
  <2> QED BY <1>1, <1>2, <1>3, <2>2 DEF Settled
<1>7. old' \subseteq Rows'
  BY <1>2, <1>3 DEF Inv, ClearInv
<1> QED BY <1>3, <1>4, <1>5, <1>6, <1>7

\* A step that leaves the table and the projector alone.
LEMMA OnlyClear ==
  ASSUME Inv, UNCHANGED <<table, writer, removed>>, ClearInv'
  PROVE  Inv'
<1>1. UNCHANGED <<table, next, lane, at, dlq, skipped, removed>>
  BY DEF writer
<1>2. LaneInv' /\ TableInv'
  BY <1>1 DEF Inv, LaneInv, TableInv, Rows, Events
<1>3. SettledInv'
  BY <1>1 DEF Inv, SettledInv, Settled, Past, Rows
<1> QED BY <1>2, <1>3 DEF Inv

-----------------------------------------------------------------------------
(* The clean-up.                                                           *)

\* The rows are finitely many.
LEMMA RowsFinite ==
  ASSUME TableInv, NEW S \in SUBSET Rows
  PROVE  S \in SUBSET Stamps /\ S \in SUBSET Nat /\ IsFiniteSet(S) /\ 0 \notin S
<1>1. S \in SUBSET Stamps
  BY Numbers DEF TableInv
<1> QED BY <1>1, StampsFinite

\* A page that is not the last ends with the key the next one begins after.
LEMMA QueryStep ==
  ASSUME Inv, ClearQuery
  PROVE  Inv'
<1> DEFINE rest == {t \in Rows : t > clear.after}
           page == Lowest(PageSize, rest)
           last == IF More(rest, page) THEN Max(page) ELSE 0
<1>1. /\ clear.pc = "query"
      /\ clear' = [clear EXCEPT !.page = page, !.after = last,
                                !.pc = IF page = {} THEN "done" ELSE "delete"]
      /\ UNCHANGED <<table, writer, old, removed>>
  BY DEF ClearQuery
<1>2. /\ rest \in SUBSET Nat /\ IsFiniteSet(rest) /\ page \subseteq rest
      /\ rest # {} => page # {}
      /\ \A t \in page : \A u \in rest : u <= t => u \in page
  <2>1. rest \in SUBSET Nat /\ IsFiniteSet(rest)
    BY RowsFinite DEF Inv
  <2>2. page \subseteq rest
    BY DEF Lowest
  <2> HIDE DEF rest
  <2> QED BY <2>1, <2>2, PageIsLowest, Numbers
<1>3. page # {} => Max(page) \in page /\ \A t \in page : t <= Max(page)
  <2>1. page \in SUBSET Nat /\ IsFiniteSet(page)
    BY <1>2, FS_Subset
  <2> HIDE DEF page
  <2>2. page # {} => \E x \in page : \A y \in page : x >= y
    BY <2>1, Extremes
  <2>3. page # {} => Max(page) \in page /\ \A y \in page : Max(page) >= y
    BY <2>2 DEF Max
  <2> QED BY <2>1, <2>3
<1> DEFINE old1 == old
<1>4. /\ old \subseteq Rows /\ \A t \in old : t <= clear.after => t \in clear.kept
      /\ \A t \in old : t \in Nat
      /\ clear \in [pc : {"idle", "query", "delete", "done", "failed"}, after : Nat,
                    page : SUBSET Nat, count : Nat, kept : SUBSET Nat]
  BY <1>1, RowsFinite DEF Inv, ClearInv
<1>5. \A t \in old : t \in clear.kept \/ t \in rest
  <2>1. \A t \in old : t <= clear.after \/ t > clear.after
    BY <1>4
  <2> QED BY <1>4, <2>1
<1>6. last \in Nat /\ (last = 0 => rest = page)
  <2>1. CASE page = rest
    BY <2>1 DEF More
  <2>2. CASE page # rest
    <3>1. page # {}
      BY <1>2, <2>2
    <3>2. last = Max(page) /\ Max(page) \in page
      BY <1>3, <2>2, <3>1 DEF More
    <3>3. 0 \notin rest
      BY RowsFinite DEF Inv
    <3> HIDE DEF page, last, rest
    <3> QED BY <1>2, <3>2, <3>3
  <2> QED BY <2>1, <2>2
<1>7. ASSUME NEW t \in old, last = 0 \/ t <= last PROVE t \in clear.kept \cup page
  <2>1. CASE t \in rest /\ last = 0
    BY <1>6, <2>1
  <2>2. CASE t \in rest /\ last # 0
    <3>1. last = Max(page) /\ page # rest
      BY <2>2 DEF More
    <3>2. page # {}
      BY <1>2, <3>1
    <3> HIDE DEF page, last, rest
    <3> QED BY <1>2, <1>3, <1>7, <2>2, <3>1, <3>2
  <2> QED BY <1>5, <2>1, <2>2
<1>8. page = {} => old \subseteq clear.kept
  BY <1>2, <1>5
<1>9. ClearInv'
  <2> HIDE DEF rest, page, last
  <2>1. /\ clear'.pc = (IF page = {} THEN "done" ELSE "delete")
        /\ clear'.page = page /\ clear'.after = last /\ clear'.kept = clear.kept
    BY <1>1, <1>4
  <2>2. clear' \in [pc : {"idle", "query", "delete", "done", "failed"}, after : Nat,
                    page : SUBSET Nat, count : Nat, kept : SUBSET Nat]
    <3>1. /\ page \in SUBSET Nat /\ last \in Nat
          /\ (IF page = {} THEN "done" ELSE "delete") \in {"idle", "query", "delete", "done", "failed"}
      BY <1>2, <1>6
    <3> QED BY <1>1, <1>4, <3>1
  <2>3. old' = old /\ Rows' = Rows
    BY <1>1 DEF Rows
  <2> QED BY <1>4, <1>7, <1>8, <2>1, <2>2, <2>3 DEF ClearInv
<1> QED BY <1>1, <1>9, OnlyClear

\* What a batch of deletes leaves is kept, or still on the page.
LEMMA DeleteStep ==
  ASSUME Inv, clear.pc = "delete", NEW left, DeleteAllBut(left), UNCHANGED writer
  PROVE  Inv'
<1> DEFINE chunk == Lowest(DeleteSize, clear.page)
           rest == clear.page \ chunk
<1>1. /\ left \subseteq chunk /\ Drop(chunk \ left)
      /\ clear' = [clear EXCEPT !.page = rest, !.kept = @ \cup left,
                                !.pc = IF rest # {} THEN "delete"
                                       ELSE IF clear.after # 0 THEN "query" ELSE "done"]
  BY DEF DeleteAllBut
<1>2. /\ clear \in [pc : {"idle", "query", "delete", "done", "failed"}, after : Nat,
                    page : SUBSET Nat, count : Nat, kept : SUBSET Nat]
      /\ \A t \in old : clear.after = 0 \/ t <= clear.after => t \in clear.kept \cup clear.page
  BY DEF Inv, ClearInv
<1>3. LaneInv' /\ TableInv' /\ SettledInv' /\ old' = old \ (chunk \ left) /\ old' \subseteq Rows'
  BY <1>1, DropStep
<1>4. chunk \subseteq clear.page
  BY DEF Lowest
<1> HIDE DEF chunk
<1>5. /\ clear'.page = rest /\ clear'.kept = clear.kept \cup left /\ clear'.after = clear.after
      /\ clear'.pc = (IF rest # {} THEN "delete"
                      ELSE IF clear.after # 0 THEN "query" ELSE "done")
  BY <1>1, <1>2
<1>6. \A t \in old' : clear.after = 0 \/ t <= clear.after => t \in clear.kept \cup left \cup rest
  BY <1>1, <1>2, <1>3
<1>7. clear' \in [pc : {"idle", "query", "delete", "done", "failed"}, after : Nat,
                  page : SUBSET Nat, count : Nat, kept : SUBSET Nat]
  <2>1. /\ rest \in SUBSET Nat /\ clear.kept \cup left \in SUBSET Nat
        /\ (IF rest # {} THEN "delete" ELSE IF clear.after # 0 THEN "query" ELSE "done")
             \in {"idle", "query", "delete", "done", "failed"}
    BY <1>1, <1>2, <1>4
  <2> HIDE DEF rest
  <2> QED BY <1>1, <1>2, <2>1
<1>8. ClearInv'
  <2> HIDE DEF rest
  <2>1. clear'.pc = "delete" =>
          \A t \in old' : clear'.after = 0 \/ t <= clear'.after => t \in clear'.kept \cup clear'.page
    BY <1>5, <1>6
  <2>2. clear'.pc = "query" => rest = {}
    BY <1>5
  <2>3. clear'.pc = "query" => \A t \in old' : t <= clear'.after => t \in clear'.kept
    BY <1>5, <1>6, <2>2
  <2>4. clear'.pc = "done" => rest = {} /\ clear.after = 0
    BY <1>5
  <2>5. clear'.pc = "done" => old' \subseteq clear'.kept
    BY <1>5, <1>6, <2>4
  <2> QED BY <1>3, <1>7, <2>1, <2>3, <2>5 DEF ClearInv
<1> QED BY <1>3, <1>8 DEF Inv

LEMMA StartStep ==
  ASSUME Inv, StartClear
  PROVE  Inv'
<1>1. /\ clear' = [Idle EXCEPT !.pc = "query", !.count = clear.count + 1]
      /\ old' = Rows /\ UNCHANGED <<table, writer, removed>>
  BY DEF StartClear
<1>2. clear.count + 1 \in Nat
  BY DEF Inv, ClearInv
<1>3. /\ clear' \in [pc : {"idle", "query", "delete", "done", "failed"}, after : Nat,
                     page : SUBSET Nat, count : Nat, kept : SUBSET Nat]
      /\ clear'.pc = "query" /\ clear'.after = 0
  BY <1>1, <1>2 DEF Idle
<1>4. \A t \in Rows : ~(t <= 0)
  <2>1. \A t \in Rows : t \in Nat /\ t # 0
    BY RowsFinite DEF Inv
  <2> QED BY <2>1
<1>5. Rows' = Rows
  BY <1>1 DEF Rows
<1>6. ClearInv'
  BY <1>1, <1>3, <1>4, <1>5 DEF ClearInv
<1> QED BY <1>1, <1>6, OnlyClear

-----------------------------------------------------------------------------
(* The invariant.                                                          *)

LEMMA InvInit == Init => Inv
<1> SUFFICES ASSUME Init PROVE Inv
  OBVIOUS
<1>1. LaneInv
  BY Numbers DEF Init, LaneInv
<1>2. Rows = {}
  BY DEF Init, Rows
<1>3. TableInv
  BY <1>2 DEF Init, TableInv
<1>4. SettledInv
  BY DEF Init, SettledInv, Past
<1>5. ClearInv
  BY DEF Init, Idle, ClearInv
<1> QED BY <1>1, <1>3, <1>4, <1>5 DEF Inv

LEMMA InvStep == Inv /\ [Next]_vars => Inv'
<1> SUFFICES ASSUME Inv, [Next]_vars PROVE Inv'
  OBVIOUS
<1>1. CASE Deliver
  <2>1. LaneInv' /\ Past' = Past /\ UNCHANGED <<table, dlq, skipped, clear, old, removed>>
    BY <1>1, DeliverStep DEF Deliver, Inv
  <2>2. TableInv' /\ ClearInv'
    BY <2>1 DEF Inv, TableInv, ClearInv, Rows, Events
  <2>3. SettledInv'
    BY <2>1 DEF Inv, SettledInv, Settled, Rows
  <2> QED BY <2>1, <2>2, <2>3 DEF Inv
<1>2. CASE WriteChunk
  <2>1. PutRows(Chunk \ {}) /\ skipped' = (skipped \ Chunk) \cup {}
    BY <1>2 DEF WriteChunk, PutRows
  <2> QED BY <1>2, <2>1, AnsweredStep DEF WriteChunk
<1>3. CASE SkipRows
  BY <1>3, AnsweredStep DEF SkipRows
<1>4. CASE RefuseChunk
  BY <1>4, FailedStep DEF RefuseChunk
<1>5. CASE LoseAnswer
  BY <1>5, FailedStep DEF LoseAnswer
<1>6. CASE StartClear
  BY <1>6, StartStep
<1>7. CASE ClearQuery
  BY <1>7, QueryStep
<1>8. CASE ClearDelete \/ ClearSkips
  BY <1>8, DeleteStep DEF ClearDelete, ClearSkips
<1>9. CASE ClearFails
  <2>1. /\ clear' = [clear EXCEPT !.pc = "failed"] /\ UNCHANGED <<table, writer, old, removed>>
    BY <1>9 DEF ClearFails
  <2>2. ClearInv'
    BY <2>1 DEF Inv, ClearInv, Rows
  <2> QED BY <2>1, <2>2, OnlyClear
<1>10. CASE Expire
  <2>1. PICK t \in Rows : Drop({t})
    BY <1>10 DEF Expire
  <2>2. LaneInv' /\ TableInv' /\ SettledInv' /\ old' = old \ {t} /\ old' \subseteq Rows'
    BY <1>10, <2>1, DropStep DEF Expire
  <2>3. ClearInv'
    BY <1>10, <2>2 DEF Expire, Inv, ClearInv
  <2> QED BY <2>2, <2>3 DEF Inv
<1>11. CASE UNCHANGED vars
  <2>1. UNCHANGED <<table, writer, removed>> /\ UNCHANGED <<clear, old>>
    BY <1>11 DEF vars
  <2>2. ClearInv'
    BY <2>1 DEF Inv, ClearInv, Rows
  <2> QED BY <2>1, <2>2, OnlyClear
<1> QED BY <1>1, <1>2, <1>3, <1>4, <1>5, <1>6, <1>7, <1>8, <1>9, <1>10, <1>11
        DEF Next, Project, Clear

LEMMA Invariance == Spec => []Inv
BY InvInit, InvStep, PTL DEF Spec

-----------------------------------------------------------------------------
(* Theorems.                                                               *)

\* The table, the lane and the clean-up are well typed.
THEOREM HistoryTypeCorrect == Spec => []TypeOK
<1>1. ASSUME Inv PROVE TypeOK
  <2>1. Rows \subseteq Stamps /\ \A t \in Rows : table[t] \in Events /\ Stamp[table[t]] = t
    BY <1>1, RowsFinite DEF Inv, TableInv
  <2>2. next \in 1 .. Len(Stamp) + 1
    BY <1>1, Numbers DEF Inv, LaneInv
  <2>3. \A i \in DOMAIN lane : lane[i].from <= lane[i].to /\ lane[i].tries \in 0 .. MaxRetries
    <3>1. ASSUME NEW i \in DOMAIN lane
          PROVE  i \in 1 .. Len(lane) /\ lane[i].tries \in Nat
      <4>1. lane \in Seq(Ranges)
        BY <1>1 DEF Inv, LaneInv
      <4>2. i \in 1 .. Len(lane) /\ lane[i] \in Ranges
        BY <4>1
      <4> QED BY <4>2 DEF Ranges
    <3> QED BY <1>1, <3>1, Numbers DEF Inv, LaneInv
  <2>4. lane # << >> => at \in Head(lane).from .. Head(lane).to
    BY <1>1, AtWork DEF Inv
  <2>5. dlq \cup skipped \subseteq Events /\ clear.pc \in {"idle", "query", "delete", "done", "failed"}
    BY <1>1 DEF Inv, TableInv, ClearInv
  <2> QED BY <2>1, <2>2, <2>3, <2>4, <2>5 DEF TypeOK
<1> QED BY <1>1, Invariance, PTL

\* Refusals, lost answers, bisection and retries lose no event: what the
\* projector is done with has a row, unless it was given up, came back
\* unprocessed, or its row was removed later.
THEOREM NothingElseIsLost == Spec => []NothingElseLost
<1>1. ASSUME Inv PROVE NothingElseLost
  <2>1. SUFFICES ASSUME NEW e \in 1 .. next - 1
                 PROVE  Stamp[e] \in Rows \cup removed \/ e \in dlq \cup skipped
    BY DEF NothingElseLost
  <2>2. e \in Nat /\ 1 <= e /\ e < next
    BY <1>1 DEF Inv, LaneInv
  <2>3. next \in Nat /\ Past \in Nat /\ next <= Past
    BY <1>1 DEF Inv, LaneInv, Past
  <2>4. Settled(e)
    BY <1>1, <2>2, <2>3 DEF Inv, SettledInv
  <2> QED BY <2>4 DEF Settled
<1> QED BY <1>1, Invariance, PTL

\* Between batches the table is what a replay of the stream yields: however often
\* an event was written again, no earlier one covers a later one.
THEOREM LastEventWins == Spec => []LatestWins
<1>1. ASSUME Inv PROVE LatestWins
  <2>1. SUFFICES ASSUME lane = << >>, NEW t \in Rows, NEW e \in 1 .. next - 1,
                        Stamp[e] = t, e \notin dlq \cup skipped
                 PROVE  table[t] >= e
    BY DEF LatestWins
  <2>2. e \in Nat /\ 1 <= e /\ e < Past
    BY <1>1, <2>1 DEF Inv, LaneInv, Past
  <2>3. Settled(e)
    BY <1>1, <2>2 DEF Inv, SettledInv
  <2> QED BY <2>1, <2>3 DEF Settled
<1> QED BY <1>1, Invariance, PTL

\* A clean-up that reports success leaves no row of before it but those whose
\* deletes came back, though rows are written and expire between its pages.
THEOREM CleanUpIsThorough == Spec => []ClearedIsNew
<1>1. Inv => ClearedIsNew
  BY DEF Inv, ClearInv, ClearedIsNew
<1> QED BY <1>1, Invariance, PTL

-----------------------------------------------------------------------------
(* The lane gets shorter.                                                  *)

\* A range is no longer than a batch, and every range of the lane has an event of
\* its own before the end of the last one.
LaneRoom ==
  /\ \A i \in 1 .. Len(lane) : lane[i].to < lane[i].from + BatchSize
  /\ \A i \in 1 .. Len(lane) : lane[i].from + (Len(lane) - i) <= lane[Len(lane)].to

\* One factor less is one summand less.
LEMMA FactorFewer ==
  ASSUME NEW k \in Nat, NEW x \in Nat, NEW y \in Nat, x < y
  PROVE  k * x \in Nat /\ k * y \in Nat /\ k * x + k <= k * y
<1> DEFINE d == y - x - 1
<1>1. d \in Nat /\ y = x + 1 + d
  OBVIOUS
<1> HIDE DEF d
<1>2. k * (x + 1 + d) = k * x + k + k * d
  BY <1>1
<1>3. \A m, n \in Nat : m * n \in Nat
  OBVIOUS
<1>4. k * x \in Nat /\ k * y \in Nat /\ k * d \in Nat
  BY <1>1, <1>3
<1> QED BY <1>1, <1>2, <1>4

\* The events of the lane and what its first range has left.
EventsToGo == lane[Len(lane)].to + 1 - lane[1].from
WorkLeft == (MaxRetries - lane[1].tries) + (lane[1].to + 1 - at)

Measured ==
  /\ Len(lane) \in Nat /\ 1 <= Len(lane) /\ EventsToGo \in Nat /\ Len(lane) <= EventsToGo
  /\ WorkLeft \in Nat /\ 1 <= WorkLeft /\ WorkLeft <= MaxRetries + BatchSize
  /\ MaxRetries + BatchSize \in Nat
  /\ StepsLeft = (MaxRetries + BatchSize) * (2 * EventsToGo - Len(lane)) + WorkLeft
  /\ StepsLeft \in Nat

LEMMA StepsOfLane == LaneInv /\ LaneRoom /\ lane # << >> => Measured
<1> SUFFICES ASSUME LaneInv, LaneRoom, lane # << >> PROVE Measured
  OBVIOUS
<1>1. /\ Head(lane) = lane[1] /\ Len(lane) \in Nat /\ 1 <= Len(lane)
      /\ lane[1].from = next /\ lane[1].to \in Nat /\ next <= at /\ at <= lane[1].to
      /\ next \in Nat /\ at \in Nat /\ lane[1].tries \in Nat /\ lane[1].tries <= MaxRetries
  BY AtWork
<1>2. lane[Len(lane)].to \in Nat
  <2>1. lane[Len(lane)] \in Ranges
    BY <1>1 DEF LaneInv
  <2> QED BY <2>1 DEF Ranges
<1>3. /\ lane[1].to < lane[1].from + BatchSize
      /\ lane[1].from + (Len(lane) - 1) <= lane[Len(lane)].to
  BY <1>1 DEF LaneRoom
<1>4. EventsToGo \in Nat /\ Len(lane) <= EventsToGo
  BY <1>1, <1>2, <1>3 DEF EventsToGo
<1>5. /\ WorkLeft \in Nat /\ 1 <= WorkLeft /\ WorkLeft <= MaxRetries + BatchSize
      /\ MaxRetries + BatchSize \in Nat
  BY <1>1, <1>3, Numbers DEF WorkLeft
<1>6. StepsLeft = (MaxRetries + BatchSize) * (2 * EventsToGo - Len(lane)) + WorkLeft
  <2> DEFINE product == (MaxRetries + BatchSize) * (2 * EventsToGo - Len(lane))
  <2>1. StepsLeft = product + (MaxRetries - lane[1].tries) + (lane[1].to + 1 - at)
    BY <1>1 DEF StepsLeft, EventsToGo
  <2>2. product \in Nat
    <3>1. \A m, n \in Nat : m * n \in Nat
      OBVIOUS
    <3>2. 2 * EventsToGo - Len(lane) \in Nat
      BY <1>1, <1>4
    <3> QED BY <1>5, <3>1, <3>2
  <2> HIDE DEF product
  <2>3. StepsLeft = product + WorkLeft
    BY <1>1, <2>1, <2>2, Numbers DEF WorkLeft
  <2> QED BY <2>3 DEF product
<1>7. StepsLeft \in Nat
  <2> DEFINE k == MaxRetries + BatchSize
             n == 2 * EventsToGo - Len(lane)
  <2>1. k \in Nat /\ n \in Nat
    BY <1>1, <1>4, <1>5
  <2>2. k * n \in Nat
    <3> HIDE DEF k, n
    <3> QED BY <2>1
  <2> QED BY <1>5, <1>6, <2>2
<1> QED BY <1>1, <1>4, <1>5, <1>6, <1>7 DEF Measured

LEMMA StepsOfNextLane == (LaneInv /\ LaneRoom /\ lane # << >> => Measured)'
BY StepsOfLane, PTL

\* What the lane needs to have fewer steps left: fewer events or more ranges, or
\* as many and less to do in the first one.
LEMMA FewerSteps ==
  ASSUME LaneInv, LaneRoom, lane # << >>, LaneInv', LaneRoom', lane' # << >>,
         \/ 2 * EventsToGo' - Len(lane)' < 2 * EventsToGo - Len(lane)
         \/ EventsToGo' = EventsToGo /\ Len(lane)' = Len(lane) /\ WorkLeft' < WorkLeft
  PROVE  StepsLeft' \in Nat /\ StepsLeft' < StepsLeft
<1> DEFINE k == MaxRetries + BatchSize
           n == 2 * EventsToGo - Len(lane)
           m == 2 * EventsToGo' - Len(lane)'
           w == WorkLeft
           v == WorkLeft'
<1>1. /\ k \in Nat /\ n \in Nat /\ w \in Nat /\ 1 <= w /\ w <= k
      /\ StepsLeft = k * n + w
  BY StepsOfLane DEF Measured
<1>2. /\ m \in Nat /\ v \in Nat /\ 1 <= v /\ v <= k
      /\ StepsLeft' = k * m + v /\ StepsLeft' \in Nat
  <2>1. /\ Len(lane)' \in Nat /\ 1 <= Len(lane)' /\ EventsToGo' \in Nat /\ Len(lane)' <= EventsToGo'
        /\ v \in Nat /\ 1 <= v /\ v <= k /\ StepsLeft' = k * m + v /\ StepsLeft' \in Nat
    BY StepsOfNextLane DEF Measured
  <2> QED BY <2>1
<1>3. m < n \/ (m = n /\ v < w)
  OBVIOUS
<1> HIDE DEF k, n, m, w, v
<1>4. CASE m < n
  BY <1>1, <1>2, <1>4, FactorFewer
<1>5. CASE m = n /\ v < w
  <2>1. k * n \in Nat
    BY <1>1
  <2> QED BY <1>1, <1>2, <1>5, <2>1
<1> QED BY <1>2, <1>3, <1>4, <1>5

\* A range at work that is replaced by ranges of its own events leaves room.
LEMMA ReplaceRoom ==
  ASSUME LaneInv, LaneRoom, lane # << >>, NEW first \in Seq(Ranges), first # << >>,
         lane' = first \o Tail(lane), first[Len(first)].to = lane[1].to,
         \A i \in 1 .. Len(first) :
           /\ first[i].to < first[i].from + BatchSize
           /\ first[i].from + (Len(first) - i) <= lane[1].to
  PROVE  /\ LaneRoom' /\ lane'[1] = first[1] /\ Len(lane') = Len(lane) + Len(first) - 1
         /\ lane'[Len(lane')].to = lane[Len(lane)].to
<1> DEFINE n == Len(first)
           l == Len(lane)
           rest == Tail(lane)
<1>1. /\ n \in Nat /\ 1 <= n /\ rest \in Seq(Ranges) /\ Len(rest) = l - 1
      /\ l \in Nat /\ 1 <= l /\ \A i \in 1 .. Len(rest) : rest[i] = lane[i + 1]
  BY EmptySeq, HeadTailProperties DEF LaneInv
<1>2. /\ Len(lane') = n + l - 1
      /\ \A i \in 1 .. Len(lane') : lane'[i] = (IF i <= n THEN first[i] ELSE lane[i - n + 1])
  <2>1. /\ lane' \in Seq(Ranges) /\ Len(lane') = n + Len(rest)
        /\ \A i \in 1 .. n + Len(rest) : lane'[i] = (IF i <= n THEN first[i] ELSE rest[i - n])
    BY <1>1, ConcatProperties
  <2>2. ASSUME NEW i \in 1 .. n + Len(rest), ~(i <= n) PROVE rest[i - n] = lane[i - n + 1]
    BY <1>1, <2>2
  <2> QED BY <1>1, <2>1, <2>2
<1>3. /\ \A i \in 1 .. l : lane[i] \in Ranges /\ lane[i].from \in Nat /\ lane[i].to \in Nat
      /\ \A i \in 1 .. n : first[i] \in Ranges /\ first[i].from \in Nat /\ first[i].to \in Nat
  <2>1. (\A i \in 1 .. l : lane[i] \in Ranges) /\ (\A i \in 1 .. n : first[i] \in Ranges)
    BY DEF LaneInv
  <2> QED BY <2>1 DEF Ranges
<1>4. lane'[n + l - 1].to = lane[l].to
  <2>1. CASE l = 1
    BY <1>1, <1>2, <2>1
  <2>2. CASE l # 1
    <3>1. n + l - 1 \in 1 .. Len(lane') /\ ~(n + l - 1 <= n) /\ (n + l - 1) - n + 1 = l
      BY <1>1, <1>2, <2>2
    <3> QED BY <1>2, <3>1
  <2> QED BY <2>1, <2>2
<1>5. lane[1].to + (l - 1) <= lane[l].to
  <2>1. CASE l = 1
    BY <1>1, <1>3, <2>1
  <2>2. CASE l # 1
    <3>1. 2 \in 1 .. l /\ 1 \in 1 .. l /\ l \in 1 .. l
      BY <1>1, <2>2
    <3>2. lane[2].from = lane[1].to + 1
      <4>1. 2 # 1 /\ 2 - 1 = 1
        OBVIOUS
      <4> QED BY <3>1, <4>1 DEF LaneInv
    <3>3. lane[2].from + (l - 2) <= lane[l].to
      BY <3>1 DEF LaneRoom
    <3> QED BY <1>1, <1>3, <3>1, <3>2, <3>3
  <2> QED BY <2>1, <2>2
<1>6. ASSUME NEW i \in 1 .. Len(lane')
      PROVE  /\ lane'[i].to < lane'[i].from + BatchSize
             /\ lane'[i].from + ((n + l - 1) - i) <= lane[l].to
  <2>1. CASE i <= n
    <3>1. lane'[i] = first[i] /\ i \in 1 .. n
      BY <1>1, <1>2, <2>1
    <3>2. first[i].to < first[i].from + BatchSize /\ first[i].from + (n - i) <= lane[1].to
      BY <3>1
    <3>3. first[i].from \in Nat /\ lane[1].to \in Nat /\ lane[l].to \in Nat
      BY <1>1, <1>3, <3>1
    <3>4. first[i].from + ((n + l - 1) - i) <= lane[l].to
      <4> DEFINE f == first[i].from
                 u == lane[1].to
                 v == lane[l].to
      <4>1. /\ f \in Nat /\ u \in Nat /\ v \in Nat /\ n \in Nat /\ l \in Nat /\ i \in Nat
            /\ f + (n - i) <= u /\ u + (l - 1) <= v
        BY <1>1, <1>5, <3>1, <3>2, <3>3
      <4>2. f + ((n + l - 1) - i) <= v
        <5> HIDE DEF f, u, v, n, l
        <5> QED BY <4>1
      <4> QED BY <4>2
    <3> QED BY <3>1, <3>2, <3>4
  <2>2. CASE ~(i <= n)
    <3> DEFINE j == i - n + 1
    <3>1. j \in 1 .. l /\ (n + l - 1) - i = l - j
      BY <1>1, <1>2, <2>2
    <3>2. lane'[i] = lane[j]
      BY <1>2, <2>2
    <3> HIDE DEF j
    <3>3. lane[j].to < lane[j].from + BatchSize /\ lane[j].from + (l - j) <= lane[l].to
      BY <3>1 DEF LaneRoom
    <3> QED BY <3>1, <3>2, <3>3
  <2> QED BY <2>1, <2>2
<1>7. LaneRoom'
  BY <1>2, <1>4, <1>6 DEF LaneRoom
<1>8. lane'[1] = first[1]
  BY <1>1, <1>2
<1> QED BY <1>1, <1>2, <1>4, <1>7, <1>8

\* The ranges behind the one that is left keep their room, and are fewer events.
LEMMA LeaveRoom ==
  ASSUME LaneInv, LaneRoom, lane # << >>, Leave
  PROVE  /\ LaneRoom'
         /\ lane' # << >> => 2 * EventsToGo' - Len(lane)' < 2 * EventsToGo - Len(lane)
<1> DEFINE l == Len(lane)
<1>1. /\ l \in Nat /\ 1 <= l /\ Len(lane') = l - 1
      /\ \A i \in 1 .. l - 1 : lane'[i] = lane[i + 1]
      /\ l = 1 => lane' = << >>
  <2>1. lane' = Tail(lane) /\ lane \in Seq(Ranges) /\ l \in Nat /\ 1 <= l
    BY AtWork DEF Leave, LaneInv
  <2>2. Len(Tail(lane)) = l - 1 /\ \A i \in 1 .. l - 1 : Tail(lane)[i] = lane[i + 1]
    BY <2>1, HeadTailProperties
  <2>3. Tail(lane) \in Seq(Ranges)
    BY <2>1, HeadTailProperties
  <2>4. l = 1 => Tail(lane) = << >>
    <3>1. l = 1 => Len(Tail(lane)) = 0
      BY <2>1, <2>2
    <3> QED BY <2>3, <3>1, EmptySeq
  <2> QED BY <2>1, <2>2, <2>4
<1>2. \A i \in 1 .. l : lane[i].from \in Nat /\ lane[i].to \in Nat
  <2>1. \A i \in 1 .. l : lane[i] \in Ranges
    BY DEF LaneInv
  <2> QED BY <2>1 DEF Ranges
<1>3. CASE l = 1
  <2>1. 1 .. Len(lane') = {}
    BY <1>1, <1>3
  <2> QED BY <1>1, <1>3, <2>1 DEF LaneRoom
<1>4. CASE l # 1
  <2>1. l - 1 \in 1 .. l - 1 /\ (l - 1) + 1 = l /\ lane'[l - 1] = lane[l]
    BY <1>1, <1>4
  <2>2. ASSUME NEW i \in 1 .. Len(lane')
        PROVE  /\ lane'[i].to < lane'[i].from + BatchSize
               /\ lane'[i].from + (Len(lane') - i) <= lane'[Len(lane')].to
    <3>1. i + 1 \in 1 .. l /\ lane'[i] = lane[i + 1] /\ Len(lane') - i = l - (i + 1)
      BY <1>1
    <3>2. /\ lane[i + 1].to < lane[i + 1].from + BatchSize
          /\ lane[i + 1].from + (l - (i + 1)) <= lane[l].to
      BY <3>1 DEF LaneRoom
    <3> QED BY <1>1, <2>1, <3>1, <3>2
  <2>3. LaneRoom'
    BY <2>2 DEF LaneRoom
  <2>4. lane'[1] = lane[2] /\ 2 \in 1 .. l /\ 1 \in 1 .. l /\ l \in 1 .. l
    BY <1>1, <1>4
  <2>5. lane[2].from = lane[1].to + 1 /\ lane[1].from <= lane[1].to
    <3>1. 2 # 1 /\ 2 - 1 = 1
      OBVIOUS
    <3> QED BY <2>4, <3>1 DEF LaneInv
  <2>6. EventsToGo' = lane[l].to + 1 - lane[2].from /\ EventsToGo = lane[l].to + 1 - lane[1].from
    BY <1>1, <2>1, <2>4 DEF EventsToGo
  <2>7. 2 * EventsToGo' - (l - 1) < 2 * EventsToGo - l
    <3> DEFINE f == lane[1].from
               u == lane[1].to
               v == lane[l].to
    <3>1. /\ f \in Nat /\ u \in Nat /\ v \in Nat /\ l \in Nat /\ f <= u
          /\ EventsToGo' = v + 1 - (u + 1) /\ EventsToGo = v + 1 - f
      BY <1>1, <1>2, <2>4, <2>5, <2>6
    <3> HIDE DEF f, u, v, l
    <3> QED BY <3>1
  <2> QED BY <1>1, <2>3, <2>7
<1> QED BY <1>3, <1>4

\* A range that is left is one less, and with the last one the work is done.
LEMMA LeaveShrinks ==
  ASSUME LaneInv, LaneRoom, lane # << >>, Leave
  PROVE  LaneRoom' /\ StepsLeft' \in Nat /\ StepsLeft' < StepsLeft
<1>1. /\ LaneInv' /\ LaneRoom'
      /\ lane' # << >> => 2 * EventsToGo' - Len(lane)' < 2 * EventsToGo - Len(lane)
  BY LeaveStep, LeaveRoom
<1>2. CASE lane' = << >>
  <2>1. StepsLeft' = 0
    BY <1>2 DEF StepsLeft
  <2>2. 0 < StepsLeft
    <3> DEFINE k == MaxRetries + BatchSize
               n == 2 * EventsToGo - Len(lane)
               w == WorkLeft
    <3>1. k \in Nat /\ n \in Nat /\ w \in Nat /\ 1 <= w /\ StepsLeft = k * n + w
      BY StepsOfLane DEF Measured
    <3> HIDE DEF k, n, w
    <3>2. k * n \in Nat
      BY <3>1
    <3> QED BY <3>1, <3>2
  <2> QED BY <1>1, <2>1, <2>2
<1>3. CASE lane' # << >>
  BY <1>1, <1>3, FewerSteps
<1> QED BY <1>2, <1>3

\* A failed invocation splits its range or uses up a retry.
LEMMA FailShrinks ==
  ASSUME LaneInv, LaneRoom, lane # << >>, FailInvocation
  PROVE  LaneRoom' /\ StepsLeft' \in Nat /\ StepsLeft' < StepsLeft
<1> DEFINE range == lane[1]
           mid == (range.from + range.to) \div 2
<1>1. /\ Head(lane) = range /\ range \in Ranges /\ range.from = next /\ range.to \in Nat
      /\ range.to <= Len(Stamp) /\ next <= at /\ at <= range.to /\ next \in Nat /\ at \in Nat
      /\ range.tries \in Nat /\ range.tries <= MaxRetries /\ Len(lane) \in Nat /\ 1 <= Len(lane)
  BY AtWork
<1>2. range.to < range.from + BatchSize
  BY <1>1 DEF LaneRoom
<1>3. LaneInv'
  BY FailStep
<1>4. CASE /\ range.from < range.to
           /\ lane' = Halves(range) \o Tail(lane)
           /\ at' = Halves(range)[1].from
           /\ UNCHANGED <<next, dlq>>
  <2> DEFINE low == Batch(range.from, mid)
             high == Batch(mid + 1, range.to)
             first == <<low, high>>
  <2>1. mid \in Nat /\ range.from <= mid /\ mid < range.to
    BY <1>1, <1>4
  <2>2. /\ low \in Ranges /\ low.from = next /\ low.to = mid /\ low.tries = 0
        /\ high \in Ranges /\ high.from = mid + 1 /\ high.to = range.to /\ high.tries = 0
    <3> HIDE DEF mid
    <3> QED BY <1>1, <2>1 DEF Batch, Ranges
  <2>3. lane' = first \o Tail(lane)
    BY <1>4 DEF Halves
  <2> HIDE DEF low, high
  <2>4. /\ first \in Seq(Ranges) /\ first # << >> /\ Len(first) = 2
        /\ first[1] = low /\ first[2] = high
    BY <2>2
  <2> HIDE DEF first
  <2>5. \A i \in 1 .. Len(first) :
          /\ first[i].to < first[i].from + BatchSize
          /\ first[i].from + (Len(first) - i) <= lane[1].to
    <3>1. /\ low.to < low.from + BatchSize /\ low.from + 1 <= lane[1].to
          /\ high.to < high.from + BatchSize /\ high.from + 0 <= lane[1].to
      <4> HIDE DEF mid
      <4> QED BY <1>1, <1>2, <2>1, <2>2, Numbers
    <3>2. \A i \in 1 .. Len(first) : i = 1 \/ i = 2
      BY <2>4
    <3> QED BY <2>4, <3>1, <3>2
  <2>6. /\ LaneRoom' /\ lane'[1] = low /\ Len(lane') = Len(lane) + 1
        /\ lane'[Len(lane')].to = lane[Len(lane)].to
    <3>1. first[Len(first)].to = lane[1].to
      BY <2>2, <2>4
    <3>2. /\ LaneRoom' /\ lane'[1] = first[1] /\ Len(lane') = Len(lane) + Len(first) - 1
          /\ lane'[Len(lane')].to = lane[Len(lane)].to
      BY <2>3, <2>4, <2>5, <3>1, ReplaceRoom
    <3> QED BY <1>1, <2>4, <3>2
  <2>7. lane' # << >>
    BY <1>1, <2>6
  <2>8. EventsToGo' = EventsToGo
    BY <1>1, <2>2, <2>6 DEF EventsToGo
  <2>9. 2 * EventsToGo' - Len(lane)' < 2 * EventsToGo - Len(lane)
    <3>1. EventsToGo \in Nat
      BY StepsOfLane DEF Measured
    <3> QED BY <1>1, <2>6, <2>8, <3>1
  <2> QED BY <1>3, <2>6, <2>7, <2>9, FewerSteps
<1>5. CASE /\ range.from = range.to
           /\ ~Exhausted(range)
           /\ lane' = <<Again(range)>> \o Tail(lane)
           /\ at' = range.from
           /\ UNCHANGED <<next, dlq>>
  <2> DEFINE again == Again(range)
             first == <<again>>
  <2>1. /\ again \in Ranges /\ again.from = next /\ again.to = range.to
        /\ again.tries = range.tries + 1
    BY <1>1, AgainFields
  <2>2. range.tries < MaxRetries
    BY <1>1, <1>5, Numbers DEF Exhausted
  <2>3. lane' = first \o Tail(lane)
    BY <1>5
  <2> HIDE DEF again
  <2>4. first \in Seq(Ranges) /\ first # << >> /\ Len(first) = 1 /\ first[1] = again
    BY <2>1
  <2> HIDE DEF first
  <2>5. \A i \in 1 .. Len(first) :
          /\ first[i].to < first[i].from + BatchSize
          /\ first[i].from + (Len(first) - i) <= lane[1].to
    <3>1. again.to < again.from + BatchSize /\ again.from + 0 <= lane[1].to
      <4>1. again.to = range.to /\ again.from = range.from
        BY <1>1, <2>1
      <4>2. range.from \in Nat /\ range.to \in Nat /\ range.from = range.to
        BY <1>1, <1>5
      <4>3. range.from + 0 <= range.to
        BY <4>2
      <4> QED BY <1>2, <4>1, <4>3
    <3>2. \A i \in 1 .. Len(first) : i = 1
      BY <2>4
    <3> QED BY <2>4, <3>1, <3>2
  <2>6. /\ LaneRoom' /\ lane'[1] = again /\ Len(lane') = Len(lane)
        /\ lane'[Len(lane')].to = lane[Len(lane)].to
    <3>1. first[Len(first)].to = lane[1].to
      BY <2>1, <2>4
    <3>2. /\ LaneRoom' /\ lane'[1] = first[1] /\ Len(lane') = Len(lane) + Len(first) - 1
          /\ lane'[Len(lane')].to = lane[Len(lane)].to
      BY <2>3, <2>4, <2>5, <3>1, ReplaceRoom
    <3> QED BY <1>1, <2>4, <3>2
  <2>7. lane' # << >>
    BY <1>1, <2>6
  <2>8. EventsToGo' = EventsToGo
    BY <1>1, <2>1, <2>6 DEF EventsToGo
  <2>9. WorkLeft' < WorkLeft
    <3>1. WorkLeft' = (MaxRetries - (range.tries + 1)) + (range.to + 1 - at')
      BY <2>1, <2>6 DEF WorkLeft
    <3>2. at' = at
      BY <1>1, <1>5
    <3> QED BY <1>1, <2>2, <3>1, <3>2, Numbers DEF WorkLeft
  <2> QED BY <1>3, <2>6, <2>7, <2>8, <2>9, FewerSteps
<1>6. CASE Leave
  BY <1>6, LeaveShrinks
<1> QED BY <1>1, <1>4, <1>5, <1>6 DEF FailInvocation

\* An answered chunk brings the projector on, or to the end of the range.
LEMMA ChunkShrinks ==
  ASSUME LaneInv, LaneRoom, lane # << >>, EndChunk
  PROVE  LaneRoom' /\ StepsLeft' \in Nat /\ StepsLeft' < StepsLeft
<1>1. /\ Head(lane) = lane[1] /\ lane[1].to \in Nat /\ next <= at /\ at <= lane[1].to
      /\ next \in Nat /\ at \in Nat /\ ChunkSize \in Nat \ {0}
      /\ lane[1].tries \in Nat /\ lane[1].tries <= MaxRetries /\ MaxRetries \in Nat
  BY AtWork, Numbers
<1>2. CASE at + ChunkSize <= lane[1].to
  <2>1. at' = at + ChunkSize /\ UNCHANGED <<lane, next>>
    BY <1>1, <1>2 DEF EndChunk
  <2>2. LaneInv' /\ LaneRoom' /\ lane' # << >>
    BY <1>1, <1>2, <2>1, ChunkStep DEF LaneRoom
  <2>3. EventsToGo' = EventsToGo /\ Len(lane)' = Len(lane)
    BY <2>1 DEF EventsToGo
  <2>4. WorkLeft' < WorkLeft
    <3>1. WorkLeft' = (MaxRetries - lane[1].tries) + (lane[1].to + 1 - (at + ChunkSize))
      BY <2>1 DEF WorkLeft
    <3> QED BY <1>1, <1>2, <3>1 DEF WorkLeft
  <2> QED BY <2>2, <2>3, <2>4, FewerSteps
<1>3. CASE ~(at + ChunkSize <= lane[1].to)
  BY <1>1, <1>3, LeaveShrinks DEF EndChunk
<1> QED BY <1>2, <1>3

\* A new batch is one range within its size.
LEMMA DeliverRoom ==
  ASSUME LaneInv, Deliver
  PROVE  LaneRoom'
<1>1. PICK to \in next .. Len(Stamp) : to < next + BatchSize /\ lane' = <<Batch(next, to)>>
  BY DEF Deliver
<1>2. next \in Nat /\ to \in Nat /\ next <= to
  BY <1>1, Numbers DEF LaneInv
<1>3. Len(lane') = 1 /\ lane'[1].from = next /\ lane'[1].to = to
  BY <1>1 DEF Batch
<1>4. \A i \in 1 .. Len(lane') : i = 1
  BY <1>3
<1>5. lane'[1].to < lane'[1].from + BatchSize /\ lane'[1].from + (1 - 1) <= lane'[1].to
  BY <1>1, <1>2, <1>3
<1> QED BY <1>3, <1>4, <1>5 DEF LaneRoom

\* A step of the projector has fewer steps behind it, and no other step more.
LEMMA RoomStep ==
  ASSUME LaneInv, LaneRoom, [Next]_vars
  PROVE  /\ LaneRoom'
         /\ Project => StepsLeft' \in Nat /\ StepsLeft' < StepsLeft
         /\ ~Project /\ lane # << >> => UNCHANGED StepsLeft
<1>1. ASSUME UNCHANGED <<lane, at>>
      PROVE  LaneRoom' /\ UNCHANGED StepsLeft
  BY <1>1 DEF LaneRoom, StepsLeft
<1>2. ASSUME Project PROVE LaneRoom' /\ StepsLeft' \in Nat /\ StepsLeft' < StepsLeft
  <2>1. lane # << >> /\ (EndChunk \/ FailInvocation)
    BY <1>2 DEF Project, WriteChunk, SkipRows, RefuseChunk, LoseAnswer
  <2> QED BY <2>1, ChunkShrinks, FailShrinks
<1>3. ASSUME Deliver PROVE LaneRoom' /\ lane = << >>
  BY <1>3, DeliverRoom DEF Deliver
<1>4. CASE Project
  BY <1>2, <1>4
<1>5. CASE ~Project
  <2>1. Deliver \/ UNCHANGED <<lane, at>>
    <3>1. CASE StartClear
      BY <3>1 DEF StartClear, writer
    <3>2. CASE Clear
      BY <3>2 DEF Clear, ClearQuery, ClearDelete, ClearSkips, ClearFails, writer
    <3>3. CASE Expire
      BY <3>3 DEF Expire, writer
    <3>4. CASE UNCHANGED vars
      BY <3>4 DEF vars, writer
    <3> QED BY <1>5, <3>1, <3>2, <3>3, <3>4 DEF Next
  <2> QED BY <1>1, <1>3, <1>5, <2>1
<1> QED BY <1>4, <1>5

\* What was delivered is behind the checkpoint after boundedly many steps of the
\* projector, whatever is refused or left unanswered: every one of them splits a
\* range, uses up a retry or brings it on.
THEOREM LaneGetsShorter == Spec => LaneShrinks
<1>1. Init => LaneRoom
  <2>1. ASSUME Init PROVE 1 .. Len(lane) = {}
    BY <2>1 DEF Init
  <2> QED BY <2>1 DEF LaneRoom
<1>2. LaneInv /\ LaneRoom /\ [Next]_vars => LaneRoom'
  BY RoomStep
<1>3. Inv => LaneInv
  BY DEF Inv
<1>4. Spec => [](LaneInv /\ LaneRoom)
  BY <1>1, <1>2, <1>3, Invariance, PTL DEF Spec
<1>5. LaneInv /\ LaneRoom /\ [Next]_vars =>
        [IF Project THEN StepsLeft' \in Nat /\ StepsLeft' < StepsLeft
         ELSE lane # << >> => UNCHANGED StepsLeft]_vars
  BY RoomStep
<1> QED BY <1>4, <1>5, PTL DEF Spec, LaneShrinks
=============================================================================
