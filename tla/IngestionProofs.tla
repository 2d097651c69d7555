--------------------------- MODULE IngestionProofs ---------------------------
(***************************************************************************)
(* Proofs about Ingestion, for batches of any length, any parallelism and  *)
(* any number of retries: a record is on r17-ingested at most once per     *)
(* delivery of its batch, and it is on neither output only if a write or a *)
(* send was lost.                                                          *)
(***************************************************************************)
EXTENDS Ingestion, FiniteSetTheorems, TLAPS

\* The places of a record on the output.
Places(r) == {k \in DOMAIN ingested : ingested[k] = r}
Copies(r) == Cardinality(Places(r))

\* Every failed invocation accounts for one copy at most, and the current one
\* for another when the record is settled.
Accounted ==
  \A r \in Records : Copies(r) <= tries + (IF state[r] = "settled" THEN 1 ELSE 0)

IngestionInv == TypeOK /\ Accounted

\* A record is written once more.
LEMMA PlacesGrow ==
  ASSUME ingested \in Seq(Records), NEW r \in Records, ingested' = Append(ingested, r),
         NEW q \in Records
  PROVE  Places(q)' = IF q = r THEN Places(q) \cup {Len(ingested) + 1} ELSE Places(q)
<1>1. DOMAIN ingested' = DOMAIN ingested \cup {Len(ingested) + 1}
  OBVIOUS
<1>2. ingested'[Len(ingested) + 1] = r /\ \A k \in DOMAIN ingested : ingested'[k] = ingested[k]
  OBVIOUS
<1>3. Len(ingested) + 1 \notin DOMAIN ingested
  OBVIOUS
<1> QED BY <1>1, <1>2, <1>3 DEF Places

\* A record has finitely many places on the output.
LEMMA PlacesFinite ==
  ASSUME ingested \in Seq(Records), NEW q \in Records
  PROVE  IsFiniteSet(Places(q)) /\ Copies(q) \in Nat
<1>1. DOMAIN ingested = 1..Len(ingested) /\ Len(ingested) \in Nat
  OBVIOUS
<1>2. IsFiniteSet(DOMAIN ingested)
  BY <1>1, FS_Interval
<1>3. Places(q) \subseteq DOMAIN ingested
  BY DEF Places
<1>4. IsFiniteSet(Places(q))
  BY <1>2, <1>3, FS_Subset
<1> QED BY <1>4, FS_CardinalityType DEF Copies

\* A write adds one copy of its record.
LEMMA CopiesGrow ==
  ASSUME ingested \in Seq(Records), NEW r \in Records, ingested' = Append(ingested, r),
         NEW q \in Records
  PROVE  Copies(q)' = Copies(q) + (IF q = r THEN 1 ELSE 0)
<1>1. Len(ingested) + 1 \notin Places(q) /\ IsFiniteSet(Places(q)) /\ Copies(q) \in Nat
  <2>1. Len(ingested) + 1 \notin DOMAIN ingested
    OBVIOUS
  <2>2. Len(ingested) + 1 \notin Places(q)
    BY <2>1 DEF Places
  <2> QED BY <2>2, PlacesFinite
<1>2. Cardinality(Places(q) \cup {Len(ingested) + 1}) = Copies(q) + 1
  BY <1>1, FS_AddElement DEF Copies
<1>3. Places(q)' = IF q = r THEN Places(q) \cup {Len(ingested) + 1} ELSE Places(q)
  BY PlacesGrow
<1>4. CASE q = r
  BY <1>2, <1>3, <1>4 DEF Copies
<1>5. CASE q # r
  BY <1>1, <1>3, <1>5 DEF Copies
<1> QED BY <1>4, <1>5

\* Before the invocation nothing is on the output.
LEMMA IngestionInit == ASSUME Init PROVE IngestionInv
<1>1. TypeOK
  BY IngestionAssumption DEF Init, TypeOK, IngestionAssumption
<1>2. ASSUME NEW r \in Records PROVE Copies(r) = 0
  <2>1. Places(r) = {}
    BY DEF Init, Places
  <2> QED BY <2>1, FS_EmptySet DEF Copies
<1>3. tries = 0
  BY DEF Init
<1> QED BY <1>1, <1>2, <1>3 DEF IngestionInv, Accounted

\* Every step keeps the types.
LEMMA TypeStep == ASSUME TypeOK, [Next]_vars PROVE TypeOK'
<1>1. CASE \E r \in Records : Start(r)
  <2>1. PICK r \in Records : Start(r)
    BY <1>1
  <2>2. state' = [state EXCEPT ![r] = IF kind[r] = "valid" THEN "fanout" ELSE "dlq"]
        /\ UNCHANGED <<kind, tries, pc, ingested, dlq>>
    BY <2>1 DEF Start, Step
  <2> QED BY <2>2 DEF TypeOK
<1>2. CASE \E r \in Records : FanOut(r)
  <2>1. PICK r \in Records : FanOut(r)
    BY <1>2
  <2>2. /\ state' = [state EXCEPT ![r] = "settled"]
        /\ ingested' = Append(ingested, r) \/ ingested' = ingested
        /\ UNCHANGED <<kind, tries, pc, dlq>>
    BY <2>1 DEF FanOut, Step
  <2>3. ingested' \in Seq(Records)
    BY <2>2 DEF TypeOK
  <2> QED BY <2>2, <2>3 DEF TypeOK
<1>3. CASE \E r \in Records : SendToDLQ(r)
  <2>1. PICK r \in Records : SendToDLQ(r)
    BY <1>3
  <2>2. /\ state' = [state EXCEPT ![r] = "settled"]
        /\ dlq' = dlq \cup {r} \/ dlq' = dlq
        /\ UNCHANGED <<kind, tries, pc, ingested>>
    BY <2>1 DEF SendToDLQ, Step
  <2> QED BY <2>2 DEF TypeOK
<1>4. CASE Succeed
  BY <1>4 DEF Succeed, TypeOK
<1>5. CASE TimeOut
  BY <1>5, IngestionAssumption DEF TimeOut, RetriesLeft, TypeOK, IngestionAssumption
<1>6. CASE UNCHANGED vars
  BY <1>6 DEF vars, TypeOK
<1> QED BY <1>1, <1>2, <1>3, <1>4, <1>5, <1>6 DEF Next, Work

\* Steps that leave the output alone leave the copies alone.
LEMMA CopiesKept ==
  ASSUME UNCHANGED ingested, NEW q \in Records
  PROVE  Copies(q)' = Copies(q)
BY DEF Copies, Places

\* Every step keeps the account of the copies.
LEMMA AccountedStep == ASSUME IngestionInv, [Next]_vars PROVE Accounted'
<1>1. /\ ingested \in Seq(Records) /\ tries \in Nat
      /\ state \in [Records -> {"waiting", "fanout", "dlq", "settled"}]
  BY IngestionAssumption DEF IngestionInv, TypeOK, IngestionAssumption
<1>2. \A q \in Records :
        Copies(q) \in Nat /\ Copies(q) <= tries + (IF state[q] = "settled" THEN 1 ELSE 0)
  BY <1>1, PlacesFinite DEF IngestionInv, Accounted
<1>3. CASE \E r \in Records : Start(r) \/ SendToDLQ(r)
  <2>1. PICK r \in Records : Start(r) \/ SendToDLQ(r)
    BY <1>3
  <2>2. /\ state[r] # "settled" /\ UNCHANGED <<tries, ingested>>
        /\ \A q \in Records : q # r => state'[q] = state[q]
    BY <1>1, <2>1 DEF Start, SendToDLQ, Step
  <2> QED BY <1>1, <1>2, <2>2, CopiesKept DEF Accounted
<1>4. CASE \E r \in Records : FanOut(r)
  <2>1. PICK r \in Records : FanOut(r)
    BY <1>4
  <2>2. /\ state[r] = "fanout" /\ state'[r] = "settled" /\ UNCHANGED tries
        /\ \A q \in Records : q # r => state'[q] = state[q]
        /\ ingested' = Append(ingested, r) \/ ingested' = ingested
    BY <1>1, <2>1 DEF FanOut, Step
  <2>3. \A q \in Records : Copies(q)' <= Copies(q) + (IF q = r THEN 1 ELSE 0)
    <3>1. CASE ingested' = Append(ingested, r)
      BY <1>1, <1>2, <3>1, CopiesGrow
    <3>2. CASE ingested' = ingested
      BY <1>2, <3>2, CopiesKept
    <3> QED BY <2>2, <3>1, <3>2
  <2>4. \A q \in Records : Copies(q)' \in Nat
    <3>1. ingested' \in Seq(Records)
      BY <1>1, <2>2
    <3>2. \A q \in Records : Copies(q)' \in Nat
      BY <1>1, <1>2, <2>2, CopiesGrow, CopiesKept
    <3> QED BY <3>2
  <2>5. ASSUME NEW q \in Records
        PROVE  Copies(q)' <= tries' + (IF state'[q] = "settled" THEN 1 ELSE 0)
    <3>1. CASE q = r
      BY <1>1, <1>2, <2>2, <2>3, <2>4, <3>1
    <3>2. CASE q # r
      BY <1>1, <1>2, <2>2, <2>3, <2>4, <3>2
    <3> QED BY <3>1, <3>2
  <2> QED BY <2>5 DEF Accounted
<1>5. CASE TimeOut
  <2>1. UNCHANGED ingested
    BY <1>5 DEF TimeOut
  <2>2. CASE tries' = tries + 1
    BY <1>1, <1>2, <2>1, <2>2, CopiesKept DEF Accounted
  <2>3. CASE UNCHANGED <<state, tries>>
    BY <1>2, <2>1, <2>3, CopiesKept DEF Accounted
  <2> QED BY <1>5, <2>2, <2>3 DEF TimeOut
<1>6. CASE Succeed \/ UNCHANGED vars
  <2>1. UNCHANGED <<state, tries, ingested>>
    BY <1>6 DEF Succeed, vars
  <2> QED BY <1>2, <2>1, CopiesKept DEF Accounted
<1> QED BY <1>3, <1>4, <1>5, <1>6 DEF Next, Work

LEMMA IngestionInvariant == Spec => []IngestionInv
<1>1. Init => IngestionInv
  BY IngestionInit
<1>2. IngestionInv /\ [Next]_vars => IngestionInv'
  BY TypeStep, AccountedStep DEF IngestionInv
<1> QED BY <1>1, <1>2, PTL DEF Spec

\* The variables of an invocation are well typed.
THEOREM IngestionTypeCorrect == Spec => []TypeOK
<1>1. IngestionInv => TypeOK
  BY DEF IngestionInv
<1> QED BY <1>1, IngestionInvariant, PTL

\* A record is on the output at most once per delivery of its batch, whichever
\* writes fail and wherever an invocation is cut off.
THEOREM CopiesBounded == Spec => []CopiesBoundedByDeliveries
<1>1. ASSUME IngestionInv, NEW r \in Records
      PROVE  Cardinality({k \in DOMAIN ingested : ingested[k] = r}) <= tries + 1
  <2>1. ingested \in Seq(Records) /\ tries \in Nat
    BY <1>1, IngestionAssumption DEF IngestionInv, TypeOK, IngestionAssumption
  <2>2. Copies(r) \in Nat /\ Copies(r) <= tries + (IF state[r] = "settled" THEN 1 ELSE 0)
    BY <1>1, <2>1, PlacesFinite DEF IngestionInv, Accounted
  <2>3. Copies(r) <= tries + 1
    BY <2>1, <2>2
  <2> QED BY <2>3 DEF Copies, Places
<1>2. IngestionInv => CopiesBoundedByDeliveries
  BY <1>1 DEF CopiesBoundedByDeliveries
<1> QED BY <1>2, IngestionInvariant, PTL

-----------------------------------------------------------------------------
(* What loses a record.                                                    *)

OnOutput(r) == \E k \in DOMAIN ingested : ingested[k] = r

\* A record that is settled has gone somewhere.
SettledSomewhere ==
  /\ \A r \in Records : state[r] = "settled" => r \in dlq \/ OnOutput(r)
  /\ pc = "succeeded" => \A r \in Records : state[r] = "settled"

\* What is on the output stays there.
LEMMA OutputGrows ==
  ASSUME ingested \in Seq(Records), NEW r \in Records, ingested' = Append(ingested, r)
  PROVE  OnOutput(r)' /\ \A q \in Records : OnOutput(q) => OnOutput(q)'
<1>1. DOMAIN ingested' = DOMAIN ingested \cup {Len(ingested) + 1}
  OBVIOUS
<1>2. ingested'[Len(ingested) + 1] = r /\ \A k \in DOMAIN ingested : ingested'[k] = ingested[k]
  OBVIOUS
<1> QED BY <1>1, <1>2 DEF OnOutput

\* Without a lost write and a lost send, every step settles a record somewhere.
LEMMA SettledStep ==
  ASSUME "kinesis" \notin Faults, "sqs" \notin Faults, TypeOK, SettledSomewhere, [Next]_vars
  PROVE  SettledSomewhere'
<1>1. /\ ingested \in Seq(Records)
      /\ state \in [Records -> {"waiting", "fanout", "dlq", "settled"}]
  BY DEF TypeOK
<1>2. CASE \E r \in Records : Start(r)
  <2>1. PICK r \in Records : Start(r)
    BY <1>2
  <2>2. /\ state'[r] # "settled" /\ UNCHANGED <<ingested, dlq, pc>> /\ pc = "running"
        /\ \A q \in Records : q # r => state'[q] = state[q]
    BY <1>1, <2>1 DEF Start, Step
  <2> QED BY <2>2 DEF SettledSomewhere, OnOutput
<1>3. CASE \E r \in Records : FanOut(r)
  <2>1. PICK r \in Records : FanOut(r)
    BY <1>3
  <2>2. /\ ingested' = Append(ingested, r) /\ UNCHANGED <<dlq, pc>> /\ pc = "running"
        /\ \A q \in Records : q # r => state'[q] = state[q]
    BY <1>1, <2>1 DEF FanOut, Step
  <2>3. OnOutput(r)' /\ \A q \in Records : OnOutput(q) => OnOutput(q)'
    BY <1>1, <2>2, OutputGrows
  <2> QED BY <2>2, <2>3 DEF SettledSomewhere
<1>4. CASE \E r \in Records : SendToDLQ(r)
  <2>1. PICK r \in Records : SendToDLQ(r)
    BY <1>4
  <2>2. /\ dlq' = dlq \cup {r} /\ UNCHANGED <<ingested, pc>> /\ pc = "running"
        /\ \A q \in Records : q # r => state'[q] = state[q]
    BY <1>1, <2>1 DEF SendToDLQ, Step
  <2> QED BY <2>2 DEF SettledSomewhere, OnOutput
<1>5. CASE Succeed
  BY <1>5 DEF Succeed, SettledSomewhere, OnOutput
<1>6. CASE TimeOut
  <2>1. UNCHANGED <<ingested, dlq>> /\ pc' # "succeeded"
    BY <1>6 DEF TimeOut
  <2>2. CASE state' = [r \in Records |-> "waiting"]
    BY <2>1, <2>2 DEF SettledSomewhere
  <2>3. CASE UNCHANGED state
    BY <2>1, <2>3 DEF SettledSomewhere, OnOutput
  <2> QED BY <1>6, <2>2, <2>3 DEF TimeOut
<1>7. CASE UNCHANGED vars
  BY <1>7 DEF vars, SettledSomewhere, OnOutput
<1> QED BY <1>2, <1>3, <1>4, <1>5, <1>6, <1>7 DEF Next, Work

\* "Must NOT drop valid events silently" holds of the algorithm when every
\* putRecords and every DLQ send that is made succeeds, with time-outs at any
\* point: the two results that are not looked at are all that loses a record.
THEOREM OnlyLostWritesDrop ==
  ASSUME "kinesis" \notin Faults, "sqs" \notin Faults
  PROVE  Spec => []NothingDropped
<1>1. Init => TypeOK /\ SettledSomewhere
  BY IngestionInit DEF IngestionInv, Init, SettledSomewhere
<1>2. TypeOK /\ SettledSomewhere /\ [Next]_vars => (TypeOK /\ SettledSomewhere)'
  BY TypeStep, SettledStep
<1>3. SettledSomewhere => NothingDropped
  BY DEF SettledSomewhere, NothingDropped, OnOutput
<1> QED BY <1>1, <1>2, <1>3, PTL DEF Spec

\* A set of records of the batch has no more of them than the batch.
LEMMA RecordsCounted ==
  ASSUME Total \in Nat, NEW S \in SUBSET Records
  PROVE  IsFiniteSet(S) /\ Cardinality(S) \in 0 .. Total
<1>1. IsFiniteSet(Records) /\ Cardinality(Records) = Total
  BY FS_Interval DEF Records
<1>2. IsFiniteSet(S) /\ Cardinality(S) <= Total /\ Cardinality(S) \in Nat
  BY <1>1, FS_Subset, FS_CardinalityType
<1> QED BY <1>2

\* Starting a record takes it from those that wait, and adds none that are not settled.
LEMMA StartCounts ==
  ASSUME TypeOK, Total \in Nat, NEW r \in Records, Start(r)
  PROVE  /\ Cardinality(Waiting') = Cardinality(Waiting) - 1
         /\ Cardinality(Unsettled') = Cardinality(Unsettled)
<1>1. /\ state[r] = "waiting" /\ state'[r] \in {"fanout", "dlq"}
      /\ \A q \in Records : q # r => state'[q] = state[q]
  BY DEF Start, Step, TypeOK
<1>2. Waiting' = Waiting \ {r} /\ r \in Waiting
  BY <1>1 DEF Waiting
<1>3. Unsettled' = Unsettled
  BY <1>1 DEF Unsettled
<1>4. IsFiniteSet(Waiting)
  BY RecordsCounted DEF Waiting
<1> QED BY <1>2, <1>3, <1>4, FS_RemoveElement

\* A call that ends takes its record from those that are not settled.
LEMMA SettleCounts ==
  ASSUME TypeOK, Total \in Nat, NEW r \in Records, FanOut(r) \/ SendToDLQ(r)
  PROVE  /\ Cardinality(Waiting') = Cardinality(Waiting)
         /\ Cardinality(Unsettled') = Cardinality(Unsettled) - 1
<1>1. /\ state[r] \in {"fanout", "dlq"} /\ state'[r] = "settled"
      /\ \A q \in Records : q # r => state'[q] = state[q]
  BY DEF FanOut, SendToDLQ, Step, TypeOK
<1>2. Unsettled' = Unsettled \ {r} /\ r \in Unsettled
  BY <1>1 DEF Unsettled
<1>3. Waiting' = Waiting
  BY <1>1 DEF Waiting
<1>4. IsFiniteSet(Unsettled)
  BY RecordsCounted DEF Unsettled
<1> QED BY <1>2, <1>3, <1>4, FS_RemoveElement

\* One delivery fewer is as many steps fewer as a delivery can take.
LEMMA DeliveryFewer ==
  ASSUME NEW t \in Nat, NEW m \in Nat, t < m, NEW k \in Nat
  PROVE  /\ (m - t) * k \in Nat /\ (m - (t + 1)) * k \in Nat
         /\ (m - t) * k = (m - (t + 1)) * k + k
<1> DEFINE rest == m - (t + 1)
<1>1. rest \in Nat /\ m - t = rest + 1
  OBVIOUS
<1>2. \A x, y \in Nat : x * y \in Nat /\ (x + 1) * y = x * y + y
  OBVIOUS
<1> HIDE DEF rest
<1>3. rest * k \in Nat /\ (rest + 1) * k \in Nat /\ (rest + 1) * k = rest * k + k
  BY <1>1, <1>2
<1> QED BY <1>1, <1>3 DEF rest

\* The deliveries still to come, in steps.
ToCome == (MaxRetries - tries) * (2 * Total + 1)

\* A batch of any length leaves the lane within a number of steps that its length and
\* the limit on the retries determine, whatever fails and wherever it is cut off.
THEOREM BatchesShrink == Spec => BatchShrinks
<1>1. ASSUME TypeOK, TypeOK', Next PROVE StepsLeft' \in Nat /\ StepsLeft' < StepsLeft
  <2> DEFINE w == Cardinality(Waiting)
             u == Cardinality(Unsettled)
             wAfter == Cardinality(Waiting')
             uAfter == Cardinality(Unsettled')
  <2>1. Total \in Nat /\ MaxRetries \in Nat /\ tries \in 0 .. MaxRetries /\ tries' \in 0 .. MaxRetries
    BY <1>1, IngestionAssumption DEF IngestionAssumption, TypeOK
  <2>2. w \in 0 .. Total /\ u \in 0 .. Total /\ wAfter \in 0 .. Total /\ uAfter \in 0 .. Total
    <3>1. /\ Waiting \in SUBSET Records /\ Unsettled \in SUBSET Records
          /\ Waiting' \in SUBSET Records /\ Unsettled' \in SUBSET Records
      BY DEF Waiting, Unsettled
    <3> QED BY <2>1, <3>1, RecordsCounted
  <2>3. ToCome \in Nat
    <3>1. MaxRetries - tries \in Nat /\ 2 * Total + 1 \in Nat
      BY <2>1
    <3>2. \A x, y \in Nat : x * y \in Nat
      OBVIOUS
    <3> QED BY <3>1, <3>2 DEF ToCome
  <2>4. pc = "running" /\ StepsLeft = ToCome + w + u + 1
    <3>1. pc = "running"
      BY <1>1 DEF Next, Work, Start, FanOut, SendToDLQ, Succeed, TimeOut, Step
    <3> QED BY <3>1 DEF StepsLeft, ToCome
  <2>5. pc' = "running" => StepsLeft' = ToCome' + wAfter + uAfter + 1
    BY DEF StepsLeft, ToCome
  <2>6. pc' # "running" => StepsLeft' = 0
    BY DEF StepsLeft
  <2> HIDE DEF w, u, wAfter, uAfter
  <2>7. ASSUME pc' # "running" PROVE StepsLeft' \in Nat /\ StepsLeft' < StepsLeft
    BY <2>1, <2>2, <2>3, <2>4, <2>6, <2>7
  <2>8. ASSUME pc' = "running", ToCome' = ToCome, wAfter + uAfter = w + u - 1
        PROVE  StepsLeft' \in Nat /\ StepsLeft' < StepsLeft
    BY <2>1, <2>2, <2>3, <2>4, <2>5, <2>8
  <2>9. CASE \E r \in Records : Start(r)
    <3>1. PICK r \in Records : Start(r)
      BY <2>9
    <3>2. pc' = "running" /\ ToCome' = ToCome
      BY <2>4, <3>1 DEF Start, ToCome
    <3>3. wAfter = w - 1 /\ uAfter = u
      BY <1>1, <2>1, <3>1, StartCounts DEF w, u, wAfter, uAfter
    <3> QED BY <2>2, <2>8, <3>2, <3>3
  <2>10. CASE \E r \in Records : FanOut(r) \/ SendToDLQ(r)
    <3>1. PICK r \in Records : FanOut(r) \/ SendToDLQ(r)
      BY <2>10
    <3>2. pc' = "running" /\ ToCome' = ToCome
      BY <2>4, <3>1 DEF FanOut, SendToDLQ, ToCome
    <3>3. wAfter = w /\ uAfter = u - 1
      BY <1>1, <2>1, <3>1, SettleCounts DEF w, u, wAfter, uAfter
    <3> QED BY <2>2, <2>8, <3>2, <3>3
  <2>11. CASE Succeed
    BY <2>7, <2>11 DEF Succeed
  <2>12. CASE TimeOut
    <3>1. CASE pc' # "running"
      BY <2>7, <3>1
    <3>2. CASE pc' = "running"
      <4>1. tries < MaxRetries /\ tries' = tries + 1
        BY <2>4, <2>12, <3>2 DEF TimeOut, RetriesLeft
      <4>2. ToCome = ToCome' + (2 * Total + 1) /\ ToCome' \in Nat
        <5>1. 2 * Total + 1 \in Nat /\ tries \in Nat
          BY <2>1
        <5>2. /\ (MaxRetries - tries) * (2 * Total + 1)
                  = (MaxRetries - (tries + 1)) * (2 * Total + 1) + (2 * Total + 1)
              /\ (MaxRetries - (tries + 1)) * (2 * Total + 1) \in Nat
          BY <2>1, <4>1, <5>1, DeliveryFewer
        <5>3. ToCome' = (MaxRetries - (tries + 1)) * (2 * Total + 1)
          BY <4>1 DEF ToCome
        <5> QED BY <5>2, <5>3 DEF ToCome
      <4>3. StepsLeft' = ToCome' + wAfter + uAfter + 1
        BY <2>5, <3>2
      <4> DEFINE older == ToCome
                 newer == ToCome'
      <4>4. /\ older = newer + (2 * Total + 1) /\ newer \in Nat
            /\ StepsLeft = older + w + u + 1 /\ StepsLeft' = newer + wAfter + uAfter + 1
        BY <2>4, <4>2, <4>3
      <4> HIDE DEF older, newer
      <4> QED BY <2>1, <2>2, <4>4
    <3> QED BY <3>1, <3>2
  <2> QED BY <1>1, <2>9, <2>10, <2>11, <2>12 DEF Next, Work
<1>2. TypeOK /\ TypeOK' /\ [Next]_vars => [StepsLeft' \in Nat /\ StepsLeft' < StepsLeft]_vars
  BY <1>1
<1> QED BY <1>2, IngestionTypeCorrect, PTL DEF Spec, BatchShrinks
=============================================================================
