------------------------------ MODULE AssetState ------------------------------
(***************************************************************************)
(* The asset-state table and everyone who writes it:                       *)
(*   - the Signal Agent reads the whole item of an asset, folds a reading  *)
(*     into its baselines and puts the whole item back;                    *)
(*   - the Diagnosis Agent reads last_diagnosis_at to debounce its Bedrock *)
(*     calls and updates that one attribute;                               *)
(*   - the dashboard deletes the item to reset the baselines.              *)
(* Each agent has one lane per asset and is cut at every await.  Readings  *)
(* are numbered; baselines, z-scores and last values are abstracted to the *)
(* sequence of readings folded into them, whose length is reading_count,   *)
(* and the risk a reading yields is any of the three states.               *)
(***************************************************************************)
EXTENDS Lane, Sequences, FiniteSets

CONSTANTS
  Assets,       \* asset identifiers
  Debounce,     \* DIAGNOSIS_DEBOUNCE_MS
  None,         \* null, and an absent item or attribute
  ReadLag,      \* may a GetItem, which is not ConsistentRead, be stale?
  Requests,     \* operator requests of this instance: "reset"
  Faults,       \* "invocation": a Lambda fails; "bedrock": no usable answer
  MaxRetries,   \* failed invocations before a mapping gives a batch up
  Backlog,      \* risk states already on the stream at the start
  MaxReadings,  \* bound: readings per asset
  MaxBatch,     \* bound: records in a batch
  MaxClock      \* bound: the clock stops here

RiskStates == {"nominal", "elevated", "critical"}

ASSUME AssetStateAssumption ==
  /\ Debounce \in Nat
  /\ None \notin Nat
  /\ ReadLag \in BOOLEAN
  /\ Requests \subseteq {"reset"} /\ Faults \subseteq {"invocation", "bedrock"}
  /\ Backlog \in Seq(RiskStates)
  /\ {MaxRetries, MaxReadings, MaxBatch, MaxClock} \subseteq Nat

VARIABLES
  clock,      \* Date.now()
  row,        \* per asset: the item of the asset-state table, or None
  replica,    \* per asset: a copy of the item that a read may still see
  sLane, dLane,  \* per asset: the lanes of the Signal and Diagnosis Agents
  sPc, dPc,      \* per asset: where their processEvent is
  sState,     \* per asset: the item the Signal Agent is about to put
  sRisk,      \* per asset: the risk state it computed
  dState,     \* per asset: the item the Diagnosis Agent read
  dStamp,     \* per asset: its now, taken when Bedrock had answered
  risks,      \* per asset: the stream r17-risk-events
  calls,      \* per asset: the Bedrock calls, with their times
  diagnoses,  \* per asset: the stream r17-diagnosis
  dlq         \* the <<asset, risk event>> pairs in the dead-letter queue

signal == <<sLane, sPc, sState, sRisk>>
diagnosis == <<dLane, dPc, dState, dStamp, calls, diagnoses, dlq>>
vars == <<clock, row, replica, signal, diagnosis, risks>>

\* An item: readings is None in an item that only has last_diagnosis_at.
Item == [readings : Seq(Nat) \cup {None}, diagnosedAt : Nat \cup {None}]

ASSUME ItemAssumption == None \notin Seq(Nat) /\ None \notin Item

Store(a, item) ==
  /\ row' = [row EXCEPT ![a] = item]
  /\ replica' = IF ReadLag THEN replica ELSE [replica EXCEPT ![a] = item]

Visible(a) == {row[a], replica[a]}

-----------------------------------------------------------------------------
(* The Signal Agent.                                                       *)

SFetch(a) ==
  /\ ~Busy(sLane[a])
  /\ \E n \in 1..MaxBatch :
       /\ sLane[a].from + n <= MaxReadings
       /\ sLane' = [sLane EXCEPT ![a] = Fetch(@, @.from + n)]
  /\ sPc' = [sPc EXCEPT ![a] = "load"]
  /\ UNCHANGED <<clock, row, replica, sState, sRisk, diagnosis, risks>>

\* repository.get returns; up to repository.put the code is synchronous.  An
\* item without baselines makes it throw a TypeError.
SLoad(a) ==
  /\ sPc[a] = "load" /\ ~Processed(sLane[a])
  /\ \E item \in Visible(a) :
       \/ /\ item # None /\ item.readings = None
          /\ sPc' = [sPc EXCEPT ![a] = "thrown"]
          /\ UNCHANGED <<sState, sRisk>>
       \/ /\ item # None => item.readings # None
          /\ sState' = [sState EXCEPT ![a] =
               IF item = None
                 THEN [readings |-> <<sLane[a].at>>, diagnosedAt |-> None]
                 ELSE [item EXCEPT !.readings = Append(@, sLane[a].at)]]
          /\ \E r \in RiskStates : sRisk' = [sRisk EXCEPT ![a] = r]
          /\ sPc' = [sPc EXCEPT ![a] = "put"]
  /\ UNCHANGED <<clock, row, replica, sLane, diagnosis, risks>>

\* Mutant: a failed Put is swallowed.
SPutSwallowed(a) ==
  /\ sPc[a] = "put"
  /\ sPc' = [sPc EXCEPT ![a] = "emit"]
  /\ UNCHANGED <<clock, row, replica, sLane, sState, sRisk, diagnosis, risks>>

\* Mutant: after a failed Put, which may have been applied, the record is processed
\* again within the invocation.
SPutRepeats(a) ==
  /\ sPc[a] = "put"
  /\ Store(a, sState[a])
  /\ \E place \in {"load", "emit"} : sPc' = [sPc EXCEPT ![a] = place]
  /\ UNCHANGED <<clock, sLane, sState, sRisk, diagnosis, risks>>

SPut(a) ==
  /\ sPc[a] = "put"
  /\ Store(a, sState[a])
  /\ sPc' = [sPc EXCEPT ![a] = "emit"]
  /\ UNCHANGED <<clock, sLane, sState, sRisk, diagnosis, risks>>

\* putRecords never throws: the risk event is on the stream, or it is lost.
SEmit(a) ==
  /\ sPc[a] = "emit"
  /\ \/ risks' = [risks EXCEPT ![a] =
          Append(@, [reading |-> sLane[a].at, state |-> sRisk[a]])]
     \/ UNCHANGED risks
  /\ sLane' = [sLane EXCEPT ![a] = Advance(@)]
  /\ sPc' = [sPc EXCEPT ![a] = "load"]
  /\ sState' = [sState EXCEPT ![a] = None]
  /\ sRisk' = [sRisk EXCEPT ![a] = None]
  /\ UNCHANGED <<clock, row, replica, diagnosis>>

SCommit(a) ==
  /\ Processed(sLane[a])
  /\ sLane' = [sLane EXCEPT ![a] = Checkpointed(@)]
  /\ sPc' = [sPc EXCEPT ![a] = "idle"]
  /\ UNCHANGED <<clock, row, replica, sState, sRisk, diagnosis, risks>>

SFail(a) ==
  /\ Busy(sLane[a])
  /\ sPc[a] = "thrown" \/ "invocation" \in Faults
  /\ \E l \in AfterFailure(sLane[a], MaxRetries) :
       /\ sLane' = [sLane EXCEPT ![a] = l]
       /\ sPc' = [sPc EXCEPT ![a] = IF Busy(l) THEN "load" ELSE "idle"]
  /\ sState' = [sState EXCEPT ![a] = None]
  /\ sRisk' = [sRisk EXCEPT ![a] = None]
  /\ UNCHANGED <<clock, row, replica, diagnosis, risks>>

-----------------------------------------------------------------------------
(* The Diagnosis Agent.                                                    *)

DFetch(a) ==
  /\ ~Busy(dLane[a])
  /\ \E n \in 1..MaxBatch :
       /\ dLane[a].from + n <= Len(risks[a])
       /\ dLane' = [dLane EXCEPT ![a] = Fetch(@, @.from + n)]
  /\ dPc' = [dPc EXCEPT ![a] = "load"]
  /\ UNCHANGED <<clock, row, replica, signal, risks, dState, dStamp, calls, diagnoses, dlq>>

\* The locals of processEvent when it leaves a record.
DLeave(a) ==
  /\ dLane' = [dLane EXCEPT ![a] = Advance(@)]
  /\ dPc' = [dPc EXCEPT ![a] = "load"]
  /\ dState' = [dState EXCEPT ![a] = None]
  /\ dStamp' = [dStamp EXCEPT ![a] = None]

DSkipNominal(a) ==
  /\ dPc[a] = "load" /\ ~Processed(dLane[a])
  /\ risks[a][dLane[a].at].state = "nominal"
  /\ DLeave(a)
  /\ UNCHANGED <<clock, row, replica, signal, risks, calls, diagnoses, dlq>>

DLoad(a) ==
  /\ dPc[a] = "load" /\ ~Processed(dLane[a])
  /\ risks[a][dLane[a].at].state # "nominal"
  /\ \E item \in Visible(a) : dState' = [dState EXCEPT ![a] = item]
  /\ dPc' = [dPc EXCEPT ![a] = "check"]
  /\ UNCHANGED <<clock, row, replica, signal, risks, dLane, dStamp, calls, diagnoses, dlq>>

Debounced(item, now) ==
  item # None /\ item.diagnosedAt # None /\ now - item.diagnosedAt < Debounce

DSkipDebounced(a) ==
  /\ dPc[a] = "check"
  /\ Debounced(dState[a], clock)
  /\ DLeave(a)
  /\ UNCHANGED <<clock, row, replica, signal, risks, calls, diagnoses, dlq>>

DCallBedrock(a) ==
  /\ dPc[a] = "check"
  /\ ~Debounced(dState[a], clock)
  /\ calls' = [calls EXCEPT ![a] = Append(@, [risk |-> dLane[a].at, time |-> clock])]
  /\ dPc' = [dPc EXCEPT ![a] = "bedrock"]
  /\ UNCHANGED <<clock, row, replica, signal, risks, dLane, dState, dStamp, diagnoses, dlq>>

\* Bedrock answers and the answer parses.
DAnswer(a) ==
  /\ dPc[a] = "bedrock"
  /\ dStamp' = [dStamp EXCEPT ![a] = clock]
  /\ dPc' = [dPc EXCEPT ![a] = "stamp"]
  /\ UNCHANGED <<clock, row, replica, signal, risks, dLane, dState, calls, diagnoses, dlq>>

\* invokeModel throws or the answer does not parse: to the dead-letter queue,
\* where the send may fail and be swallowed; the timestamp is not touched.
DNoAnswer(a) ==
  /\ "bedrock" \in Faults
  /\ dPc[a] = "bedrock"
  /\ dlq' \in {dlq, dlq \cup {<<a, dLane[a].at>>}}
  /\ DLeave(a)
  /\ UNCHANGED <<clock, row, replica, signal, risks, calls, diagnoses>>

\* updateDiagnosisTimestamp: an UpdateItem creates the item if there is none.
DUpdateTimestamp(a) ==
  /\ dPc[a] = "stamp"
  /\ Store(a, IF row[a] = None THEN [readings |-> None, diagnosedAt |-> dStamp[a]]
              ELSE [row[a] EXCEPT !.diagnosedAt = dStamp[a]])
  /\ dPc' = [dPc EXCEPT ![a] = "emit"]
  /\ UNCHANGED <<clock, signal, risks, dLane, dState, dStamp, calls, diagnoses, dlq>>

DEmit(a) ==
  /\ dPc[a] = "emit"
  /\ \/ diagnoses' = [diagnoses EXCEPT ![a] =
          Append(@, [risk |-> dLane[a].at, time |-> dStamp[a]])]
     \/ UNCHANGED diagnoses
  /\ DLeave(a)
  /\ UNCHANGED <<clock, row, replica, signal, risks, calls, dlq>>

DCommit(a) ==
  /\ Processed(dLane[a])
  /\ dLane' = [dLane EXCEPT ![a] = Checkpointed(@)]
  /\ dPc' = [dPc EXCEPT ![a] = "idle"]
  /\ UNCHANGED <<clock, row, replica, signal, risks, dState, dStamp, calls, diagnoses, dlq>>

DFail(a) ==
  /\ "invocation" \in Faults
  /\ Busy(dLane[a])
  /\ \E l \in AfterFailure(dLane[a], MaxRetries) :
       /\ dLane' = [dLane EXCEPT ![a] = l]
       /\ dPc' = [dPc EXCEPT ![a] = IF Busy(l) THEN "load" ELSE "idle"]
  /\ dState' = [dState EXCEPT ![a] = None]
  /\ dStamp' = [dStamp EXCEPT ![a] = None]
  /\ UNCHANGED <<clock, row, replica, signal, risks, calls, diagnoses, dlq>>

-----------------------------------------------------------------------------
(* The dashboard, DynamoDB and time.                                       *)

\* DeleteItem: baselines/reset, and the first step of run-scenario.
ResetBaseline(a) ==
  /\ "reset" \in Requests
  /\ row[a] # None
  /\ Store(a, None)
  /\ UNCHANGED <<clock, signal, diagnosis, risks>>

Replicate(a) ==
  /\ replica[a] # row[a]
  /\ replica' = [replica EXCEPT ![a] = row[a]]
  /\ UNCHANGED <<clock, row, signal, diagnosis, risks>>

Tick ==
  /\ clock < MaxClock
  /\ clock' = clock + 1
  /\ UNCHANGED <<row, replica, signal, diagnosis, risks>>

-----------------------------------------------------------------------------
Init ==
  /\ clock = 0
  /\ row = [a \in Assets |-> None]
  /\ replica = [a \in Assets |-> None]
  /\ sLane = [a \in Assets |-> NewLane] /\ dLane = [a \in Assets |-> NewLane]
  /\ sPc = [a \in Assets |-> "idle"] /\ dPc = [a \in Assets |-> "idle"]
  /\ sState = [a \in Assets |-> None] /\ dState = [a \in Assets |-> None]
  /\ sRisk = [a \in Assets |-> None] /\ dStamp = [a \in Assets |-> None]
  /\ risks = [a \in Assets |->
                [k \in DOMAIN Backlog |-> [reading |-> 0, state |-> Backlog[k]]]]
  /\ calls = [a \in Assets |-> <<>>]
  /\ diagnoses = [a \in Assets |-> <<>>]
  /\ dlq = {}

SWork(a) == SLoad(a) \/ SPut(a) \/ SEmit(a) \/ SCommit(a)

DWork(a) ==
  \/ DSkipNominal(a) \/ DLoad(a) \/ DSkipDebounced(a) \/ DCallBedrock(a) \/ DAnswer(a)
  \/ DNoAnswer(a) \/ DUpdateTimestamp(a) \/ DEmit(a) \/ DCommit(a)

Next ==
  \/ \E a \in Assets : \/ SFetch(a) \/ SWork(a) \/ SFail(a)
                       \/ DFetch(a) \/ DWork(a) \/ DFail(a)
                       \/ ResetBaseline(a) \/ Replicate(a)
  \/ Tick

Spec == Init /\ [][Next]_vars

\* An invocation runs to its end, and one that threw is reported as failed.
FairSpec ==
  /\ Spec
  /\ \A a \in Assets : /\ WF_vars(SWork(a))
                       /\ WF_vars(sPc[a] = "thrown" /\ SFail(a))
                       /\ WF_vars(DWork(a))

-----------------------------------------------------------------------------
(* Properties.                                                             *)

\* Type invariant.
TypeOK ==
  /\ clock \in Nat
  /\ row \in [Assets -> Item \cup {None}] /\ replica \in [Assets -> Item \cup {None}]
  /\ sLane \in [Assets -> LaneType] /\ dLane \in [Assets -> LaneType]
  /\ sPc \in [Assets -> {"idle", "load", "thrown", "put", "emit"}]
  /\ dPc \in [Assets -> {"idle", "load", "check", "bedrock", "stamp", "emit"}]
  /\ sState \in [Assets -> Item \cup {None}] /\ dState \in [Assets -> Item \cup {None}]
  /\ sRisk \in [Assets -> RiskStates \cup {None}]
  /\ dStamp \in [Assets -> Nat \cup {None}]
  /\ risks \in [Assets -> Seq([reading : Nat, state : RiskStates])]
  /\ calls \in [Assets -> Seq([risk : Nat, time : Nat])]
  /\ diagnoses \in [Assets -> Seq([risk : Nat, time : Nat])]
  /\ dlq \subseteq Assets \X Nat

\* A sequence in which every number that appears for the first time is larger
\* than all before it: in order, up to repetitions.
InOrderUpToReplay(s) ==
  \A k \in DOMAIN s : (\A j \in 1..(k - 1) : s[j] < s[k]) \/ \E j \in 1..(k - 1) : s[j] = s[k]

\* The baselines are folded in stream order; a redelivered batch can only fold
\* again what it already folded.
BaselineInOrder ==
  \A a \in Assets : row[a] # None /\ row[a].readings # None
    => InOrderUpToReplay(row[a].readings)

\* No risk event is published for a reading that the stored baselines have
\* not seen, although the item is overwritten as a whole by two writers.
RiskBackedByBaseline ==
  \A a \in Assets : \A k \in DOMAIN risks[a] :
    k > Len(Backlog) =>
      /\ row[a] # None /\ row[a].readings # None
      /\ \E j \in DOMAIN row[a].readings : row[a].readings[j] = risks[a][k].reading

\* The places at which an item has a reading in its baselines.
Places(item, r) ==
  IF item = None \/ item.readings = None THEN {}
  ELSE {j \in DOMAIN item.readings : item.readings[j] = r}

\* A reading counts in the baselines at most once per delivery of its batch: what
\* reading_count and the means exaggerate is bounded by the retries, although the
\* item a reading is folded into may be stale.
FoldsBounded ==
  \A a \in Assets : \A r \in 1..MaxReadings : Cardinality(Places(row[a], r)) <= MaxRetries + 1

\* A risk event costs at most one Bedrock call per delivery of its batch.
BedrockCallsBounded ==
  \A a \in Assets : \A k \in DOMAIN risks[a] :
    Cardinality({c \in DOMAIN calls[a] : calls[a][c].risk = k}) <= MaxRetries + 1

\* "1 Bedrock call per asset per debounce window" (diagnosis-agent.md).  This fails
\* with MaxReadings = 2 and MaxClock > 0: the Signal Agent's Put of the whole item
\* restores the last_diagnosis_at it read; and with the fault "bedrock" alone.
DebounceRespected ==
  \A a \in Assets : \A j, k \in DOMAIN calls[a] :
    j < k => calls[a][k].time - calls[a][j].time >= Debounce

\* Every stored item is an AssetState: it has baselines.  This fails with
\* Requests = {"reset"}: updateDiagnosisTimestamp creates an item without them.
ItemsComplete == \A a \in Assets : row[a] # None => row[a].readings # None

\* Every batch of readings and every batch of risk events leaves its lane,
\* even behind an item on which the Signal Agent always throws.
LanesDrain ==
  \A a \in Assets : /\ Busy(sLane[a]) ~> ~Busy(sLane[a])
                    /\ Busy(dLane[a]) ~> ~Busy(dLane[a])

\* How many steps a consumer may still take with its batch: k for each record, of
\* which it took some in the present one, one to report success, and as many again
\* for every retry.
StepsOf(l, k, taken) ==
  IF ~Busy(l) THEN 0
  ELSE (MaxRetries - l.tries) * (k * (l.to - l.from) + 1) + (k * (l.to + 1 - l.at) - taken) + 1

\* The steps of a record that are behind a place in processEvent.
STaken(place) ==
  CASE place = "load" -> 0 [] place \in {"thrown", "put"} -> 1 [] place = "emit" -> 2
DTaken(place) ==
  CASE place = "load" -> 0 [] place = "check" -> 1 [] place = "bedrock" -> 2
    [] place = "stamp" -> 3 [] place = "emit" -> 4

SLeft(a) == StepsOf(sLane[a], 3, STaken(sPc[a]))
DLeft(a) == StepsOf(dLane[a], 5, DTaken(dPc[a]))

\* The reason for LanesDrain, which needs no fairness: whatever a step of an agent
\* meets, an item without baselines, no answer or its own end, it brings the lane
\* closer to the end of its batch, and neither the other agent nor a reset, a
\* stale replica or the time takes it back.
LanesShrink ==
  [][\A a \in Assets :
       /\ IF SWork(a) \/ SFail(a) THEN SLeft(a)' \in Nat /\ SLeft(a)' < SLeft(a)
          ELSE Busy(sLane[a]) => UNCHANGED SLeft(a)
       /\ IF DWork(a) \/ DFail(a) THEN DLeft(a)' \in Nat /\ DLeft(a)' < DLeft(a)
          ELSE Busy(dLane[a]) => UNCHANGED DLeft(a)]_vars
=============================================================================
