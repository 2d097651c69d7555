--------------------------- MODULE IncidentsProofs ---------------------------
(***************************************************************************)
(* Proofs about Incidents, for any assets, ids, thresholds and bounds: the *)
(* type invariant, that an asset has at most one active incident if the    *)
(* index does not lag, that the time stamps agree with the status, what    *)
(* becomes of an incident once it is recorded, and how much a diagnosis    *)
(* can cause at most when the index does lag.                              *)
(***************************************************************************)
EXTENDS Incidents, FiniteSetTheorems, TLAPS

(***************************************************************************)
(* The rules and the record builder.                                       *)
(***************************************************************************)

\* The rule table always names an action.
LEMMA RuleActionType ==
  ASSUME NEW severity \in Severities, NEW existing \in Incident \cup {None}, NEW now \in Nat
  PROVE  RuleAction(severity, existing, now) \in ActionTypes
BY DEF RuleAction, Severities, ActionTypes

\* A fresh id is an id, and one that was never issued.
LEMMA FreshIdIsNew == FreshId \subseteq Ids \ issued
<1>1. ASSUME ~(Ids \subseteq issued) PROVE (CHOOSE i \in Ids : i \notin issued) \in Ids \ issued
  <2>1. \E i \in Ids : i \notin issued
    BY <1>1
  <2> QED BY <2>1
<1> QED BY <1>1 DEF FreshId

\* A create operation builds a complete record.
LEMMA NewIncidentType ==
  ASSUME NEW id \in Ids, NEW asset \in Assets, NEW severity \in Severities,
         NEW action \in ActionTypes, NEW now \in Nat, NEW dx \in Nat
  PROVE  NewIncident(id, asset, severity, action, now, dx) \in Incident
<1>1. <<[action |-> action, dx |-> dx]>> \in Seq(HistoryEntry)
  BY DEF HistoryEntry
<1> QED BY <1>1 DEF NewIncident, Incident, Statuses, ActiveStatuses

\* An update operation rebuilds a complete record and keeps its identity.
LEMMA UpdatedIncidentType ==
  ASSUME NEW existing \in Incident, NEW severity \in Severities,
         NEW action \in ActionTypes, NEW now \in Nat, NEW dx \in Nat
  PROVE  LET r == UpdatedIncident(existing, severity, action, now, dx)
         IN  r \in Incident /\ r.id = existing.id /\ r.asset = existing.asset
<1>1. UpgradeSeverity(existing.severity, severity) \in Severities
  BY DEF UpgradeSeverity, Incident
<1>2. NextStatus(action, existing.status) \in Statuses
  BY DEF NextStatus, Incident, Statuses, ActiveStatuses
<1>3. Append(existing.history, [action |-> action, dx |-> dx]) \in Seq(HistoryEntry)
  BY DEF HistoryEntry, Incident
<1>4. TtlEpoch(now) \in Nat
  BY RulesAssumption DEF RulesAssumption, TtlEpoch
<1> QED BY <1>1, <1>2, <1>3, <1>4 DEF UpdatedIncident, Incident

\* What findActiveIncident picks is one of the rows found, or null if none was.
LEMMA MostRecentSound ==
  ASSUME NEW rows, NEW r \in MostRecent(rows)
  PROVE  IF rows = {} THEN r = None ELSE r \in rows
BY DEF MostRecent

(***************************************************************************)
(* Type correctness: one lemma per group of actions.                       *)
(***************************************************************************)
TypeInv == TypeOK /\ LocalsOK

\* Entering a record keeps the types of the lane and leaves nothing planned.
LEMMA EnterRecordType ==
  ASSUME TypeInv, NEW a \in Assets, NEW p \in Nat \ {0}, EnterRecord(a, p)
  PROVE  /\ pos' \in [Assets -> Nat]
         /\ pc' \in [Assets -> {"idle", "find", "save", "emit", "done"}]
         /\ asked' \in [Assets -> SUBSET ActiveStatuses]
         /\ found' \in [Assets -> SUBSET Incident]
         /\ plan' \in [Assets -> Plan \cup {None}]
         /\ \A b \in Assets :
              /\ pc'[b] \in {"find", "save", "emit"} => pos'[b] \in 1..Len(batch[b])
              /\ pc'[b] \in {"save", "emit"} => plan'[b] \in Plan
              /\ pc'[b] = "save" => plan'[b].subject \in Incident
BY DEF TypeInv, TypeOK, LocalsOK, EnterRecord, FreshLocals

\* So does giving a batch back to the mapping.
LEMMA CheckpointKeepsType ==
  ASSUME TypeInv, NEW a \in Assets, Checkpoint(a),
         UNCHANGED <<clock, table, index, issued, streams, operators>>
  PROVE  TypeInv'
<1>1. Len(batch[a]) \in Nat BY DEF TypeInv, TypeOK
<1>2. TypeOK'
  BY <1>1 DEF TypeInv, TypeOK, Checkpoint, FreshLocals, streams, operators
<1>3. LocalsOK'
  <2> SUFFICES ASSUME NEW b \in Assets
               PROVE  /\ pc'[b] \in {"find", "save", "emit"} => pos'[b] \in 1..Len(batch'[b])
                      /\ pc'[b] \in {"save", "emit"} => plan'[b] \in Plan
                      /\ pc'[b] = "save" => plan'[b].subject \in Incident
                      /\ ack'[b] = "update" => target'[b] \in Ids
    BY DEF LocalsOK
  <2>1. CASE b = a
    BY <2>1 DEF TypeInv, TypeOK, LocalsOK, Checkpoint, FreshLocals, streams, operators
  <2>2. CASE b # a
    BY <2>2 DEF TypeInv, TypeOK, LocalsOK, Checkpoint, FreshLocals, streams, operators
  <2> QED BY <2>1, <2>2
<1> QED BY <1>2, <1>3 DEF TypeInv

\* What a lane in the middle of a record knows.
LEMMA LaneFacts ==
  ASSUME TypeInv, NEW a \in Assets, pc[a] \in {"find", "save", "emit"}
  PROVE  Dx(a) \in Nat /\ Severity(a) \in Severities /\ pos[a] + 1 \in Nat \ {0}
BY DEF TypeInv, TypeOK, LocalsOK, Dx, Severity

\* The dead-letter queue keeps its type.
LEMMA DLQType ==
  ASSUME TypeInv, NEW a \in Assets, pc[a] \in {"find", "save", "emit"}, SendToDLQ(a)
  PROVE  dlq' \subseteq Assets \X Nat
BY LaneFacts DEF TypeInv, TypeOK, SendToDLQ

\* Deliveries, commits and failed invocations keep the types.
LEMMA MappingType ==
  ASSUME TypeInv, NEW a \in Assets, Deliver(a) \/ Commit(a) \/ FailInvocation(a)
  PROVE  TypeInv'
<1>1. CASE Deliver(a)
  <2>1. PICK n \in 1..MaxBatch : \E b \in [1..n -> Severities] : batch' = [batch EXCEPT ![a] = b]
    BY <1>1 DEF Deliver
  <2>2. PICK b \in [1..n -> Severities] : batch' = [batch EXCEPT ![a] = b]
    BY <2>1
  <2>3. n \in Nat /\ n >= 1
    BY IncidentsAssumption DEF IncidentsAssumption
  <2>4. b \in Seq(Severities) /\ Len(b) = n
    BY <2>3
  <2>5. TypeOK'
    BY <1>1, <2>2, <2>4 DEF Deliver, TypeInv, TypeOK, lane, streams, operators
  <2>6. LocalsOK'
    BY <1>1, <2>2, <2>3, <2>4 DEF Deliver, TypeInv, TypeOK, LocalsOK, lane, streams, operators
  <2> QED BY <2>5, <2>6 DEF TypeInv
<1>2. CASE Commit(a)
  <2>1. Checkpoint(a) /\ UNCHANGED <<clock, table, index, issued, streams, operators>>
    BY <1>2 DEF Commit
  <2> QED BY <2>1, CheckpointKeepsType
<1>3. CASE FailInvocation(a)
  <2>1. CASE tries[a] < MaxRetries /\ EnterRecord(a, 1) /\ CountFailure(a)
    <3>1. tries' \in [Assets -> Nat] /\ UNCHANGED <<clock, table, index, issued, streams, operators>>
      BY <1>3, <2>1 DEF FailInvocation, CountFailure, TypeInv, TypeOK
    <3>2. UNCHANGED <<seen, batch>>
      BY <2>1 DEF EnterRecord
    <3>3. TypeOK'
      <4>1. /\ pos' \in [Assets -> Nat]
            /\ pc' \in [Assets -> {"idle", "find", "save", "emit", "done"}]
            /\ asked' \in [Assets -> SUBSET ActiveStatuses]
            /\ found' \in [Assets -> SUBSET Incident]
            /\ plan' \in [Assets -> Plan \cup {None}]
        BY <2>1, EnterRecordType
      <4> QED BY <3>1, <3>2, <4>1 DEF TypeInv, TypeOK, streams, operators
    <3>4. LocalsOK'
      BY <2>1, <3>1, <3>2, EnterRecordType DEF TypeInv, LocalsOK, operators
    <3> QED BY <3>3, <3>4 DEF TypeInv
  <2>2. CASE pos[a] < Len(batch[a]) /\ EnterRecord(a, pos[a] + 1) /\ UNCHANGED tries
    <3>1. pos[a] + 1 \in Nat \ {0}
      BY DEF TypeInv, TypeOK
    <3> QED BY <1>3, <2>2, <3>1, EnterRecordType
        DEF FailInvocation, EnterRecord, FreshLocals, TypeInv, TypeOK, LocalsOK, streams, operators
  <2>3. CASE Checkpoint(a)
    <3>1. UNCHANGED <<clock, table, index, issued, streams, operators>>
      BY <1>3 DEF FailInvocation
    <3> QED BY <2>3, <3>1, CheckpointKeepsType
  <2> QED BY <1>3, <2>1, <2>2, <2>3 DEF FailInvocation
<1> QED BY <1>1, <1>2, <1>3

\* A record that is left early goes on with a well-typed lane.
LEMMA LeaveRecordType ==
  ASSUME TypeInv, NEW a \in Assets, pc[a] \in {"find", "save", "emit"}, NextRecord(a),
         table' \in [Ids -> Row \cup {None}], index' \in [Ids -> Row \cup {None}],
         dlq' \subseteq Assets \X Nat, emitted' \subseteq Emission,
         UNCHANGED <<clock, issued, operators>>
  PROVE  TypeInv'
BY LaneFacts, EnterRecordType
DEF NextRecord, EnterRecord, FreshLocals, TypeInv, TypeOK, LocalsOK, operators

\* A query adds incidents of the asset: an index entry with an asset is one.
LEMMA QueryByStatusType ==
  ASSUME TypeInv, NEW a \in Assets, NEW status \in ActiveStatuses, QueryByStatus(a, status)
  PROVE  TypeInv'
<1> DEFINE rows == {index[i] : i \in {j \in Ids : /\ index[j] # None
                                                  /\ index[j].asset = a
                                                  /\ index[j].status = status}}
<1>1. rows \subseteq Incident
  <2>1. ASSUME NEW i \in Ids, index[i] # None, index[i].asset = a PROVE index[i] \in Incident
    BY <2>1, RulesAssumption DEF RulesAssumption, TypeInv, TypeOK, Row, Ghost
  <2> QED BY <2>1
<1>2. found' = [found EXCEPT ![a] = @ \cup rows]
  BY DEF QueryByStatus
<1> HIDE DEF rows
<1> QED BY <1>1, <1>2 DEF QueryByStatus, TypeInv, TypeOK, LocalsOK, streams, operators

\* The rules and the builder give a plan, with a record to write if one is due.
LEMMA EvaluateType ==
  ASSUME TypeInv, NEW a \in Assets, Evaluate(a)
  PROVE  TypeInv'
<1> DEFINE sev == Severity(a)
           Decide(existing, subject) ==
             plan' = [plan EXCEPT ![a] = [action |-> RuleAction(sev, existing, clock),
                                          subject |-> subject]]
<1>1. pc[a] = "find" /\ sev \in Severities /\ Dx(a) \in Nat /\ clock \in Nat
  BY LaneFacts DEF Evaluate, TypeInv, TypeOK
<1>2. PICK existing \in MostRecent(found[a]) :
        /\ \/ /\ RuleOperation(sev, existing) = "create"
              /\ \E i \in FreshId :
                   /\ issued' = issued \cup {i}
                   /\ Decide(existing, NewIncident(i, a, sev, RuleAction(sev, existing, clock), clock, Dx(a)))
           \/ /\ RuleOperation(sev, existing) = "update"
              /\ Decide(existing, UpdatedIncident(existing, sev, RuleAction(sev, existing, clock), clock, Dx(a)))
              /\ UNCHANGED issued
           \/ /\ RuleOperation(sev, existing) = "none"
              /\ Decide(existing, existing)
              /\ UNCHANGED issued
        /\ pc' = [pc EXCEPT ![a] = IF RuleOperation(sev, existing) = "none" THEN "emit" ELSE "save"]
  BY DEF Evaluate, NextCall
<1>3. existing \in Incident \cup {None}
  BY <1>2, MostRecentSound DEF TypeInv, TypeOK
<1>4. RuleAction(sev, existing, clock) \in ActionTypes
  BY <1>1, <1>3, RuleActionType
<1> HIDE DEF sev
<1>5. PICK subject \in Incident \cup {None} :
        /\ Decide(existing, subject)
        /\ issued' \subseteq Ids
        /\ pc' \in {[pc EXCEPT ![a] = "emit"], [pc EXCEPT ![a] = "save"]}
        /\ pc'[a] = "save" => subject \in Incident
  <2>1. issued \subseteq Ids /\ pc \in [Assets -> {"idle", "find", "save", "emit", "done"}]
    BY DEF TypeInv, TypeOK
  <2>2. CASE RuleOperation(sev, existing) = "create"
    <3>1. PICK i \in FreshId :
            /\ issued' = issued \cup {i}
            /\ Decide(existing, NewIncident(i, a, sev, RuleAction(sev, existing, clock), clock, Dx(a)))
      BY <1>2, <2>2
    <3>2. i \in Ids
      BY <3>1, FreshIdIsNew
    <3> QED BY <1>1, <1>2, <1>4, <2>1, <2>2, <3>1, <3>2, NewIncidentType
  <2>3. CASE RuleOperation(sev, existing) = "update"
    <3>1. existing \in Incident
      BY <1>1, <1>3, <2>3 DEF RuleOperation, Severities
    <3> QED BY <1>1, <1>2, <1>4, <2>1, <2>3, <3>1, UpdatedIncidentType
  <2>4. CASE RuleOperation(sev, existing) = "none"
    BY <1>2, <1>3, <2>1, <2>4
  <2> QED BY <1>2, <2>2, <2>3, <2>4
<1>6. [action |-> RuleAction(sev, existing, clock), subject |-> subject] \in Plan
  BY <1>4, <1>5 DEF Plan
<1> QED BY <1>1, <1>5, <1>6 DEF Evaluate, TypeInv, TypeOK, LocalsOK, streams, operators

\* What a lane writes is a row, wherever it is stored.
LEMMA StoreType ==
  ASSUME TypeInv, NEW t \in [Ids -> Row \cup {None}], Store(t)
  PROVE  table' \in [Ids -> Row \cup {None}] /\ index' \in [Ids -> Row \cup {None}]
BY DEF Store, TypeInv, TypeOK

\* So is the planned record.
LEMMA PlannedTableType ==
  ASSUME TypeInv, NEW a \in Assets, pc[a] = "save"
  PROVE  [table EXCEPT ![plan[a].subject.id] = plan[a].subject] \in [Ids -> Row \cup {None}]
BY DEF TypeInv, TypeOK, LocalsOK, Row

\* The rest of processEvent: the Put, the event, and the two error paths.
LEMMA WriteType ==
  ASSUME TypeInv, NEW a \in Assets, Save(a) \/ SaveFails(a) \/ QueryFails(a) \/ Emit(a)
  PROVE  TypeInv'
<1>1. CASE Save(a)
  <2>1. table' \in [Ids -> Row \cup {None}] /\ index' \in [Ids -> Row \cup {None}]
    BY <1>1, StoreType, PlannedTableType DEF Save
  <2> QED BY <1>1, <2>1 DEF Save, TypeInv, TypeOK, LocalsOK, streams, operators
<1>2. CASE SaveFails(a)
  <2>1. table' \in [Ids -> Row \cup {None}] /\ index' \in [Ids -> Row \cup {None}]
    <3>1. CASE UNCHANGED <<table, index>>
      BY <3>1 DEF TypeInv, TypeOK
    <3> QED BY <1>2, <3>1, StoreType, PlannedTableType DEF SaveFails
  <2>2. emitted' \subseteq Emission
    BY <1>2 DEF SaveFails, TypeInv, TypeOK
  <2> QED BY <1>2, <2>1, <2>2, DLQType, LeaveRecordType DEF SaveFails
<1>3. CASE QueryFails(a)
  <2>1. /\ table' \in [Ids -> Row \cup {None}] /\ index' \in [Ids -> Row \cup {None}]
        /\ emitted' \subseteq Emission
    BY <1>3 DEF QueryFails, TypeInv, TypeOK
  <2> QED BY <1>3, <2>1, DLQType, LeaveRecordType DEF QueryFails
<1>4. CASE Emit(a)
  <2>1. Dx(a) \in Nat /\ plan[a] \in Plan
    BY <1>4, LaneFacts DEF Emit, TypeInv, LocalsOK
  <2>2. ActionEvent(a) \in Emission
    BY <2>1 DEF ActionEvent, Emission, Plan, Incident
  <2>3. /\ table' \in [Ids -> Row \cup {None}] /\ index' \in [Ids -> Row \cup {None}]
        /\ emitted' \subseteq Emission /\ dlq' \subseteq Assets \X Nat
    BY <1>4, <2>2 DEF Emit, TypeInv, TypeOK
  <2> QED BY <1>4, <2>3, LeaveRecordType DEF Emit
<1> QED BY <1>1, <1>2, <1>3, <1>4

\* The operators' requests.
LEMMA OperatorType ==
  ASSUME TypeInv, NEW a \in Assets, Operator(a)
  PROVE  TypeInv'
<1>1. CASE AckQueryOpened(a)
  <2>1. /\ target' \in [Assets -> Ids \cup {None}]
        /\ ack' \in [Assets -> {"idle", "escalated", "update"}]
        /\ \A b \in Assets : ack'[b] = "update" => target'[b] \in Ids
    <3>1. CASE \E i \in Indexed(a, "opened") : target' = [target EXCEPT ![a] = i]
      <4>1. PICK i \in Ids : target' = [target EXCEPT ![a] = i]
        BY <3>1 DEF Indexed
      <4> QED BY <1>1, <4>1 DEF AckQueryOpened, TypeInv, TypeOK, LocalsOK
    <3> QED BY <1>1, <3>1 DEF AckQueryOpened, TypeInv, TypeOK, LocalsOK
  <2> QED BY <1>1, <2>1 DEF AckQueryOpened, TypeInv, TypeOK, LocalsOK, lane, streams
<1>2. CASE AckQueryEscalated(a)
  <2>1. /\ target' \in [Assets -> Ids \cup {None}]
        /\ ack' \in [Assets -> {"idle", "escalated", "update"}]
        /\ \A b \in Assets : ack'[b] = "update" => target'[b] \in Ids
    <3>1. CASE \E i \in Indexed(a, "escalated") : target' = [target EXCEPT ![a] = i]
      <4>1. PICK i \in Ids : target' = [target EXCEPT ![a] = i]
        BY <3>1 DEF Indexed
      <4> QED BY <1>2, <4>1 DEF AckQueryEscalated, TypeInv, TypeOK, LocalsOK
    <3> QED BY <1>2, <3>1 DEF AckQueryEscalated, TypeInv, TypeOK, LocalsOK
  <2> QED BY <1>2, <2>1 DEF AckQueryEscalated, TypeInv, TypeOK, LocalsOK, lane, streams
<1>3. ASSUME ack[a] = "update", AcknowledgeIncident(target[a])
      PROVE  table' \in [Ids -> Row \cup {None}] /\ index' \in [Ids -> Row \cup {None}]
  <2> DEFINE i == target[a]
             t == [table EXCEPT ![i] = IF @ = None THEN GhostRow(i, clock)
                                       ELSE [@ EXCEPT !.acknowledgedAt = clock]]
  <2>1. i \in Ids /\ clock \in Nat
    BY <1>3 DEF TypeInv, TypeOK, LocalsOK
  <2>2. t \in [Ids -> Row \cup {None}]
    <3>1. GhostRow(i, clock) \in Row
      BY <2>1 DEF GhostRow, Ghost, Row
    <3>2. ASSUME table[i] # None PROVE [table[i] EXCEPT !.acknowledgedAt = clock] \in Row
      <4>1. table[i] \in Incident \/ table[i] \in Ghost
        BY <2>1, <3>2 DEF TypeInv, TypeOK, Row
      <4>2. CASE table[i] \in Incident
        BY <2>1, <4>2 DEF Row, Incident
      <4>3. CASE table[i] \in Ghost
        BY <2>1, <4>3 DEF Row, Ghost
      <4> QED BY <4>1, <4>2, <4>3
    <3> QED BY <3>1, <3>2 DEF TypeInv, TypeOK
  <2> QED BY <1>3, <2>2, StoreType DEF AcknowledgeIncident
<1>4. CASE AckUpdate(a) \/ AckFails(a)
  <2>1. table' \in [Ids -> Row \cup {None}] /\ index' \in [Ids -> Row \cup {None}]
    BY <1>3, <1>4 DEF AckUpdate, AckFails, TypeInv, TypeOK
  <2>2. CASE AckUpdate(a)
    <3>1. target[a] \in Ids
      BY <2>2 DEF AckUpdate, TypeInv, LocalsOK
    <3> QED BY <2>1, <2>2, <3>1 DEF AckUpdate, TypeInv, TypeOK, LocalsOK, lane, streams
  <2>3. CASE AckFails(a)
    BY <2>1, <2>3 DEF AckFails, TypeInv, TypeOK, LocalsOK, lane, streams
  <2> QED BY <1>4, <2>2, <2>3
<1>5. CASE ClearScan(a)
  BY <1>5 DEF ClearScan, TypeInv, TypeOK, LocalsOK, lane, streams
<1>6. CASE ClearDelete(a)
  <2>1. PICK gone \in SUBSET clear[a] : Store([i \in Ids |-> IF i \in gone THEN None ELSE table[i]])
    BY <1>6 DEF ClearDelete
  <2>2. [i \in Ids |-> IF i \in gone THEN None ELSE table[i]] \in [Ids -> Row \cup {None}]
    BY DEF TypeInv, TypeOK
  <2>3. table' \in [Ids -> Row \cup {None}] /\ index' \in [Ids -> Row \cup {None}]
    BY <2>1, <2>2, StoreType
  <2> QED BY <1>6, <2>3 DEF ClearDelete, TypeInv, TypeOK, LocalsOK, lane, streams
<1> QED BY <1>1, <1>2, <1>4, <1>5, <1>6 DEF Operator

\* DynamoDB and the clock.
LEMMA EnvironmentType ==
  ASSUME TypeInv, (\E i \in Ids : Expire(i) \/ Propagate(i)) \/ Tick
  PROVE  TypeInv'
<1>1. ASSUME NEW i \in Ids, Expire(i) PROVE TypeInv'
  <2>1. [table EXCEPT ![i] = None] \in [Ids -> Row \cup {None}]
    BY DEF TypeInv, TypeOK
  <2>2. table' \in [Ids -> Row \cup {None}] /\ index' \in [Ids -> Row \cup {None}]
    BY <1>1, <2>1, StoreType DEF Expire
  <2> QED BY <1>1, <2>2 DEF Expire, TypeInv, TypeOK, LocalsOK, lane, streams, operators
<1>2. ASSUME NEW i \in Ids, Propagate(i) PROVE TypeInv'
  BY <1>2 DEF Propagate, TypeInv, TypeOK, LocalsOK, lane, streams, operators
<1>3. CASE Tick
  BY <1>3 DEF Tick, TypeInv, TypeOK, LocalsOK, lane, streams, operators
<1> QED BY <1>1, <1>2, <1>3

\* Every step keeps the types.
LEMMA TypeStep == TypeInv /\ [Next]_vars => TypeInv'
<1> SUFFICES ASSUME TypeInv, [Next]_vars PROVE TypeInv'
  OBVIOUS
<1>1. CASE UNCHANGED vars
  BY <1>1 DEF vars, lane, streams, operators, TypeInv, TypeOK, LocalsOK
<1>2. ASSUME NEW a \in Assets, Deliver(a) \/ Work(a) \/ Fault(a) \/ Operator(a) PROVE TypeInv'
  BY <1>2, MappingType, QueryByStatusType, EvaluateType, WriteType, OperatorType DEF Work, Fault
<1> QED BY <1>1, <1>2, EnvironmentType DEF Next

\* The variables and the locals of the handlers are well typed in every
\* reachable state: every write to the table is a complete incident record or
\* the residue of an update on a deleted one.
THEOREM TypeCorrect == Spec => [](TypeOK /\ LocalsOK)
<1>1. Init => TypeInv
  BY DEF Init, TypeInv, TypeOK, LocalsOK
<1> QED BY <1>1, TypeStep, PTL DEF Spec, TypeInv

(***************************************************************************)
(* One active incident per asset, if the index does not lag.               *)
(***************************************************************************)
UniqueInv == TypeInv /\ OneActiveInv

\* No active incident of the asset appears, and those that stay keep their status.
NoNewActive(a) ==
  \A i \in ActiveIds(a)' : i \in ActiveIds(a) /\ table'[i].status = table[i].status

\* The locals of an asset's lane that the invariant reads.
SameLocals(a) ==
  pc'[a] = pc[a] /\ asked'[a] = asked[a] /\ found'[a] = found[a] /\ plan'[a] = plan[a]

\* A lane that does not move keeps its part of the invariant while active
\* incidents only disappear.
LEMMA Frame ==
  ASSUME OneActiveInv, NEW a \in Assets, NoNewActive(a), SameLocals(a)
  PROVE  /\ \A i, j \in ActiveIds(a)' : i = j
         /\ pc'[a] \in {"idle", "find"} => FoundIsActive(a)'
         /\ pc'[a] = "save" => PlanIsActive(a)'
<1>1. \A i, j \in ActiveIds(a)' : i = j
  BY DEF OneActiveInv, OneActiveIncident, NoNewActive
<1>2. ASSUME pc'[a] \in {"idle", "find"} PROVE FoundIsActive(a)'
  <2>1. FoundIsActive(a)
    BY <1>2 DEF OneActiveInv, SameLocals
  <2> QED BY <2>1 DEF FoundIsActive, NoNewActive, SameLocals
<1>3. ASSUME pc'[a] = "save" PROVE PlanIsActive(a)'
  <2>1. PlanIsActive(a)
    BY <1>3 DEF OneActiveInv, SameLocals
  <2> QED BY <2>1 DEF PlanIsActive, NoNewActive, SameLocals
<1> QED BY <1>1, <1>2, <1>3

\* A step of one lane keeps the invariant if it does so for its own asset.
LEMMA LaneStep ==
  ASSUME OneActiveInv, NEW a \in Assets, index' = table', KeyedById',
         \A b \in Assets \ {a} : NoNewActive(b) /\ SameLocals(b),
         \A i, j \in ActiveIds(a)' : i = j,
         pc'[a] \in {"idle", "find"} => FoundIsActive(a)',
         pc'[a] = "save" => PlanIsActive(a)'
  PROVE  OneActiveInv'
<1>1. ASSUME NEW b \in Assets
      PROVE  /\ \A i, j \in ActiveIds(b)' : i = j
             /\ pc'[b] \in {"idle", "find"} => FoundIsActive(b)'
             /\ pc'[b] = "save" => PlanIsActive(b)'
  <2>1. CASE b = a
    BY <2>1
  <2>2. CASE b # a
    BY <2>2, Frame
  <2> QED BY <2>1, <2>2
<1> QED BY <1>1 DEF OneActiveInv, OneActiveIncident

\* If no lane moves, losing active incidents keeps the invariant.
LEMMA TableStep ==
  ASSUME OneActiveInv, index' = table', KeyedById', UNCHANGED lane,
         \A i \in Ids : Active(table'[i]) =>
           /\ Active(table[i])
           /\ table'[i].asset = table[i].asset
           /\ table'[i].status = table[i].status
  PROVE  OneActiveInv'
<1>1. ASSUME NEW a \in Assets PROVE NoNewActive(a) /\ SameLocals(a)
  BY DEF NoNewActive, SameLocals, ActiveIds, lane
<1> QED BY <1>1, Frame DEF OneActiveInv, OneActiveIncident

\* With no rows found and no query answered, a lane starts a record afresh.
LEMMA Afresh ==
  ASSUME NEW a \in Assets, found'[a] = {}, asked'[a] = {}
  PROVE  FoundIsActive(a)'
BY DEF FoundIsActive

\* An unchanged table has no new active incidents.
LEMMA SameTable ==
  ASSUME UNCHANGED table, NEW a \in Assets
  PROVE  NoNewActive(a) /\ ActiveIds(a)' = ActiveIds(a)
BY DEF NoNewActive, ActiveIds

\* Leaving a record or a batch, with or without a failure, keeps the
\* invariant: what the lane had found is forgotten.
LEMMA LeavingStep ==
  ASSUME UniqueInv, NEW a \in Assets, UNCHANGED <<table, index>>,
         Checkpoint(a) \/ \E p \in Nat : EnterRecord(a, p)
  PROVE  OneActiveInv'
<1>1. /\ found'[a] = {} /\ asked'[a] = {} /\ pc'[a] # "save"
      /\ \A b \in Assets \ {a} : SameLocals(b)
  BY DEF UniqueInv, TypeInv, TypeOK, Checkpoint, FreshLocals, EnterRecord, SameLocals
<1>2. index' = table' /\ KeyedById'
  BY DEF UniqueInv, OneActiveInv, KeyedById
<1>3. \A i, j \in ActiveIds(a)' : i = j
  BY SameTable DEF UniqueInv, OneActiveInv, OneActiveIncident
<1> QED BY <1>1, <1>2, <1>3, Afresh, SameTable, LaneStep DEF UniqueInv

\* The mapping's steps.
LEMMA MappingUnique ==
  ASSUME UniqueInv, NEW a \in Assets, Deliver(a) \/ Commit(a) \/ FailInvocation(a)
  PROVE  OneActiveInv'
<1>1. CASE Deliver(a)
  <2>1. FoundIsActive(a)
    BY <1>1 DEF Deliver, UniqueInv, OneActiveInv
  <2>2. FoundIsActive(a)'
    BY <1>1, <2>1 DEF Deliver, FoundIsActive, ActiveIds
  <2>3. pc'[a] # "save" /\ \A b \in Assets \ {a} : SameLocals(b)
    BY <1>1 DEF Deliver, UniqueInv, TypeInv, TypeOK, SameLocals
  <2>4. index' = table' /\ KeyedById' /\ UNCHANGED table
    BY <1>1 DEF Deliver, UniqueInv, OneActiveInv, KeyedById
  <2>5. \A i, j \in ActiveIds(a)' : i = j
    BY <2>4, SameTable DEF UniqueInv, OneActiveInv, OneActiveIncident
  <2> QED BY <2>2, <2>3, <2>4, <2>5, SameTable, LaneStep DEF UniqueInv
<1>2. CASE Commit(a)
  BY <1>2, LeavingStep DEF Commit
<1>3. CASE FailInvocation(a)
  <2>1. pos[a] + 1 \in Nat
    BY DEF UniqueInv, TypeInv, TypeOK
  <2> QED BY <1>3, <2>1, LeavingStep DEF FailInvocation
<1> QED BY <1>1, <1>2, <1>3

\* A query that returns adds the active incident, if it is the one asked for.
LEMMA QueryUnique ==
  ASSUME UniqueInv, NEW a \in Assets, NEW status \in ActiveStatuses, QueryByStatus(a, status)
  PROVE  OneActiveInv'
<1> DEFINE rows == {index[i] : i \in {j \in Ids : /\ index[j] # None
                                                  /\ index[j].asset = a
                                                  /\ index[j].status = status}}
<1>1. /\ FoundIsActive(a) /\ index = table /\ KeyedById
      /\ \A i, j \in ActiveIds(a) : i = j
  BY DEF QueryByStatus, UniqueInv, OneActiveInv, OneActiveIncident
<1>2. /\ found'[a] = found[a] \cup rows /\ asked'[a] = asked[a] \cup {status}
      /\ pc'[a] = "find" /\ UNCHANGED <<table, index>>
      /\ \A b \in Assets \ {a} : SameLocals(b)
  BY DEF QueryByStatus, UniqueInv, TypeInv, TypeOK, SameLocals
<1>3. ActiveIds(a)' = ActiveIds(a) /\ index' = table' /\ KeyedById'
  BY <1>1, <1>2, SameTable DEF KeyedById
<1>4. \A r \in rows : r.asset = a /\ \A i \in ActiveIds(a) : r.id = i
  BY <1>1 DEF ActiveIds, Active, KeyedById
<1>5. \A i \in ActiveIds(a) : table[i].status = status => rows # {}
  BY <1>1 DEF ActiveIds, Active
<1> HIDE DEF rows
<1>6. FoundIsActive(a)'
  BY <1>1, <1>2, <1>3, <1>4, <1>5 DEF FoundIsActive
<1> QED BY <1>1, <1>2, <1>3, <1>6, SameTable, LaneStep DEF UniqueInv

\* An incident is created only when both queries found none, so none is active;
\* an update goes to the one they found, which is the active one.
LEMMA EvaluateUnique ==
  ASSUME UniqueInv, NEW a \in Assets, Evaluate(a)
  PROVE  OneActiveInv'
<1> DEFINE sev == Severity(a)
           Decide(existing, subject) ==
             plan' = [plan EXCEPT ![a] = [action |-> RuleAction(sev, existing, clock),
                                          subject |-> subject]]
<1>1. /\ pc[a] = "find" /\ asked[a] = ActiveStatuses
      /\ sev \in Severities /\ Dx(a) \in Nat /\ clock \in Nat
  BY LaneFacts DEF Evaluate, UniqueInv, TypeInv, TypeOK
<1>2. PICK existing \in MostRecent(found[a]) :
        /\ \/ /\ RuleOperation(sev, existing) = "create"
              /\ \E i \in FreshId :
                   Decide(existing, NewIncident(i, a, sev, RuleAction(sev, existing, clock), clock, Dx(a)))
           \/ /\ RuleOperation(sev, existing) = "update"
              /\ Decide(existing, UpdatedIncident(existing, sev, RuleAction(sev, existing, clock), clock, Dx(a)))
           \/ RuleOperation(sev, existing) = "none"
        /\ pc' = [pc EXCEPT ![a] = IF RuleOperation(sev, existing) = "none" THEN "emit" ELSE "save"]
  BY DEF Evaluate, NextCall
<1>3. /\ UNCHANGED <<table, index>> /\ plan \in [Assets -> Plan \cup {None}]
      /\ pc'[a] # "find" /\ pc'[a] # "idle"
      /\ \A b \in Assets \ {a} : SameLocals(b)
  BY <1>2 DEF Evaluate, UniqueInv, TypeInv, TypeOK, SameLocals
<1>4. /\ FoundIsActive(a) /\ ActiveIds(a)' = ActiveIds(a) /\ index' = table' /\ KeyedById'
      /\ \A i, j \in ActiveIds(a)' : i = j
  BY <1>1, <1>3, SameTable DEF UniqueInv, OneActiveInv, OneActiveIncident, KeyedById
<1> HIDE DEF sev
<1>5. ASSUME pc'[a] = "save" PROVE PlanIsActive(a)'
  <2>1. CASE RuleOperation(sev, existing) = "create"
    <3>1. existing = None
      BY <2>1 DEF RuleOperation
    <3>2. found[a] = {}
      BY <1>2, <3>1, MostRecentSound, RulesAssumption DEF RulesAssumption, UniqueInv, TypeInv, TypeOK, Row
    <3>3. ActiveIds(a) = {}
      BY <1>1, <1>4, <3>2 DEF FoundIsActive, ActiveIds, Active
    <3>4. PICK i \in Ids : Decide(existing, NewIncident(i, a, sev, RuleAction(sev, existing, clock), clock, Dx(a)))
      BY <1>2, <2>1, FreshIdIsNew
    <3> QED BY <1>3, <1>4, <3>3, <3>4 DEF PlanIsActive, NewIncident
  <2>2. CASE RuleOperation(sev, existing) = "update"
    <3>1. existing # None
      BY <1>1, <2>2 DEF RuleOperation, Severities
    <3>2. existing \in found[a] /\ existing \in Incident
      BY <1>2, <3>1, MostRecentSound DEF UniqueInv, TypeInv, TypeOK
    <3>3. existing.asset = a /\ \A i \in ActiveIds(a) : existing.id = i
      BY <1>4, <3>2 DEF FoundIsActive
    <3>4. Decide(existing, UpdatedIncident(existing, sev, RuleAction(sev, existing, clock), clock, Dx(a)))
      BY <1>2, <2>2
    <3>5. RuleAction(sev, existing, clock) \in ActionTypes
      BY <1>1, <3>2, RuleActionType
    <3> QED BY <1>1, <1>3, <1>4, <3>2, <3>3, <3>4, <3>5, UpdatedIncidentType DEF PlanIsActive
  <2>3. CASE RuleOperation(sev, existing) = "none"
    BY <1>2, <1>5, <2>3 DEF UniqueInv, TypeInv, TypeOK
  <2> QED BY <1>2, <2>1, <2>2, <2>3
<1> QED BY <1>3, <1>4, <1>5, SameTable, LaneStep DEF UniqueInv

\* The Put leaves no other active incident of the asset, and touches no other asset.
LEMMA PutUnique ==
  ASSUME UniqueInv, ~IndexLag, NEW a \in Assets, pc[a] = "save",
         Store([table EXCEPT ![plan[a].subject.id] = plan[a].subject])
  PROVE  /\ index' = table' /\ KeyedById'
         /\ \A i, j \in ActiveIds(a)' : i = j
         /\ \A b \in Assets \ {a} : NoNewActive(b)
<1> DEFINE s == plan[a].subject
<1>1. s \in Incident /\ s.id \in Ids /\ s.asset = a /\ \A i \in ActiveIds(a) : s.id = i
  BY DEF UniqueInv, TypeInv, LocalsOK, OneActiveInv, PlanIsActive, Incident
<1>2. /\ index' = table' /\ table'[s.id] = s
      /\ \A i \in Ids \ {s.id} : table'[i] = table[i]
  BY <1>1 DEF Store, UniqueInv, TypeInv, TypeOK
<1> HIDE DEF s
<1>3. KeyedById'
  BY <1>2 DEF KeyedById, UniqueInv, OneActiveInv
<1>4. \A i \in ActiveIds(a)' : i = s.id
  BY <1>1, <1>2 DEF ActiveIds
<1>5. \A b \in Assets \ {a} : NoNewActive(b)
  BY <1>1, <1>2 DEF NoNewActive, ActiveIds
<1> QED BY <1>2, <1>3, <1>4, <1>5

\* The rest of processEvent.
LEMMA WriteUnique ==
  ASSUME UniqueInv, ~IndexLag, NEW a \in Assets, Save(a) \/ SaveFails(a) \/ QueryFails(a) \/ Emit(a)
  PROVE  OneActiveInv'
<1>0. pos[a] + 1 \in Nat
  BY DEF UniqueInv, TypeInv, TypeOK
<1>1. CASE Save(a)
  <2>1. pc'[a] = "emit" /\ \A b \in Assets \ {a} : SameLocals(b)
    BY <1>1 DEF Save, UniqueInv, TypeInv, TypeOK, SameLocals
  <2> QED BY <1>1, <2>1, PutUnique, LaneStep DEF Save, UniqueInv
<1>2. CASE SaveFails(a)
  <2>1. CASE UNCHANGED <<table, index>>
    BY <1>0, <1>2, <2>1, LeavingStep DEF SaveFails, NextRecord
  <2>2. CASE Store([table EXCEPT ![plan[a].subject.id] = plan[a].subject])
    <3>1. /\ found'[a] = {} /\ asked'[a] = {} /\ pc'[a] # "save"
          /\ \A b \in Assets \ {a} : SameLocals(b)
      BY <1>2 DEF SaveFails, NextRecord, EnterRecord, FreshLocals, UniqueInv, TypeInv, TypeOK, SameLocals
    <3> QED BY <1>2, <2>2, <3>1, PutUnique, Afresh, LaneStep DEF SaveFails, UniqueInv
  <2> QED BY <1>2, <2>1, <2>2 DEF SaveFails
<1>3. CASE QueryFails(a)
  BY <1>0, <1>3, LeavingStep DEF QueryFails, NextRecord
<1>4. CASE Emit(a)
  BY <1>0, <1>4, LeavingStep DEF Emit, NextRecord
<1> QED BY <1>1, <1>2, <1>3, <1>4

\* Acknowledgements, clean-ups, expiry and time open no incident.
LEMMA OutsideUnique ==
  ASSUME UniqueInv, ~IndexLag,
         (\E a \in Assets : Operator(a)) \/ (\E i \in Ids : Expire(i) \/ Propagate(i)) \/ Tick
  PROVE  OneActiveInv'
<1>1. CASE UNCHANGED <<table, index, lane>>
  BY <1>1, TableStep DEF UniqueInv, OneActiveInv, KeyedById
<1>2. ASSUME NEW a \in Assets, ack[a] = "update", AcknowledgeIncident(target[a]), UNCHANGED lane
      PROVE  OneActiveInv'
  <2> DEFINE i == target[a]
             new == IF table[i] = None THEN GhostRow(i, clock)
                    ELSE [table[i] EXCEPT !.acknowledgedAt = clock]
  <2>1. /\ i \in Ids /\ table \in [Ids -> Row \cup {None}]
        /\ table' = [table EXCEPT ![i] = new] /\ index' = table' /\ UNCHANGED lane
    BY <1>2 DEF AcknowledgeIncident, Store, UniqueInv, TypeInv, TypeOK, LocalsOK
  <2>2. ASSUME Active(new)
        PROVE  Active(table[i]) /\ new.asset = table[i].asset /\ new.status = table[i].status
    <3>1. table[i] # None
      BY <2>2, RulesAssumption DEF Active, GhostRow, RulesAssumption, Statuses
    <3>2. table[i] \in Incident \/ table[i] \in Ghost
      BY <2>1, <3>1 DEF Row
    <3>3. new.asset = table[i].asset /\ new.status = table[i].status
      <4>1. CASE table[i] \in Incident
        BY <3>1, <4>1 DEF Incident
      <4>2. CASE table[i] \in Ghost
        BY <3>1, <4>2 DEF Ghost
      <4> QED BY <3>2, <4>1, <4>2
    <3> QED BY <2>2, <3>1, <3>3 DEF Active
  <2>3. new.id = i
    <3>1. CASE table[i] = None
      BY <3>1 DEF GhostRow
    <3>2. CASE table[i] # None
      <4>1. table[i].id = i
        BY <2>1, <3>2 DEF UniqueInv, OneActiveInv, KeyedById
      <4>2. table[i] \in Incident \/ table[i] \in Ghost
        BY <2>1, <3>2 DEF Row
      <4>3. CASE table[i] \in Incident
        BY <3>2, <4>1, <4>3 DEF Incident
      <4>4. CASE table[i] \in Ghost
        BY <3>2, <4>1, <4>4 DEF Ghost
      <4> QED BY <4>2, <4>3, <4>4
    <3> QED BY <3>1, <3>2
  <2> HIDE DEF new
  <2>4. KeyedById'
    BY <2>1, <2>3 DEF KeyedById, UniqueInv, OneActiveInv
  <2> QED BY <2>1, <2>2, <2>4, TableStep DEF UniqueInv
<1>3. ASSUME NEW t, Store(t), UNCHANGED lane, \A i \in Ids : t[i] = None \/ t[i] = table[i]
      PROVE  OneActiveInv'
  <2>1. table' = t /\ index' = table'
    BY <1>3 DEF Store
  <2>2. KeyedById'
    BY <1>3, <2>1 DEF KeyedById, UniqueInv, OneActiveInv
  <2>3. \A i \in Ids : Active(t[i]) => t[i] = table[i]
    BY <1>3 DEF Active
  <2> QED BY <1>3, <2>1, <2>2, <2>3, TableStep DEF UniqueInv
<1>4. ASSUME NEW a \in Assets, ClearDelete(a) PROVE OneActiveInv'
  <2>1. PICK gone \in SUBSET clear[a] : Store([i \in Ids |-> IF i \in gone THEN None ELSE table[i]])
    BY <1>4 DEF ClearDelete
  <2> QED BY <1>3, <1>4, <2>1 DEF ClearDelete
<1>5. ASSUME NEW i \in Ids, Expire(i) PROVE OneActiveInv'
  <2>1. \A j \in Ids : [table EXCEPT ![i] = None][j] \in {None, table[j]}
    BY DEF UniqueInv, TypeInv, TypeOK
  <2> QED BY <1>3, <1>5, <2>1 DEF Expire
<1>6. ASSUME NEW i \in Ids, Propagate(i) PROVE FALSE
  BY <1>6 DEF Propagate, UniqueInv, OneActiveInv
<1> QED BY <1>1, <1>2, <1>4, <1>5, <1>6
    DEF Operator, AckQueryOpened, AckQueryEscalated, AckUpdate, AckFails, ClearScan, Tick

\* Every step keeps the inductive invariant.
LEMMA UniqueStep == ASSUME ~IndexLag PROVE UniqueInv /\ [Next]_vars => UniqueInv'
<1> SUFFICES ASSUME UniqueInv, [Next]_vars PROVE OneActiveInv'
  BY TypeStep DEF UniqueInv
<1>1. CASE UNCHANGED vars
  BY <1>1, TableStep DEF vars, UniqueInv, OneActiveInv, KeyedById
<1>2. ASSUME NEW a \in Assets, Deliver(a) \/ Work(a) \/ Fault(a) \/ Operator(a) PROVE OneActiveInv'
  BY <1>2, MappingUnique, QueryUnique, EvaluateUnique, WriteUnique, OutsideUnique DEF Work, Fault
<1> QED BY <1>1, <1>2, OutsideUnique DEF Next

\* An asset has at most one active incident in every reachable state, for any
\* number of assets, retries and faults, if the index shows every write at
\* once: the awaits between the lookup and the Put, redelivery, the operators'
\* requests and expiry do not break it.
THEOREM UniqueActive == ASSUME ~IndexLag PROVE Spec => []OneActiveIncident
<1>1. Init => UniqueInv
  BY DEF Init, UniqueInv, TypeInv, TypeOK, LocalsOK, OneActiveInv, OneActiveIncident, KeyedById,
         ActiveIds, Active, FoundIsActive
<1>2. UniqueInv => OneActiveIncident
  BY DEF UniqueInv, OneActiveInv
<1> QED BY <1>1, <1>2, UniqueStep, PTL DEF Spec

(***************************************************************************)
(* The stamps, however far the index lags.                                 *)
(***************************************************************************)

\* A copy of a record, wherever it is: consistent, and not from the future.
Sound(r) == r # None => StampsOK(r) /\ r.openedAt <= r.updatedAt /\ r.updatedAt <= clock

\* The copies a lane holds are sound and, as far as it found them, active.
SoundLane(a) ==
  /\ \A r \in found[a] : Sound(r) /\ r.status \in ActiveStatuses
  /\ pc[a] = "save" => Sound(plan[a].subject)

RowsSound ==
  \A i \in Ids : (Real(table[i]) => Sound(table[i])) /\ (Real(index[i]) => Sound(index[i]))

StampsInv == TypeInv /\ RowsSound /\ \A a \in Assets : SoundLane(a)

\* A created record is consistent.
LEMMA NewIncidentSound ==
  ASSUME NEW id \in Ids, NEW asset \in Assets, NEW severity \in {"warning", "critical"},
         NEW action \in ActionTypes, clock \in Nat, NEW dx \in Nat
  PROVE  Sound(NewIncident(id, asset, severity, action, clock, dx))
<1>1. None \notin Nat
  BY RulesAssumption DEF RulesAssumption
<1> QED BY <1>1 DEF NewIncident, Sound, StampsOK

\* What the rules make of a sound active copy is sound again.
LEMMA UpdatedIncidentSound ==
  ASSUME NEW r \in Incident, r.status \in ActiveStatuses, Sound(r),
         NEW severity \in Severities, clock \in Nat, NEW dx \in Nat
  PROVE  Sound(UpdatedIncident(r, severity, RuleAction(severity, r, clock), clock, dx))
<1> DEFINE action == RuleAction(severity, r, clock)
           u == UpdatedIncident(r, severity, action, clock, dx)
<1>1. /\ None \notin Nat /\ r # None /\ ResolvedTtl \in Nat
      /\ r.openedAt \in Nat /\ r.updatedAt \in Nat /\ r.escalatedAt \in Nat \cup {None}
      /\ r.severity \in Severities
  BY RulesAssumption DEF RulesAssumption, Row, Incident
<1>2. StampsOK(r) /\ r.openedAt <= r.updatedAt /\ r.updatedAt <= clock
  BY <1>1 DEF Sound
<1>3. /\ u.severity = UpgradeSeverity(r.severity, severity)
      /\ u.status = NextStatus(action, r.status)
      /\ u.escalatedAt = IF action \in {"throttle", "shutdown_recommended"} /\ r.escalatedAt = None
                            THEN clock ELSE r.escalatedAt
      /\ u.resolvedAt = IF action = "resolve" THEN clock ELSE r.resolvedAt
      /\ u.expiresAt = IF action = "resolve" THEN clock + ResolvedTtl ELSE r.expiresAt
      /\ u.updatedAt = clock /\ u.openedAt = r.openedAt
  BY DEF UpdatedIncident, TtlEpoch, Incident
<1>4. /\ severity = "critical" => action = "shutdown_recommended"
      /\ severity = "warning" => action \in {"throttle", "monitor"}
      /\ severity = "info" => action = "resolve"
  BY <1>1 DEF RuleAction
<1>5. u.severity # "info" /\ (u.severity = "critical" => severity = "critical" \/ r.severity = "critical")
  BY <1>1, <1>2, <1>3 DEF UpgradeSeverity, Rank, Severities, StampsOK
<1>6. /\ action = "resolve" => u.status = "resolved"
      /\ action \in {"throttle", "shutdown_recommended"} => u.status = "escalated"
      /\ action = "monitor" => u.status = r.status
  BY <1>3 DEF NextStatus
<1>7. action = "monitor" => severity = "warning"
  BY <1>4 DEF Severities
<1>8. r.status = "opened" /\ severity = "warning" => u.severity = "warning"
  BY <1>2, <1>3 DEF UpgradeSeverity, Rank, StampsOK
<1> HIDE DEF action, u
<1>9. StampsOK(u)
  <2>1. CASE severity = "critical"
    BY <1>1, <1>2, <1>3, <1>4, <1>5, <1>6, <2>1 DEF StampsOK, ActiveStatuses
  <2>2. CASE severity = "warning"
    BY <1>1, <1>2, <1>3, <1>4, <1>5, <1>6, <1>8, <2>2 DEF StampsOK, ActiveStatuses
  <2>3. CASE severity = "info"
    BY <1>1, <1>2, <1>3, <1>4, <1>5, <1>6, <2>3 DEF StampsOK, ActiveStatuses
  <2> QED BY <2>1, <2>2, <2>3 DEF Severities
<1>10. u.openedAt <= u.updatedAt /\ u.updatedAt <= clock
  BY <1>1, <1>2, <1>3
<1> QED BY <1>9, <1>10 DEF Sound, u, action

\* A row that is an incident has all its fields.
LEMMA RealIsIncident ==
  ASSUME NEW r \in Row \cup {None}, Real(r)
  PROVE  r \in Incident
BY DEF Real, Row, Ghost

\* A step of one lane keeps the stamps if it does so for the rows and its own copies.
LEMMA LaneStampsStep ==
  ASSUME StampsInv, NEW a \in Assets, clock' = clock, RowsSound', SoundLane(a)',
         \A b \in Assets \ {a} : SameLocals(b)
  PROVE  RowsSound' /\ \A b \in Assets : SoundLane(b)'
<1>1. ASSUME NEW b \in Assets, b # a PROVE SoundLane(b)'
  BY <1>1 DEF StampsInv, SoundLane, Sound, SameLocals
<1> QED BY <1>1

\* Storing sound rows keeps the stored rows sound.
LEMMA StoreSound ==
  ASSUME StampsInv, clock' = clock, NEW t, Store(t), \A i \in Ids : Real(t[i]) => Sound(t[i])
  PROVE  RowsSound'
BY DEF Store, StampsInv, RowsSound, Sound

\* Steps that write no row and build no record.
LEMMA QuietStamps ==
  ASSUME StampsInv, NEW a \in Assets,
         Deliver(a) \/ Commit(a) \/ FailInvocation(a) \/ QueryFails(a) \/ Emit(a)
  PROVE  RowsSound' /\ \A b \in Assets : SoundLane(b)'
<1>1. UNCHANGED <<clock, table, index>>
  BY DEF Deliver, Commit, FailInvocation, QueryFails, Emit
<1>2. RowsSound'
  BY <1>1 DEF StampsInv, RowsSound, Sound
<1>3. SoundLane(a)' /\ \A b \in Assets \ {a} : SameLocals(b)
  <2>1. CASE Deliver(a)
    BY <1>1, <2>1 DEF Deliver, StampsInv, TypeInv, TypeOK, SoundLane, Sound, SameLocals
  <2>2. CASE Checkpoint(a) \/ \E p \in Nat : EnterRecord(a, p)
    BY <2>2 DEF Checkpoint, FreshLocals, EnterRecord, StampsInv, TypeInv, TypeOK, SoundLane, SameLocals
  <2>3. pos[a] + 1 \in Nat
    BY DEF StampsInv, TypeInv, TypeOK
  <2> QED BY <2>1, <2>2, <2>3 DEF Commit, FailInvocation, QueryFails, Emit, NextRecord
<1> QED BY <1>1, <1>2, <1>3, LaneStampsStep

\* A query only finds sound and active copies, however old they are.
LEMMA QueryStamps ==
  ASSUME StampsInv, NEW a \in Assets, NEW status \in ActiveStatuses, QueryByStatus(a, status)
  PROVE  RowsSound' /\ \A b \in Assets : SoundLane(b)'
<1> DEFINE rows == {index[i] : i \in {j \in Ids : /\ index[j] # None
                                                  /\ index[j].asset = a
                                                  /\ index[j].status = status}}
<1>1. /\ found'[a] = found[a] \cup rows /\ pc'[a] = "find" /\ UNCHANGED <<clock, table, index>>
      /\ \A b \in Assets \ {a} : SameLocals(b)
  BY DEF QueryByStatus, StampsInv, TypeInv, TypeOK, SameLocals
<1>2. \A r \in rows : Sound(r) /\ r.status \in ActiveStatuses
  BY RulesAssumption DEF RulesAssumption, Statuses, StampsInv, RowsSound, Real
<1> HIDE DEF rows
<1>3. SoundLane(a)'
  BY <1>1, <1>2 DEF StampsInv, SoundLane, Sound
<1>4. RowsSound'
  BY <1>1 DEF StampsInv, RowsSound, Sound
<1> QED BY <1>1, <1>3, <1>4, LaneStampsStep

\* The record about to be written is sound, although its copy may be stale.
LEMMA EvaluateStamps ==
  ASSUME StampsInv, NEW a \in Assets, Evaluate(a)
  PROVE  RowsSound' /\ \A b \in Assets : SoundLane(b)'
<1> DEFINE sev == Severity(a)
           Decide(existing, subject) ==
             plan' = [plan EXCEPT ![a] = [action |-> RuleAction(sev, existing, clock),
                                          subject |-> subject]]
<1>1. sev \in Severities /\ Dx(a) \in Nat /\ clock \in Nat
  BY LaneFacts DEF Evaluate, StampsInv, TypeInv, TypeOK
<1>2. PICK existing \in MostRecent(found[a]) :
        /\ \/ /\ RuleOperation(sev, existing) = "create"
              /\ \E i \in FreshId :
                   Decide(existing, NewIncident(i, a, sev, RuleAction(sev, existing, clock), clock, Dx(a)))
           \/ /\ RuleOperation(sev, existing) = "update"
              /\ Decide(existing, UpdatedIncident(existing, sev, RuleAction(sev, existing, clock), clock, Dx(a)))
           \/ RuleOperation(sev, existing) = "none"
        /\ pc' = [pc EXCEPT ![a] = IF RuleOperation(sev, existing) = "none" THEN "emit" ELSE "save"]
  BY DEF Evaluate, NextCall
<1>3. /\ UNCHANGED <<clock, table, index, found>> /\ plan \in [Assets -> Plan \cup {None}]
      /\ \A b \in Assets \ {a} : SameLocals(b)
  BY <1>2 DEF Evaluate, StampsInv, TypeInv, TypeOK, SameLocals
<1>4. existing # None => existing \in Incident /\ Sound(existing) /\ existing.status \in ActiveStatuses
  BY <1>2, MostRecentSound DEF StampsInv, TypeInv, TypeOK, SoundLane
<1> HIDE DEF sev
<1>5. ASSUME pc'[a] = "save" PROVE Sound(plan'[a].subject)
  <2>1. CASE RuleOperation(sev, existing) = "create"
    <3>1. existing = None /\ sev \in {"warning", "critical"}
      BY <1>1, <2>1 DEF RuleOperation, Severities
    <3>2. RuleAction(sev, existing, clock) \in ActionTypes
      BY <1>1, <3>1, RuleActionType
    <3>3. PICK i \in Ids : Decide(existing, NewIncident(i, a, sev, RuleAction(sev, existing, clock), clock, Dx(a)))
      BY <1>2, <2>1, FreshIdIsNew
    <3>4. plan'[a].subject = NewIncident(i, a, sev, RuleAction(sev, existing, clock), clock, Dx(a))
      BY <1>3, <3>3
    <3> QED BY <1>1, <3>1, <3>2, <3>4, NewIncidentSound
  <2>2. CASE RuleOperation(sev, existing) = "update"
    <3>1. existing # None
      BY <1>1, <2>2 DEF RuleOperation, Severities
    <3>2. plan'[a].subject = UpdatedIncident(existing, sev, RuleAction(sev, existing, clock), clock, Dx(a))
      BY <1>2, <1>3, <2>2
    <3> QED BY <1>1, <1>4, <3>1, <3>2, UpdatedIncidentSound
  <2>3. CASE RuleOperation(sev, existing) = "none"
    BY <1>2, <1>5, <2>3 DEF StampsInv, TypeInv, TypeOK
  <2> QED BY <1>2, <2>1, <2>2, <2>3
<1>6. SoundLane(a)'
  BY <1>3, <1>5 DEF StampsInv, SoundLane, Sound
<1>7. RowsSound'
  BY <1>3 DEF StampsInv, RowsSound, Sound
<1> QED BY <1>3, <1>6, <1>7, LaneStampsStep

\* The Put stores a sound record, whatever it overwrites.
LEMMA PutStamps ==
  ASSUME StampsInv, NEW a \in Assets, Save(a) \/ SaveFails(a)
  PROVE  RowsSound' /\ \A b \in Assets : SoundLane(b)'
<1> DEFINE t == [table EXCEPT ![plan[a].subject.id] = plan[a].subject]
<1>1. Sound(plan[a].subject) /\ plan[a].subject \in Incident
  BY DEF Save, SaveFails, StampsInv, SoundLane, TypeInv, LocalsOK
<1>2. \A i \in Ids : Real(t[i]) => Sound(t[i])
  BY <1>1 DEF StampsInv, RowsSound, TypeInv, TypeOK, Incident
<1>3. clock' = clock /\ (Store(t) \/ UNCHANGED <<table, index>>)
  BY DEF Save, SaveFails
<1> HIDE DEF t
<1>4. RowsSound'
  <2>1. CASE Store(t)
    BY <1>2, <1>3, <2>1, StoreSound
  <2>2. CASE UNCHANGED <<table, index>>
    BY <1>3, <2>2 DEF StampsInv, RowsSound, Sound
  <2> QED BY <1>3, <2>1, <2>2
<1>5. SoundLane(a)' /\ \A b \in Assets \ {a} : SameLocals(b)
  <2>1. CASE Save(a)
    BY <2>1 DEF Save, StampsInv, TypeInv, TypeOK, SoundLane, Sound, SameLocals
  <2>2. CASE SaveFails(a)
    BY <2>2 DEF SaveFails, NextRecord, EnterRecord, FreshLocals, StampsInv, TypeInv, TypeOK, SoundLane, SameLocals
  <2> QED BY <2>1, <2>2
<1> QED BY <1>3, <1>4, <1>5, LaneStampsStep

\* Operators, DynamoDB and time leave the records they keep sound.
LEMMA OutsideStamps ==
  ASSUME StampsInv,
         (\E a \in Assets : Operator(a)) \/ (\E i \in Ids : Expire(i) \/ Propagate(i)) \/ Tick
  PROVE  RowsSound' /\ \A b \in Assets : SoundLane(b)'
<1>1. ASSUME UNCHANGED <<clock, lane>>, RowsSound' PROVE \A b \in Assets : SoundLane(b)'
  BY <1>1 DEF lane, StampsInv, SoundLane, Sound
<1>2. CASE UNCHANGED <<clock, table, index, lane>>
  BY <1>1, <1>2 DEF StampsInv, RowsSound, Sound
<1>3. ASSUME NEW a \in Assets, ack[a] = "update", AcknowledgeIncident(target[a]),
             UNCHANGED <<clock, lane>>
      PROVE  RowsSound'
  <2> DEFINE i == target[a]
             new == IF table[i] = None THEN GhostRow(i, clock)
                    ELSE [table[i] EXCEPT !.acknowledgedAt = clock]
             t == [table EXCEPT ![i] = new]
  <2>1. i \in Ids /\ table \in [Ids -> Row \cup {None}] /\ Store(t) /\ UNCHANGED <<clock, lane>>
    BY <1>3 DEF AcknowledgeIncident, StampsInv, TypeInv, TypeOK, LocalsOK
  <2>2. ASSUME Real(new) PROVE Sound(new)
    <3>1. table[i] # None
      BY <2>2 DEF Real, GhostRow
    <3>2. table[i] \in Incident
      <4>1. CASE table[i] \in Ghost
        BY <2>2, <3>1, <4>1 DEF Real, Ghost
      <4> QED BY <2>1, <3>1, <4>1 DEF Row
    <3>3. Real(table[i])
      BY <3>1, <3>2, RulesAssumption DEF Real, Incident, RulesAssumption
    <3>4. Sound(table[i])
      BY <2>1, <3>3 DEF StampsInv, RowsSound
    <3>5. /\ new.severity = table[i].severity /\ new.status = table[i].status
          /\ new.openedAt = table[i].openedAt /\ new.escalatedAt = table[i].escalatedAt
          /\ new.resolvedAt = table[i].resolvedAt /\ new.updatedAt = table[i].updatedAt
          /\ new.expiresAt = table[i].expiresAt
      BY <3>1, <3>2 DEF Incident
    <3> HIDE DEF new
    <3> QED BY <3>1, <3>4, <3>5 DEF Sound, StampsOK
  <2> HIDE DEF new
  <2>3. \A j \in Ids : Real(t[j]) => Sound(t[j])
    BY <2>1, <2>2 DEF StampsInv, RowsSound
  <2> HIDE DEF t
  <2> QED BY <2>1, <2>3, StoreSound
<1>4. ASSUME NEW t, Store(t), UNCHANGED <<clock, lane>>, \A i \in Ids : t[i] = None \/ t[i] = table[i]
      PROVE  RowsSound'
  BY <1>4, StoreSound DEF StampsInv, RowsSound, Real
<1>5. ASSUME NEW a \in Assets, ClearDelete(a) PROVE UNCHANGED <<clock, lane>> /\ RowsSound'
  <2>1. PICK gone \in SUBSET clear[a] : Store([i \in Ids |-> IF i \in gone THEN None ELSE table[i]])
    BY <1>5 DEF ClearDelete
  <2> QED BY <1>4, <1>5, <2>1 DEF ClearDelete
<1>6. ASSUME NEW i \in Ids, Expire(i) PROVE UNCHANGED <<clock, lane>> /\ RowsSound'
  <2>1. \A j \in Ids : [table EXCEPT ![i] = None][j] \in {None, table[j]}
    BY DEF StampsInv, TypeInv, TypeOK
  <2> QED BY <1>4, <1>6, <2>1 DEF Expire
<1>7. ASSUME NEW i \in Ids, Propagate(i) PROVE UNCHANGED <<clock, lane>> /\ RowsSound'
  BY <1>7 DEF Propagate, StampsInv, RowsSound, Sound, TypeInv, TypeOK
<1>8. CASE Tick
  <2>1. clock \in Nat /\ clock' = clock + 1 /\ UNCHANGED <<table, index, lane>>
    BY <1>8 DEF Tick, StampsInv, TypeInv, TypeOK
  <2>2. ASSUME NEW r \in Incident, Sound(r) PROVE Sound(r)'
    BY <2>1, <2>2 DEF Sound, Incident
  <2>3. RowsSound'
    BY <2>1, <2>2, RealIsIncident DEF StampsInv, RowsSound, TypeInv, TypeOK
  <2>4. ASSUME NEW b \in Assets PROVE SoundLane(b)'
    BY <2>1, <2>2 DEF lane, StampsInv, SoundLane, TypeInv, TypeOK, LocalsOK
  <2> QED BY <2>3, <2>4
<1> QED BY <1>1, <1>2, <1>3, <1>5, <1>6, <1>7, <1>8
    DEF Operator, AckQueryOpened, AckQueryEscalated, AckUpdate, AckFails, ClearScan

\* Every step keeps the stamps sound.
LEMMA StampsStep == StampsInv /\ [Next]_vars => StampsInv'
<1> SUFFICES ASSUME StampsInv, [Next]_vars PROVE RowsSound' /\ \A b \in Assets : SoundLane(b)'
  BY TypeStep DEF StampsInv
<1>1. CASE UNCHANGED vars
  BY <1>1 DEF vars, lane, StampsInv, RowsSound, SoundLane, Sound
<1>2. ASSUME NEW a \in Assets, Deliver(a) \/ Work(a) \/ Fault(a) \/ Operator(a)
      PROVE  RowsSound' /\ \A b \in Assets : SoundLane(b)'
  BY <1>2, QuietStamps, QueryStamps, EvaluateStamps, PutStamps, OutsideStamps DEF Work, Fault
<1> QED BY <1>1, <1>2, OutsideStamps DEF Next

\* In the first state there is nothing to be stamped.
LEMMA StampsInit == Init => StampsInv
BY DEF Init, StampsInv, TypeInv, TypeOK, LocalsOK, RowsSound, Real, SoundLane

\* The stamps of every stored incident are consistent with its status and its
\* severity in every reachable state, however stale the copies were that the
\* Actions Agent built its records from.
THEOREM StampsCorrect == Spec => []StampsConsistent
<1>1. StampsInv => StampsConsistent
  BY DEF StampsInv, RowsSound, StampsConsistent, Sound, Real
<1> QED BY <1>1, StampsInit, StampsStep, PTL DEF Spec

-----------------------------------------------------------------------------
(* What becomes of an incident once it is recorded, if the index does not  *)
(* lag: no write lowers its severity or drops an entry of its history, a   *)
(* published action stays recorded, and the Actions Agent implements       *)
(* IncidentLifecycle as long as nobody clears the table.                   *)
(*                                                                         *)
(* The argument is about the copies of rows that the lanes have in hand:   *)
(* each names an incident of the lane's own asset, and nobody but the lane *)
(* changes that row in anything but its acknowledgement.                   *)

\* The entry of an action is in the history of a record.
Has(r, action, dx) ==
  \E k \in 1..Len(r.history) : r.history[k] = [action |-> action, dx |-> dx]

\* A row is a record that was read earlier, but for its acknowledgement.
Agrees(row, r) ==
  /\ row.asset = r.asset /\ row.status = r.status
  /\ row.severity = r.severity /\ row.history = r.history

\* A record may be put over a row.
Advances(old, new) ==
  /\ Rank(new.severity) >= Rank(old.severity)
  /\ \E n \in 0..Len(new.history) : old.history = SubSeq(new.history, 1, n)

\* A lane has found rows in hand, or what it made of them.
Reading(a) == pc[a] \notin {"save", "emit"}

\* The incidents a lane has in hand.
Claims(a) ==
  IF Reading(a) THEN {r.id : r \in found[a]}
  ELSE {s.id : s \in {plan[a].subject} \ {None}}

\* Nobody knows an id before it is issued.
IssuedFirst ==
  /\ \A i \in Ids \ issued : table[i] = None
  /\ \A a \in Assets : Claims(a) \subseteq issued
  /\ \A a \in Assets : ack[a] = "update" => target[a] \in issued
  /\ \A e \in emitted : e.incident # None => e.incident \in issued

\* An incident is in the hand of one lane at most, that of its asset.
OwnClaims ==
  /\ \A a, b \in Assets : a # b => Claims(a) \cap Claims(b) = {}
  /\ \A a \in Assets : \A i \in Claims(a) : Real(table[i]) => table[i].asset = a

\* What a lane has in hand is what is stored, as long as it is stored; what it
\* writes is built upon it and records the action.
UpToDate(a) ==
  /\ Reading(a) => \A r \in found[a] : Real(table[r.id]) => Agrees(table[r.id], r)
  /\ pc[a] = "save" =>
       /\ Real(table[plan[a].subject.id]) =>
            Advances(table[plan[a].subject.id], plan[a].subject)
       /\ Has(plan[a].subject, plan[a].action, Dx(a))
  /\ pc[a] = "emit" /\ plan[a].subject # None /\ Real(table[plan[a].subject.id]) =>
       Has(table[plan[a].subject.id], plan[a].action, Dx(a))

\* A published action is in every copy a lane may write back.
LaneRecorded(a, e) ==
  /\ Reading(a) => \A r \in found[a] : r.id = e.incident => Has(r, e.action, e.dx)
  /\ pc[a] = "save" /\ plan[a].subject.id = e.incident =>
       Has(plan[a].subject, e.action, e.dx)

\* ... and in the row.
Recorded(e) ==
  e.incident # None =>
    /\ Real(table[e.incident]) => Has(table[e.incident], e.action, e.dx)
    /\ \A a \in Assets : LaneRecorded(a, e)

\* The inductive invariant.
HistoryInv ==
  /\ UniqueInv
  /\ IssuedFirst
  /\ OwnClaims
  /\ \A a \in Assets : UpToDate(a)
  /\ \A e \in emitted : Recorded(e)

(***************************************************************************)
(* What a step does to the rows, and to the lanes.                         *)
(***************************************************************************)

\* The row stays as it is, but for its acknowledgement, or is gone.
Kept(i) == Real(table'[i]) => Real(table[i]) /\ Agrees(table'[i], table[i])

\* An acknowledgement changes nothing else of a record.
LEMMA AcknowledgeKeeps ==
  ASSUME TypeInv, NEW a \in Assets, ack[a] = "update", AcknowledgeIncident(target[a])
  PROVE  \A i \in Ids : Kept(i) /\ (table[i] = None /\ i # target[a] => table'[i] = None)
<1> DEFINE i == target[a]
           new == IF table[i] = None THEN GhostRow(i, clock)
                  ELSE [table[i] EXCEPT !.acknowledgedAt = clock]
<1>1. i \in Ids /\ table \in [Ids -> Row \cup {None}] /\ table' = [table EXCEPT ![i] = new]
  BY DEF AcknowledgeIncident, Store, TypeInv, TypeOK, LocalsOK
<1>2. ASSUME Real(new) PROVE Real(table[i]) /\ Agrees(new, table[i])
  <2>1. table[i] # None
    BY <1>2 DEF Real, GhostRow
  <2>2. table[i] \in Incident \/ table[i] \in Ghost
    BY <1>1, <2>1 DEF Row
  <2>3. CASE table[i] \in Incident
    BY <1>2, <2>1, <2>3, RulesAssumption DEF Real, Incident, Agrees, RulesAssumption
  <2>4. CASE table[i] \in Ghost
    BY <1>2, <2>1, <2>4 DEF Real, Ghost
  <2> QED BY <2>2, <2>3, <2>4
<1> HIDE DEF new
<1> QED BY <1>1, <1>2 DEF Kept, Agrees

\* Operators, DynamoDB and time keep every row or remove it, and move no lane.
LEMMA OutsideRows ==
  ASSUME TypeInv,
         (\E a \in Assets : Operator(a)) \/ (\E i \in Ids : Expire(i) \/ Propagate(i)) \/ Tick
  PROVE  /\ UNCHANGED <<lane, issued, emitted>>
         /\ \A i \in Ids : Kept(i)
         /\ \A i \in Ids : table[i] = None /\ (\A a \in Assets : ack[a] = "update" => i # target[a])
              => table'[i] = None
<1>1. CASE UNCHANGED table
  BY <1>1 DEF Kept, Agrees, Operator, AckQueryOpened, AckQueryEscalated, AckUpdate, AckFails,
              ClearScan, ClearDelete, Expire, Propagate, Tick, streams
<1>2. ASSUME NEW a \in Assets, AckUpdate(a) \/ (AckFails(a) /\ ~UNCHANGED table)
      PROVE  /\ UNCHANGED <<lane, issued, emitted>>
             /\ ack[a] = "update" /\ AcknowledgeIncident(target[a])
  BY <1>2 DEF AckUpdate, AckFails, streams
<1>3. ASSUME NEW a \in Assets, ClearDelete(a) \/ \E i \in Ids : Expire(i)
      PROVE  /\ UNCHANGED <<lane, issued, emitted>>
             /\ \A i \in Ids : table'[i] = None \/ table'[i] = table[i]
  BY <1>3 DEF ClearDelete, Expire, Store, TypeInv, TypeOK, streams
<1>4. \A i \in Ids : table'[i] = None \/ table'[i] = table[i] => Kept(i)
  BY DEF Kept, Real, Agrees
<1>5. ASSUME NEW i \in Ids, Expire(i)
      PROVE  /\ UNCHANGED <<lane, issued, emitted>>
             /\ \A j \in Ids : table'[j] = None \/ table'[j] = table[j]
  BY <1>5 DEF Expire, Store, TypeInv, TypeOK, streams
<1>6. CASE \E a \in Assets : AckUpdate(a) \/ (AckFails(a) /\ ~UNCHANGED table)
  BY <1>2, <1>6, AcknowledgeKeeps
<1>7. CASE (\E a \in Assets : ClearDelete(a)) \/ \E i \in Ids : Expire(i)
  BY <1>3, <1>4, <1>5, <1>7
<1> QED BY <1>1, <1>6, <1>7
    DEF Operator, AckQueryOpened, AckQueryEscalated, ClearScan, Propagate, Tick

(***************************************************************************)
(* The inductive invariant, one lemma per group of actions.                *)
(***************************************************************************)

\* A lane that does not move keeps its part while its rows are kept.
LEMMA LaneFrame ==
  ASSUME HistoryInv, NEW b \in Assets, SameLocals(b), Dx(b)' = Dx(b),
         \A i \in Claims(b) : Kept(i)
  PROVE  /\ Claims(b)' = Claims(b)
         /\ UpToDate(b)'
         /\ \A i \in Claims(b) : Real(table'[i]) => table'[i].asset = b
         /\ \A e : LaneRecorded(b, e) => LaneRecorded(b, e)'
<1>1. Claims(b)' = Claims(b) /\ (Reading(b)' <=> Reading(b))
  BY DEF Claims, Reading, SameLocals
<1>2. \A i \in Claims(b) : Real(table'[i]) => table'[i].asset = b
  BY DEF HistoryInv, OwnClaims, Kept, Agrees
<1>3. \A e : LaneRecorded(b, e) => LaneRecorded(b, e)'
  BY <1>1 DEF LaneRecorded, SameLocals
<1>4. UpToDate(b) /\ UniqueInv
  BY DEF HistoryInv
<1>5. ASSUME Reading(b), NEW r \in found[b], Real(table'[r.id]) PROVE Agrees(table'[r.id], r)
  <2>1. r.id \in Claims(b)
    BY <1>5 DEF Claims
  <2> QED BY <1>4, <1>5, <2>1 DEF Kept, Agrees, UpToDate
<1>6. ASSUME pc[b] = "save"
      PROVE  /\ Real(table'[plan[b].subject.id]) =>
                  Advances(table'[plan[b].subject.id], plan[b].subject)
             /\ Has(plan[b].subject, plan[b].action, Dx(b))
  <2>1. plan[b].subject.id \in Claims(b)
    BY <1>4, <1>6, RulesAssumption
    DEF RulesAssumption, UniqueInv, TypeInv, LocalsOK, Claims, Reading, Row
  <2> QED BY <1>4, <1>6, <2>1 DEF Kept, Agrees, Advances, UpToDate
<1>7. ASSUME pc[b] = "emit", plan[b].subject # None, Real(table'[plan[b].subject.id])
      PROVE  Has(table'[plan[b].subject.id], plan[b].action, Dx(b))
  <2>1. plan[b].subject.id \in Claims(b)
    BY <1>7 DEF Claims, Reading
  <2> QED BY <1>4, <1>7, <2>1 DEF Kept, Agrees, Has, UpToDate
<1>8. UpToDate(b)'
  BY <1>1, <1>5, <1>6, <1>7 DEF UpToDate, SameLocals
<1> QED BY <1>1, <1>2, <1>3, <1>8

\* A step of one lane keeps the invariant if it does so for the rows and for
\* the lane itself, and takes no incident from another lane.
LEMMA LaneHistoryStep ==
  ASSUME HistoryInv, UniqueInv', IssuedFirst', NEW a \in Assets,
         \A b \in Assets \ {a} : SameLocals(b) /\ Dx(b)' = Dx(b),
         \A i \in Ids \ Claims(a) : Kept(i),
         \A i \in Claims(a)' : \A b \in Assets \ {a} : i \notin Claims(b),
         \A i \in Claims(a)' : Real(table'[i]) => table'[i].asset = a,
         UpToDate(a)',
         \A e \in emitted' : e.incident # None =>
           /\ Real(table'[e.incident]) => Has(table'[e.incident], e.action, e.dx)
           /\ LaneRecorded(a, e)'
           /\ \A b \in Assets \ {a} : LaneRecorded(b, e)
  PROVE  HistoryInv'
<1>1. ASSUME NEW b \in Assets \ {a}
      PROVE  /\ Claims(b)' = Claims(b)
             /\ UpToDate(b)'
             /\ \A i \in Claims(b) : Real(table'[i]) => table'[i].asset = b
             /\ \A e : LaneRecorded(b, e) => LaneRecorded(b, e)'
  <2>1. Claims(b) \subseteq Ids /\ Claims(b) \cap Claims(a) = {}
    BY DEF HistoryInv, OwnClaims, IssuedFirst, UniqueInv, TypeInv, TypeOK
  <2> QED BY <2>1, LaneFrame
<1>2. OwnClaims'
  <2>1. ASSUME NEW b \in Assets, NEW c \in Assets, b # c
        PROVE  Claims(b)' \cap Claims(c)' = {}
    <3>1. CASE b # a /\ c # a
      BY <1>1, <2>1, <3>1 DEF HistoryInv, OwnClaims
    <3> QED BY <1>1, <2>1, <3>1
  <2> QED BY <1>1, <2>1 DEF OwnClaims
<1>3. \A e \in emitted' : Recorded(e)'
  <2> SUFFICES ASSUME NEW e \in emitted', e.incident # None PROVE Recorded(e)'
    BY DEF Recorded
  <2> QED BY <1>1 DEF Recorded
<1>4. \A b \in Assets : UpToDate(b)'
  BY <1>1
<1> QED BY <1>2, <1>3, <1>4 DEF HistoryInv

\* Steps outside the lanes.
LEMMA OutsideHistory ==
  ASSUME HistoryInv, UniqueInv', [Next]_vars, UNCHANGED <<lane, issued, emitted>>,
         \A i \in Ids : Kept(i),
         \A i \in Ids : table[i] = None /\ (\A a \in Assets : ack[a] = "update" => i # target[a])
           => table'[i] = None,
         \A a \in Assets : ack'[a] = "update" => target'[a] \in issued
  PROVE  HistoryInv'
<1>1. ASSUME NEW b \in Assets
      PROVE  /\ Claims(b)' = Claims(b)
             /\ UpToDate(b)'
             /\ \A i \in Claims(b) : Real(table'[i]) => table'[i].asset = b
             /\ \A e : LaneRecorded(b, e) => LaneRecorded(b, e)'
  <2>1. Claims(b) \subseteq Ids
    BY DEF HistoryInv, IssuedFirst, UniqueInv, TypeInv, TypeOK
  <2>2. SameLocals(b) /\ Dx(b)' = Dx(b)
    BY DEF lane, SameLocals, Dx
  <2> QED BY <2>1, <2>2, LaneFrame
<1>2. IssuedFirst'
  BY <1>1 DEF HistoryInv, IssuedFirst
<1>3. OwnClaims'
  BY <1>1 DEF HistoryInv, OwnClaims
<1>4. \A e \in emitted' : Recorded(e)'
  <2> SUFFICES ASSUME NEW e \in emitted, e.incident # None PROVE Recorded(e)'
    BY DEF Recorded
  <2>1. Recorded(e) /\ e.incident \in Ids
    BY DEF HistoryInv, IssuedFirst, UniqueInv, TypeInv, TypeOK
  <2> QED BY <1>1, <2>1 DEF Recorded, Kept, Agrees, Has
<1> QED BY <1>1, <1>2, <1>3, <1>4 DEF HistoryInv

\* Operators, DynamoDB and time: an acknowledgement goes to an incident that
\* was stored when it was looked up.
LEMMA OperatorsHistory ==
  ASSUME HistoryInv, UniqueInv', [Next]_vars,
         (\E a \in Assets : Operator(a)) \/ (\E i \in Ids : Expire(i) \/ Propagate(i)) \/ Tick
  PROVE  HistoryInv'
<1>1. \A i \in Ids : index[i] # None => i \in issued
  BY DEF HistoryInv, UniqueInv, OneActiveInv, IssuedFirst
<1>2. \A b \in Assets : ack'[b] = "update" => target'[b] \in issued
  <2>1. CASE UNCHANGED <<ack, target>>
    BY <2>1 DEF HistoryInv, IssuedFirst
  <2>2. ASSUME NEW a \in Assets, Operator(a), ~UNCHANGED <<ack, target>>
        PROVE  \/ /\ target' = [target EXCEPT ![a] = target'[a]] /\ target'[a] \in issued
                  /\ ack' = [ack EXCEPT ![a] = "update"]
               \/ /\ target' \in {target, [target EXCEPT ![a] = None]}
                  /\ ack' \in {[ack EXCEPT ![a] = "escalated"], [ack EXCEPT ![a] = "idle"]}
    <3>1. target \in [Assets -> Ids \cup {None}]
      BY DEF HistoryInv, UniqueInv, TypeInv, TypeOK
    <3>2. ASSUME NEW i \in Indexed(a, "opened") \cup Indexed(a, "escalated"),
                 target' = [target EXCEPT ![a] = i]
          PROVE  target' = [target EXCEPT ![a] = target'[a]] /\ target'[a] \in issued
      BY <1>1, <3>1, <3>2 DEF Indexed
    <3> QED BY <2>2, <3>2
        DEF Operator, AckQueryOpened, AckQueryEscalated, AckUpdate, AckFails, ClearScan, ClearDelete
  <2>3. /\ target \in [Assets -> Ids \cup {None}]
        /\ ack \in [Assets -> {"idle", "escalated", "update"}]
        /\ \A b \in Assets : ack[b] = "update" => target[b] \in issued
    BY DEF HistoryInv, IssuedFirst, UniqueInv, TypeInv, TypeOK
  <2>4. CASE \E a \in Assets : Operator(a)
    <3>1. PICK a \in Assets : Operator(a)
      BY <2>4
    <3> QED BY <2>1, <2>2, <2>3, <3>1
  <2>5. CASE (\E i \in Ids : Expire(i) \/ Propagate(i)) \/ Tick
    BY <2>1, <2>5 DEF Expire, Propagate, Tick, operators
  <2> QED BY <2>4, <2>5
<1>3. TypeInv
  BY DEF HistoryInv, UniqueInv
<1> QED BY <1>2, <1>3, OutsideRows, OutsideHistory

\* A lane that leaves its record, or is handed a batch, has nothing in hand
\* that it did not have before.
LEMMA ForgetHistory ==
  ASSUME HistoryInv, UniqueInv', NEW a \in Assets,
         UNCHANGED <<table, issued, emitted, ack, target>>,
         \A b \in Assets \ {a} : SameLocals(b) /\ Dx(b)' = Dx(b),
         Reading(a)', found'[a] = {} \/ (Reading(a) /\ found'[a] = found[a])
  PROVE  HistoryInv'
<1>1. Claims(a)' \subseteq Claims(a) /\ \A b \in Assets \ {a} : Claims(b)' = Claims(b)
  BY DEF Claims, Reading, SameLocals
<1>2. IssuedFirst'
  BY <1>1 DEF HistoryInv, IssuedFirst
<1>3. \A i \in Ids : Kept(i)
  BY DEF Kept, Agrees
<1>4. UpToDate(a)'
  BY DEF HistoryInv, UpToDate, Reading
<1>5. \A e \in emitted : e.incident # None => LaneRecorded(a, e)'
  BY DEF HistoryInv, Recorded, LaneRecorded, Reading
<1>6. \A i \in Claims(a)' : /\ \A b \in Assets \ {a} : i \notin Claims(b)
                            /\ Real(table'[i]) => table'[i].asset = a
  BY <1>1 DEF HistoryInv, OwnClaims
<1> QED BY <1>2, <1>3, <1>4, <1>5, <1>6, LaneHistoryStep DEF HistoryInv, Recorded

\* Leaving a record or a batch forgets what was in hand.
LEMMA LeavingLocals ==
  ASSUME TypeInv, NEW a \in Assets, Checkpoint(a) \/ \E p \in Nat : EnterRecord(a, p)
  PROVE  /\ Reading(a)' /\ found'[a] = {}
         /\ \A b \in Assets \ {a} : SameLocals(b) /\ Dx(b)' = Dx(b)
BY DEF TypeInv, TypeOK, Checkpoint, FreshLocals, EnterRecord, SameLocals, Reading, Dx

\* Deliveries, commits, failed invocations and failed queries.
LEMMA QuietHistory ==
  ASSUME HistoryInv, UniqueInv', NEW a \in Assets,
         Deliver(a) \/ Commit(a) \/ FailInvocation(a) \/ QueryFails(a)
  PROVE  HistoryInv'
<1>1. UNCHANGED <<table, issued, emitted, ack, target>>
  BY DEF Deliver, Commit, FailInvocation, QueryFails, streams, operators
<1>0. TypeInv
  BY DEF HistoryInv, UniqueInv
<1>2. TypeInv /\ pos[a] + 1 \in Nat
  BY <1>0 DEF TypeInv, TypeOK
<1>3. CASE Deliver(a)
  <2>1. /\ Reading(a) /\ Reading(a)' /\ found' = found
        /\ \A b \in Assets \ {a} : SameLocals(b) /\ Dx(b)' = Dx(b)
    BY <1>2, <1>3 DEF Deliver, Reading, TypeInv, TypeOK, SameLocals, Dx
  <2> QED BY <1>1, <2>1, ForgetHistory
<1>4. CASE Checkpoint(a) \/ \E p \in Nat : EnterRecord(a, p)
  BY <1>1, <1>2, <1>4, LeavingLocals, ForgetHistory
<1> QED BY <1>2, <1>3, <1>4 DEF Commit, FailInvocation, QueryFails, NextRecord

\* The published action is the recorded one.
LEMMA EmitHistory ==
  ASSUME HistoryInv, UniqueInv', NEW a \in Assets, Emit(a)
  PROVE  HistoryInv'
<1>0. TypeInv
  BY DEF HistoryInv, UniqueInv
<1>1. /\ UNCHANGED <<table, issued, ack, target>> /\ pc[a] = "emit"
      /\ emitted' \subseteq emitted \cup {ActionEvent(a)}
      /\ TypeInv /\ pos[a] + 1 \in Nat
  BY <1>0 DEF Emit, operators, TypeInv, TypeOK
<1>2. /\ Reading(a)' /\ found'[a] = {}
      /\ \A b \in Assets \ {a} : SameLocals(b) /\ Dx(b)' = Dx(b)
  BY <1>1, LeavingLocals DEF Emit, NextRecord
<1>3. Claims(a)' = {} /\ \A b \in Assets \ {a} : Claims(b)' = Claims(b)
  BY <1>2 DEF Claims, Reading, SameLocals
<1> DEFINE e0 == ActionEvent(a)
<1>4. ASSUME e0.incident # None
      PROVE  /\ e0.incident \in Claims(a)
             /\ Real(table[e0.incident]) => Has(table[e0.incident], e0.action, e0.dx)
  <2>1. plan[a].subject # None /\ e0.incident = plan[a].subject.id
        /\ e0.action = plan[a].action /\ e0.dx = Dx(a)
    BY <1>4 DEF ActionEvent
  <2> QED BY <1>1, <2>1 DEF Claims, Reading, HistoryInv, UpToDate
<1> HIDE DEF e0
<1>5. IssuedFirst'
  BY <1>1, <1>3, <1>4 DEF HistoryInv, IssuedFirst, e0
<1>6. \A i \in Ids : Kept(i)
  BY <1>1 DEF Kept, Agrees
<1>7. UpToDate(a)' /\ \A e : LaneRecorded(a, e)'
  BY <1>2 DEF UpToDate, LaneRecorded, Reading
<1>8. ASSUME NEW e \in emitted', e.incident # None
      PROVE  /\ Real(table[e.incident]) => Has(table[e.incident], e.action, e.dx)
             /\ \A b \in Assets \ {a} : LaneRecorded(b, e)
  <2>1. CASE e \in emitted
    BY <1>8, <2>1 DEF HistoryInv, Recorded
  <2>2. CASE e = e0
    <3>1. ASSUME NEW b \in Assets \ {a} PROVE e.incident \notin Claims(b)
      BY <1>4, <1>8, <2>2 DEF HistoryInv, OwnClaims
    <3>2. ASSUME NEW b \in Assets \ {a}, pc[b] = "save" PROVE plan[b].subject.id \in Claims(b)
      BY <3>2, RulesAssumption
      DEF RulesAssumption, HistoryInv, UniqueInv, TypeInv, LocalsOK, Claims, Reading, Row
    <3>3. ASSUME NEW b \in Assets \ {a}, Reading(b), NEW r \in found[b] PROVE r.id \in Claims(b)
      BY <3>3 DEF Claims
    <3> QED BY <1>4, <1>8, <2>2, <3>1, <3>2, <3>3 DEF LaneRecorded
  <2> QED BY <1>1, <2>1, <2>2 DEF e0
<1> QED BY <1>1, <1>2, <1>3, <1>5, <1>6, <1>7, <1>8, LaneHistoryStep

\* A query that returns brings the rows as they are stored.
LEMMA QueryHistory ==
  ASSUME HistoryInv, UniqueInv', NEW a \in Assets, NEW status \in ActiveStatuses,
         QueryByStatus(a, status)
  PROVE  HistoryInv'
<1> DEFINE rows == {index[i] : i \in {j \in Ids : /\ index[j] # None
                                                  /\ index[j].asset = a
                                                  /\ index[j].status = status}}
<1>0. TypeInv /\ index = table /\ KeyedById
  BY DEF HistoryInv, UniqueInv, OneActiveInv
<1>1. /\ found'[a] = found[a] \cup rows /\ Reading(a) /\ Reading(a)'
      /\ UNCHANGED <<table, issued, emitted, ack, target>>
      /\ \A b \in Assets \ {a} : SameLocals(b) /\ Dx(b)' = Dx(b)
  BY <1>0 DEF QueryByStatus, TypeInv, TypeOK, SameLocals, Reading, Dx, streams, operators
<1>2. \A r \in rows : /\ r.id \in Ids /\ table[r.id] = r /\ Real(r) /\ r.asset = a
                      /\ r.id \in issued
  BY <1>0, RulesAssumption
  DEF RulesAssumption, Statuses, KeyedById, Real, HistoryInv, IssuedFirst
<1> HIDE DEF rows
<1>3. Claims(a)' = Claims(a) \cup {r.id : r \in rows}
      /\ \A b \in Assets \ {a} : Claims(b)' = Claims(b)
  BY <1>1 DEF Claims, Reading, SameLocals
<1>4. IssuedFirst'
  BY <1>1, <1>2, <1>3 DEF HistoryInv, IssuedFirst
<1>5. \A i \in Ids : Kept(i)
  BY <1>1 DEF Kept, Agrees
<1>6. ASSUME NEW i \in Claims(a)'
      PROVE  /\ \A b \in Assets \ {a} : i \notin Claims(b)
             /\ Real(table[i]) => table[i].asset = a
  BY <1>2, <1>3 DEF HistoryInv, OwnClaims
<1>7. UpToDate(a)'
  BY <1>1, <1>2 DEF HistoryInv, UpToDate, Reading, Agrees
<1>8. ASSUME NEW e \in emitted, e.incident # None PROVE LaneRecorded(a, e)'
  BY <1>1, <1>2, <1>8 DEF HistoryInv, Recorded, LaneRecorded, Reading
<1> QED BY <1>1, <1>4, <1>5, <1>6, <1>7, <1>8, LaneHistoryStep DEF HistoryInv, Recorded

\* What the rules make of a record is built upon it.
LEMMA UpdatedIncidentAdvances ==
  ASSUME NEW r \in Incident, NEW severity \in Severities, NEW action \in ActionTypes,
         NEW now \in Nat, NEW dx \in Nat
  PROVE  LET u == UpdatedIncident(r, severity, action, now, dx)
         IN  /\ Advances(r, u) /\ Has(u, action, dx)
             /\ \A x, n : Has(r, x, n) => Has(u, x, n)
<1> DEFINE u == UpdatedIncident(r, severity, action, now, dx)
           entry == [action |-> action, dx |-> dx]
<1>1. /\ u.history = Append(r.history, entry)
      /\ u.severity = UpgradeSeverity(r.severity, severity)
      /\ r.history \in Seq(HistoryEntry) /\ r.severity \in Severities
      /\ entry \in HistoryEntry
  BY DEF UpdatedIncident, Incident, HistoryEntry
<1> HIDE DEF u, entry
<1>2. Rank(u.severity) >= Rank(r.severity)
  BY <1>1 DEF UpgradeSeverity, Rank, Severities
<1>3. /\ Len(u.history) = Len(r.history) + 1 /\ Len(r.history) \in Nat
      /\ \A k \in 1..Len(r.history) : u.history[k] = r.history[k]
      /\ u.history[Len(r.history) + 1] = entry
  BY <1>1
<1>4. r.history = SubSeq(u.history, 1, Len(r.history))
  BY <1>1, <1>3
<1> QED BY <1>2, <1>3, <1>4 DEF Advances, Has, u, entry

\* An incident to be created has an id nobody knows; one to be updated was in
\* hand already.
LEMMA EvaluateHistory ==
  ASSUME HistoryInv, UniqueInv', NEW a \in Assets, Evaluate(a)
  PROVE  HistoryInv'
<1> DEFINE sev == Severity(a)
           action(existing) == RuleAction(sev, existing, clock)
           new(i, existing) == NewIncident(i, a, sev, action(existing), clock, Dx(a))
           updated(existing) == UpdatedIncident(existing, sev, action(existing), clock, Dx(a))
           Decide(existing, subject) ==
             plan' = [plan EXCEPT ![a] = [action |-> action(existing), subject |-> subject]]
<1>0. TypeInv
  BY DEF HistoryInv, UniqueInv
<1>1. /\ pc[a] = "find" /\ Reading(a) /\ sev \in Severities /\ Dx(a) \in Nat /\ clock \in Nat
  BY <1>0, LaneFacts DEF Evaluate, TypeInv, TypeOK, Reading
<1>2. PICK existing \in MostRecent(found[a]) :
        /\ \/ /\ RuleOperation(sev, existing) = "create"
              /\ \E i \in FreshId : issued' = issued \cup {i} /\ Decide(existing, new(i, existing))
           \/ /\ RuleOperation(sev, existing) = "update"
              /\ Decide(existing, updated(existing))
              /\ UNCHANGED issued
           \/ /\ RuleOperation(sev, existing) = "none"
              /\ Decide(existing, existing)
              /\ UNCHANGED issued
        /\ pc' = [pc EXCEPT ![a] = IF RuleOperation(sev, existing) = "none" THEN "emit" ELSE "save"]
  BY DEF Evaluate, NextCall
<1>3. /\ UNCHANGED <<table, emitted, ack, target, seen, pos, found>>
      /\ \A b \in Assets \ {a} : SameLocals(b) /\ Dx(b)' = Dx(b)
      /\ Dx(a)' = Dx(a) /\ ~Reading(a)'
  BY <1>0, <1>2 DEF Evaluate, TypeInv, TypeOK, SameLocals, Dx, streams, operators, Reading
<1> HIDE DEF sev
<1>4. \A i \in Ids : Kept(i)
  BY <1>3 DEF Kept, Agrees
<1>5. existing # None =>
        existing \in found[a] /\ existing \in Incident /\ existing.id \in Claims(a)
  BY <1>0, <1>1, <1>2, MostRecentSound DEF TypeInv, TypeOK, Claims
<1>6. \A b \in Assets \ {a} : Claims(b)' = Claims(b)
  BY <1>3 DEF Claims, Reading, SameLocals
\* What the step needs of the plan, whatever the operation.
<1> DEFINE subject == plan'[a].subject
<1>7. ASSUME /\ issued \subseteq issued'
             /\ subject = None => pc'[a] = "emit"
             /\ subject # None =>
                  /\ pc'[a] = "save"
                  /\ subject.id \in issued' /\ subject.id \in Ids
                  /\ \A b \in Assets \ {a} : subject.id \notin Claims(b)
                  /\ Real(table[subject.id]) =>
                       table[subject.id].asset = a /\ Advances(table[subject.id], subject)
                  /\ Has(subject, plan'[a].action, Dx(a))
                  /\ \A e \in emitted : e.incident = subject.id => Has(subject, e.action, e.dx)
      PROVE  HistoryInv'
  <2>1. Claims(a)' = {s.id : s \in {subject} \ {None}}
    BY <1>3 DEF Claims
  <2> HIDE DEF subject
  <2>2. IssuedFirst'
    BY <1>3, <1>6, <1>7, <2>1 DEF HistoryInv, IssuedFirst
  <2>3. UpToDate(a)'
    BY <1>3, <1>7 DEF UpToDate, subject
  <2>4. ASSUME NEW e \in emitted, e.incident # None PROVE LaneRecorded(a, e)'
    BY <1>3, <1>7, <2>4, RulesAssumption
    DEF LaneRecorded, subject, UniqueInv, TypeInv, LocalsOK, Row, RulesAssumption
  <2>5. \A i \in Claims(a)' : /\ \A b \in Assets \ {a} : i \notin Claims(b)
                              /\ Real(table'[i]) => table'[i].asset = a
    BY <1>3, <1>7, <2>1
  <2> QED BY <1>3, <1>4, <2>2, <2>3, <2>4, <2>5, LaneHistoryStep DEF HistoryInv, Recorded
<1>8. plan \in [Assets -> Plan \cup {None}] /\ pc \in [Assets -> {"idle", "find", "save", "emit", "done"}]
  BY <1>0 DEF TypeInv, TypeOK
<1>9. CASE RuleOperation(sev, existing) = "create"
  <2>1. PICK i \in FreshId : issued' = issued \cup {i} /\ Decide(existing, new(i, existing))
    BY <1>2, <1>9
  <2>2. i \in Ids \ issued
    BY <2>1, FreshIdIsNew
  <2>3. /\ subject = new(i, existing) /\ plan'[a].action = action(existing)
        /\ pc'[a] = "save" /\ subject.id = i
        /\ subject.history = <<[action |-> action(existing), dx |-> Dx(a)]>>
    BY <1>2, <1>8, <1>9, <2>1 DEF NewIncident
  <2>4. Has(subject, plan'[a].action, Dx(a))
    BY <2>3 DEF Has
  <2>5. /\ table[i] = None /\ \A b \in Assets : i \notin Claims(b)
        /\ \A e \in emitted : e.incident # i
    BY <2>2, RulesAssumption DEF HistoryInv, IssuedFirst, RulesAssumption
  <2>6. subject # None
    <3>1. existing = None /\ action(existing) \in ActionTypes
      BY <1>1, <1>9, RuleActionType DEF RuleOperation
    <3> QED BY <1>1, <2>2, <2>3, <3>1, NewIncidentType, RulesAssumption DEF RulesAssumption, Row
  <2> HIDE DEF subject
  <2> QED BY <1>7, <2>1, <2>2, <2>3, <2>4, <2>5, <2>6 DEF Real
<1>10. CASE RuleOperation(sev, existing) = "update"
  <2>1. existing # None
    BY <1>1, <1>10 DEF RuleOperation, Severities
  <2>2. existing \in Incident /\ action(existing) \in ActionTypes
    BY <1>1, <1>5, <2>1, RuleActionType
  <2>3. /\ subject = updated(existing) /\ plan'[a].action = action(existing)
        /\ pc'[a] = "save" /\ issued' = issued
    BY <1>2, <1>8, <1>10
  <2>4. /\ subject.id = existing.id /\ subject \in Incident
        /\ Advances(existing, subject) /\ Has(subject, plan'[a].action, Dx(a))
        /\ \A x, n : Has(existing, x, n) => Has(subject, x, n)
    BY <1>1, <2>2, <2>3, UpdatedIncidentType, UpdatedIncidentAdvances
  <2>5. existing.id \in Claims(a) /\ existing.id \in Ids
    BY <1>5, <2>1, <2>2 DEF Incident
  <2>6. ASSUME Real(table[existing.id])
        PROVE  table[existing.id].asset = a /\ Advances(table[existing.id], subject)
    <3>1. Agrees(table[existing.id], existing)
      BY <1>1, <1>5, <2>1, <2>6 DEF HistoryInv, UpToDate
    <3> QED BY <2>4, <2>5, <2>6, <3>1 DEF HistoryInv, OwnClaims, Agrees, Advances
  <2>7. \A e \in emitted : e.incident = existing.id => Has(subject, e.action, e.dx)
    <3> SUFFICES ASSUME NEW e \in emitted, e.incident = existing.id
                 PROVE  Has(existing, e.action, e.dx)
      BY <2>4
    <3>1. Recorded(e) /\ e.incident # None
      BY <2>5, RulesAssumption DEF HistoryInv, RulesAssumption
    <3> QED BY <1>1, <1>5, <2>1, <3>1 DEF Recorded, LaneRecorded
  <2>8. \A b \in Assets \ {a} : existing.id \notin Claims(b)
    BY <2>5 DEF HistoryInv, OwnClaims
  <2>9. existing.id \in issued /\ subject # None
    BY <2>4, <2>5, RulesAssumption DEF HistoryInv, IssuedFirst, RulesAssumption, Row
  <2> HIDE DEF subject
  <2> QED BY <1>7, <2>3, <2>4, <2>5, <2>6, <2>7, <2>8, <2>9
<1>11. CASE RuleOperation(sev, existing) = "none"
  <2>1. existing = None
    BY <1>1, <1>11 DEF RuleOperation, Severities
  <2>2. subject = None /\ pc'[a] = "emit" /\ issued' = issued
    BY <1>2, <1>8, <1>11, <2>1
  <2> HIDE DEF subject
  <2> QED BY <1>7, <2>2
<1> QED BY <1>2, <1>9, <1>10, <1>11

\* The Put: whatever row the record overwrites, it was built upon it.
LEMMA PutHistory ==
  ASSUME HistoryInv, UniqueInv', NEW a \in Assets, Save(a) \/ SaveFails(a)
  PROVE  HistoryInv'
<1> DEFINE s == plan[a].subject
<1>1. TypeInv /\ UniqueInv /\ UpToDate(a)
  BY DEF HistoryInv, UniqueInv
<1>2. pc[a] = "save" /\ UNCHANGED <<issued, emitted, ack, target>>
  BY DEF Save, SaveFails, streams, operators
<1>3. pos[a] + 1 \in Nat
  BY <1>1 DEF TypeInv, TypeOK
<1>4. s \in Incident /\ s.asset = a
  BY <1>1, <1>2 DEF TypeInv, LocalsOK, UniqueInv, OneActiveInv, PlanIsActive
<1>5. /\ pc[a] = "save" /\ s \in Incident /\ s.id \in Ids /\ s.asset = a /\ s # None
      /\ UNCHANGED <<issued, emitted, ack, target>> /\ pos[a] + 1 \in Nat
  BY <1>2, <1>3, <1>4, RulesAssumption DEF Incident, Row, RulesAssumption
<1>6. Claims(a) = {s.id} /\ ~Reading(a)
  BY <1>5 DEF Claims, Reading
<1>7. /\ \A b \in Assets \ {a} : SameLocals(b) /\ Dx(b)' = Dx(b)
      /\ \/ pc'[a] = "emit" /\ plan' = plan /\ Dx(a)' = Dx(a)
         \/ Reading(a)' /\ found'[a] = {}
  <2>1. CASE Save(a)
    BY <1>1, <2>1 DEF Save, TypeInv, TypeOK, SameLocals, Dx
  <2>2. CASE SaveFails(a)
    BY <1>1, <1>5, <2>2, LeavingLocals DEF SaveFails, NextRecord
  <2> QED BY <2>1, <2>2
<1>8. CASE SaveFails(a) /\ UNCHANGED table
  <2>1. Reading(a)' /\ found'[a] = {}
    BY <1>1, <1>5, <1>8, LeavingLocals DEF SaveFails, NextRecord
  <2> QED BY <1>5, <1>7, <1>8, <2>1, ForgetHistory
<1>9. CASE Store([table EXCEPT ![s.id] = s])
  <2>1. table'[s.id] = s /\ \A i \in Ids \ {s.id} : table'[i] = table[i]
    BY <1>1, <1>5, <1>9 DEF Store, TypeInv, TypeOK
  <2> HIDE DEF s
  <2>2. \A i \in Ids \ Claims(a) : Kept(i)
    BY <1>6, <2>1 DEF Kept, Agrees
  <2>3. Claims(a)' \subseteq {s.id} /\ \A b \in Assets \ {a} : Claims(b)' = Claims(b)
    BY <1>7 DEF Claims, Reading, SameLocals, s
  <2>4. IssuedFirst'
    BY <1>5, <1>6, <2>1, <2>3 DEF HistoryInv, IssuedFirst
  <2>5. \A i \in Claims(a)' : /\ \A b \in Assets \ {a} : i \notin Claims(b)
                              /\ Real(table'[i]) => table'[i].asset = a
    BY <1>5, <1>6, <2>1, <2>3 DEF HistoryInv, OwnClaims
  <2>6. UpToDate(a)'
    BY <1>1, <1>5, <1>7, <2>1 DEF UpToDate, Reading, s
  <2>7. ASSUME NEW e \in emitted, e.incident # None
        PROVE  /\ Real(table'[e.incident]) => Has(table'[e.incident], e.action, e.dx)
               /\ LaneRecorded(a, e)'
    <3>1. Recorded(e) /\ e.incident \in Ids
      BY <1>1, <2>7 DEF HistoryInv, IssuedFirst, TypeInv, TypeOK
    <3>2. LaneRecorded(a, e)'
      BY <1>7 DEF LaneRecorded, Reading
    <3> QED BY <1>5, <2>1, <2>7, <3>1, <3>2 DEF Recorded, LaneRecorded, s
  <2> QED BY <1>5, <1>7, <2>2, <2>4, <2>5, <2>6, <2>7, LaneHistoryStep DEF HistoryInv, Recorded
<1> QED BY <1>8, <1>9 DEF Save, SaveFails

\* Every step keeps the inductive invariant.
LEMMA HistoryStep == ASSUME ~IndexLag PROVE HistoryInv /\ [Next]_vars => HistoryInv'
<1> SUFFICES ASSUME HistoryInv, [Next]_vars PROVE HistoryInv'
  OBVIOUS
<1>1. UniqueInv'
  BY UniqueStep DEF HistoryInv
<1>2. CASE UNCHANGED vars
  <2>1. UNCHANGED <<lane, issued, emitted, table, ack, target>>
    BY <1>2 DEF vars, streams, operators
  <2>2. \A i \in Ids : Kept(i)
    BY <2>1 DEF Kept, Agrees
  <2> QED BY <1>1, <1>2, <2>1, <2>2, OutsideHistory DEF HistoryInv, IssuedFirst
<1>3. ASSUME NEW a \in Assets, Deliver(a) \/ Work(a) \/ Fault(a) PROVE HistoryInv'
  BY <1>1, <1>3, QuietHistory, QueryHistory, EvaluateHistory, PutHistory, EmitHistory DEF Work, Fault
<1> QED BY <1>1, <1>2, <1>3, OperatorsHistory DEF Next

\* The first state has nothing recorded and nothing in hand.
LEMMA HistoryInit == Init => HistoryInv
<1> SUFFICES ASSUME Init PROVE HistoryInv
  OBVIOUS
<1>1. UniqueInv
  BY DEF Init, UniqueInv, TypeInv, TypeOK, LocalsOK, OneActiveInv, OneActiveIncident, KeyedById,
         ActiveIds, Active, FoundIsActive
<1>2. \A a \in Assets : Claims(a) = {} /\ Reading(a) /\ found[a] = {}
  BY DEF Init, Claims, Reading
<1> QED BY <1>1, <1>2
    DEF Init, HistoryInv, IssuedFirst, OwnClaims, UpToDate, Reading

\* A published action can be found in the history of the incident it names, in
\* every reachable state, for any number of assets, retries and faults: neither
\* a redelivered batch nor an operator makes a lane write back a copy without
\* the entry.
THEOREM ActionsRecorded == ASSUME ~IndexLag PROVE Spec => []EmittedIsRecorded
<1>1. HistoryInv => EmittedIsRecorded
  BY DEF HistoryInv, Recorded, Has, EmittedIsRecorded
<1> QED BY <1>1, HistoryInit, HistoryStep, PTL DEF Spec

\* Every write of a row builds upon the row it replaces.
LEMMA RowsAdvance ==
  ASSUME HistoryInv, [Next]_vars, NEW i \in Ids, Real(table[i]), Real(table'[i])
  PROVE  Advances(table[i], table'[i])
<1>0. TypeInv
  BY DEF HistoryInv, UniqueInv
<1>1. ASSUME Kept(i) PROVE Advances(table[i], table'[i])
  <2>1. table[i] \in Incident /\ Agrees(table'[i], table[i])
    BY <1>0, <1>1, RealIsIncident DEF TypeInv, TypeOK, Kept
  <2>2. /\ table'[i].severity = table[i].severity /\ table'[i].history = table[i].history
        /\ table[i].severity \in Severities /\ table[i].history \in Seq(HistoryEntry)
    BY <2>1 DEF Agrees, Incident
  <2>3. table[i].history = SubSeq(table[i].history, 1, Len(table[i].history))
    BY <2>2
  <2>4. Rank(table[i].severity) \in Nat /\ Len(table[i].history) \in Nat
    BY <2>2 DEF Rank, Severities
  <2> QED BY <2>2, <2>3, <2>4 DEF Advances
<1>2. CASE UNCHANGED vars
  BY <1>1, <1>2 DEF vars, Kept, Agrees
<1>3. ASSUME NEW a \in Assets, Save(a) \/ SaveFails(a) PROVE Advances(table[i], table'[i])
  <2>1. CASE UNCHANGED table
    BY <1>1, <2>1 DEF Kept, Agrees
  <2>2. CASE Store([table EXCEPT ![plan[a].subject.id] = plan[a].subject])
    <3>1. CASE i = plan[a].subject.id
      BY <1>0, <1>3, <2>2, <3>1 DEF Store, TypeInv, TypeOK, Save, SaveFails, HistoryInv, UpToDate
    <3>2. CASE i # plan[a].subject.id
      BY <1>0, <1>1, <2>2, <3>2 DEF Store, TypeInv, TypeOK, Kept, Agrees
    <3> QED BY <3>1, <3>2
  <2> QED BY <1>3, <2>1, <2>2 DEF Save, SaveFails
<1>4. ASSUME NEW a \in Assets, Deliver(a) \/ Work(a) \/ Fault(a), ~Save(a), ~SaveFails(a)
      PROVE  Advances(table[i], table'[i])
  <2>1. UNCHANGED table
    BY <1>4 DEF Work, Fault, Deliver, QueryByStatus, Evaluate, Emit, Commit, QueryFails, FailInvocation
  <2> QED BY <1>1, <2>1 DEF Kept, Agrees
<1>5. CASE (\E a \in Assets : Operator(a)) \/ (\E j \in Ids : Expire(j) \/ Propagate(j)) \/ Tick
  BY <1>0, <1>1, <1>5, OutsideRows
<1> QED BY <1>2, <1>3, <1>4, <1>5 DEF Next

\* No step lowers the severity of a stored incident, whatever its writer had
\* read when the row was last written.
THEOREM SeverityOnlyRises == ASSUME ~IndexLag PROVE Spec => SeverityNeverDowngrades
<1>1. HistoryInv /\ [Next]_vars =>
        [\A i \in Ids : Real(table[i]) /\ Real(table'[i])
           => Rank(table'[i].severity) >= Rank(table[i].severity)]_vars
  BY RowsAdvance DEF Advances
<1> QED BY <1>1, HistoryInit, HistoryStep, PTL DEF Spec, SeverityNeverDowngrades

\* No step drops an entry from the history of a stored incident.
THEOREM HistoryOnlyGrows == ASSUME ~IndexLag PROVE Spec => HistoryIsAppendOnly
<1>1. HistoryInv /\ [Next]_vars =>
        [\A i \in Ids : Real(table[i]) /\ Real(table'[i])
           => \E n \in 0..Len(table'[i].history) :
                table[i].history = SubSeq(table'[i].history, 1, n)]_vars
  BY RowsAdvance DEF Advances
<1> QED BY <1>1, HistoryInit, HistoryStep, PTL DEF Spec, HistoryIsAppendOnly

(***************************************************************************)
(* The Actions Agent implements IncidentLifecycle, if the index does not   *)
(* lag and nobody clears the table.                                        *)
(***************************************************************************)

\* What an update makes of the status and the severity of an active incident.
Develops(old, new) ==
  \/ new.status = old.status /\ new.severity = old.severity
  \/ new.status = "escalated" /\ new.severity \in {old.severity, "critical"}
  \/ new.status = "resolved" /\ new.severity = old.severity

\* What a lane has found is active, and stays so until the lane writes; what it
\* writes is a next stage of what is stored, or a new incident.
Follows(a) ==
  /\ Reading(a) => \A r \in found[a] : Active(table[r.id])
  /\ pc[a] = "save" =>
       IF Real(table[plan[a].subject.id])
         THEN /\ Active(table[plan[a].subject.id])
              /\ Develops(table[plan[a].subject.id], plan[a].subject)
         ELSE <<plan[a].subject.status, plan[a].subject.severity>> \in
                {<<"opened", "warning">>, <<"escalated", "critical">>}

\* The inductive invariant.
LifeInv ==
  /\ HistoryInv /\ StampsInv
  /\ \A a \in Assets : clear[a] = {} /\ Follows(a)

\* To the life cycle nothing happens to the incident, or it was resolved and is gone.
Stays(i) ==
  \/ (Real(table'[i]) <=> Real(table[i])) /\ (Real(table[i]) => Agrees(table'[i], table[i]))
  \/ Real(table[i]) /\ ~Active(table[i]) /\ table'[i] = None

\* An active row is an incident.
LEMMA ActiveIsReal == ASSUME NEW row, Active(row) PROVE Real(row)
BY RulesAssumption DEF Active, Real, RulesAssumption, Statuses

\* A lane that does not move still follows the life cycle.
LEMMA FollowsFrame ==
  ASSUME LifeInv, NEW b \in Assets, SameLocals(b), \A i \in Claims(b) : Stays(i)
  PROVE  Follows(b)'
<1>1. Follows(b) /\ TypeInv
  BY DEF LifeInv, HistoryInv, UniqueInv
<1>2. ASSUME NEW i \in Claims(b), Active(table[i])
      PROVE  Active(table'[i]) /\ Real(table'[i]) /\ Agrees(table'[i], table[i])
  BY <1>2, ActiveIsReal DEF Stays, Active, Agrees, Real
<1>3. ASSUME Reading(b)', NEW r \in found'[b] PROVE Active(table'[r.id])
  <2>1. r.id \in Claims(b) /\ Active(table[r.id])
    BY <1>1, <1>3 DEF Follows, Reading, SameLocals, Claims
  <2> QED BY <1>2, <2>1
<1>4. ASSUME pc'[b] = "save"
      PROVE  LET s == plan'[b].subject
             IN  IF Real(table'[s.id]) THEN Active(table'[s.id]) /\ Develops(table'[s.id], s)
                 ELSE <<s.status, s.severity>> \in {<<"opened", "warning">>, <<"escalated", "critical">>}
  <2> DEFINE s == plan[b].subject
  <2>1. pc[b] = "save" /\ plan'[b] = plan[b] /\ s.id \in Claims(b)
    BY <1>1, <1>4, RulesAssumption
    DEF SameLocals, RulesAssumption, TypeInv, LocalsOK, Claims, Reading, Row
  <2> HIDE DEF s
  <2>2. CASE Real(table[s.id])
    <3>1. Active(table[s.id]) /\ Develops(table[s.id], s)
      BY <1>1, <2>1, <2>2 DEF Follows, s
    <3> QED BY <1>2, <2>1, <3>1 DEF Develops, Agrees, s
  <2>3. CASE ~Real(table[s.id])
    <3>1. ~Real(table'[s.id])
      BY <2>1, <2>3 DEF Stays
    <3> QED BY <1>1, <2>1, <2>3, <3>1 DEF Follows, s
  <2> QED BY <2>2, <2>3
<1> QED BY <1>3, <1>4 DEF Follows

\* To the life cycle an acknowledgement is nothing, also of a deleted incident.
LEMMA AcknowledgeStays ==
  ASSUME TypeInv, NEW a \in Assets, ack[a] = "update", AcknowledgeIncident(target[a]),
         NEW j \in Ids
  PROVE  /\ Real(table'[j]) <=> Real(table[j])
         /\ Real(table[j]) => Agrees(table'[j], table[j])
<1> DEFINE i == target[a]
           new == IF table[i] = None THEN GhostRow(i, clock)
                  ELSE [table[i] EXCEPT !.acknowledgedAt = clock]
<1>1. i \in Ids /\ table \in [Ids -> Row \cup {None}] /\ table' = [table EXCEPT ![i] = new]
  BY DEF AcknowledgeIncident, Store, TypeInv, TypeOK, LocalsOK
<1>2. CASE table[i] = None
  BY <1>1, <1>2 DEF Real, GhostRow, Agrees
<1>3. CASE table[i] \in Incident
  <2>1. new \in Incident /\ new.asset = table[i].asset /\ new.status = table[i].status
        /\ new.severity = table[i].severity /\ new.history = table[i].history
    <3>1. clock \in Nat /\ table[i] # None
      BY <1>3, RulesAssumption DEF TypeInv, TypeOK, RulesAssumption, Row
    <3> QED BY <1>3, <3>1 DEF Incident
  <2>2. Real(new) /\ Real(table[i])
    BY <1>3, <2>1, RulesAssumption DEF Real, RulesAssumption, Row, Incident
  <2> HIDE DEF new
  <2> QED BY <1>1, <2>1, <2>2 DEF Agrees
<1>4. CASE table[i] \in Ghost
  <2>1. table[i] # None
    BY <1>4, RulesAssumption DEF RulesAssumption, Row
  <2>2. ~Real(new) /\ ~Real(table[i])
    BY <1>4, <2>1 DEF Real, Ghost
  <2> HIDE DEF new
  <2> QED BY <1>1, <2>2 DEF Agrees
<1> QED BY <1>1, <1>2, <1>3, <1>4 DEF Row

\* Only resolved incidents expire.
LEMMA ExpireResolved ==
  ASSUME StampsInv, NEW i \in Ids, Expire(i)
  PROVE  /\ Real(table[i]) /\ table[i].status = "resolved" /\ ~Active(table[i])
         /\ table' = [table EXCEPT ![i] = None]
<1>1. table[i] # None /\ table[i].expiresAt # None /\ TypeInv
  BY DEF Expire, StampsInv
<1>2. table[i] \in Incident
  BY <1>1 DEF TypeInv, TypeOK, Row, Ghost
<1>3. Real(table[i])
  BY <1>1, <1>2, RulesAssumption DEF Real, Incident, RulesAssumption
<1>4. table[i].status = "resolved"
  BY <1>1, <1>3 DEF StampsInv, RowsSound, Sound, StampsOK
<1> QED BY <1>3, <1>4 DEF Expire, Store, Active, ActiveStatuses

\* Steps outside the lanes, without a clean-up: an incident expires, or
\* nothing happens to any.
LEMMA OutsideLife ==
  ASSUME LifeInv, "clear" \notin Requests,
         (\E a \in Assets : Operator(a)) \/ (\E i \in Ids : Expire(i) \/ Propagate(i)) \/ Tick
  PROVE  /\ UNCHANGED <<lane, clear>>
         /\ \A i \in Ids : Stays(i)
         /\ \/ \E i \in Ids : Expire(i)
            \/ \A i \in Ids : /\ Real(table'[i]) <=> Real(table[i])
                              /\ Real(table[i]) => Agrees(table'[i], table[i])
<1>1. TypeInv /\ StampsInv
  BY DEF LifeInv, StampsInv
<1>2. CASE UNCHANGED <<table, lane, clear>>
  BY <1>2 DEF Stays, Agrees
<1>3. ASSUME NEW a \in Assets, AckUpdate(a) \/ (AckFails(a) /\ ~UNCHANGED table)
      PROVE  UNCHANGED <<lane, clear>> /\ ack[a] = "update" /\ AcknowledgeIncident(target[a])
  BY <1>3 DEF AckUpdate, AckFails
<1>4. CASE \E a \in Assets : AckUpdate(a) \/ (AckFails(a) /\ ~UNCHANGED table)
  BY <1>1, <1>3, <1>4, AcknowledgeStays DEF Stays
<1>5. CASE \E i \in Ids : Expire(i)
  <2>1. PICK i \in Ids : Expire(i)
    BY <1>5
  <2>2. /\ Real(table[i]) /\ ~Active(table[i]) /\ table'[i] = None
        /\ \A j \in Ids \ {i} : table'[j] = table[j]
    BY <1>1, <2>1, ExpireResolved DEF TypeInv, TypeOK
  <2>3. UNCHANGED <<lane, clear>>
    BY <2>1 DEF Expire, operators
  <2> QED BY <2>1, <2>2, <2>3 DEF Stays, Agrees
<1>6. ASSUME NEW a \in Assets PROVE ~ClearScan(a) /\ ~ClearDelete(a)
  BY DEF ClearScan, ClearDelete, LifeInv
<1> QED BY <1>2, <1>4, <1>5, <1>6
    DEF Operator, AckQueryOpened, AckQueryEscalated, AckFails, Propagate, Tick, operators

\* The rules take an active record to a next stage of the life cycle.
LEMMA UpdatedIncidentDevelops ==
  ASSUME NEW r \in Incident, r.status \in ActiveStatuses, r.severity # "info",
         NEW severity \in Severities, NEW now \in Nat, NEW dx \in Nat
  PROVE  Develops(r, UpdatedIncident(r, severity, RuleAction(severity, r, now), now, dx))
<1> DEFINE action == RuleAction(severity, r, now)
           u == UpdatedIncident(r, severity, action, now, dx)
<1>1. /\ u.severity = UpgradeSeverity(r.severity, severity)
      /\ u.status = NextStatus(action, r.status)
      /\ r.severity \in {"warning", "critical"} /\ r # None
  BY RulesAssumption DEF UpdatedIncident, Incident, Severities, RulesAssumption, Row
<1>2. /\ severity = "critical" => action = "shutdown_recommended"
      /\ severity = "warning" => action \in {"throttle", "monitor"}
      /\ severity = "info" => action = "resolve"
  BY <1>1 DEF RuleAction
<1>3. /\ severity = "critical" => u.severity = "critical"
      /\ severity \in {"info", "warning"} => u.severity = r.severity
  BY <1>1 DEF UpgradeSeverity, Rank
<1> HIDE DEF action, u
<1> QED BY <1>1, <1>2, <1>3 DEF NextStatus, Develops, Severities, action, u

\* The rows a lane sees, and what it makes of them, follow the life cycle.
LEMMA LaneFollows ==
  ASSUME LifeInv, NEW a \in Assets, Deliver(a) \/ Work(a) \/ Fault(a)
  PROVE  Follows(a)'
<1>1. /\ TypeInv /\ Follows(a) /\ HistoryInv /\ SoundLane(a) /\ UpToDate(a)
      /\ index = table /\ KeyedById /\ pos[a] + 1 \in Nat
  <2>1. TypeInv
    BY DEF LifeInv, StampsInv
  <2>2. pos[a] + 1 \in Nat
    BY <2>1 DEF TypeInv, TypeOK
  <2> QED BY <2>1, <2>2 DEF LifeInv, HistoryInv, UniqueInv, OneActiveInv, StampsInv
<1>2. CASE Checkpoint(a) \/ \E p \in Nat : EnterRecord(a, p)
  <2>1. Reading(a)' /\ found'[a] = {}
    BY <1>1, <1>2, LeavingLocals
  <2> QED BY <2>1 DEF Follows, Reading
<1>3. CASE Deliver(a)
  BY <1>1, <1>3 DEF Deliver, Follows, Reading, TypeInv, TypeOK
<1>4. ASSUME NEW status \in ActiveStatuses, QueryByStatus(a, status) PROVE Follows(a)'
  <2> DEFINE rows == {index[i] : i \in {j \in Ids : /\ index[j] # None
                                                    /\ index[j].asset = a
                                                    /\ index[j].status = status}}
  <2>1. found'[a] = found[a] \cup rows /\ pc'[a] = "find" /\ pc[a] = "find" /\ table' = table
    BY <1>1, <1>4 DEF QueryByStatus, TypeInv, TypeOK
  <2>2. \A r \in rows : table[r.id] = r /\ Active(r)
    BY <1>1 DEF KeyedById, Active
  <2> HIDE DEF rows
  <2> QED BY <1>1, <2>1, <2>2 DEF Follows, Reading
<1>5. CASE Save(a)
  <2>1. pc'[a] = "emit"
    BY <1>1, <1>5 DEF Save, TypeInv, TypeOK
  <2> QED BY <2>1 DEF Follows, Reading
<1>6. CASE Evaluate(a)
  <2> DEFINE sev == Severity(a)
             action(existing) == RuleAction(sev, existing, clock)
             new(i, existing) == NewIncident(i, a, sev, action(existing), clock, Dx(a))
             updated(existing) == UpdatedIncident(existing, sev, action(existing), clock, Dx(a))
             Decide(existing, subject) ==
               plan' = [plan EXCEPT ![a] = [action |-> action(existing), subject |-> subject]]
  <2>1. /\ pc[a] = "find" /\ Reading(a) /\ sev \in Severities /\ Dx(a) \in Nat /\ clock \in Nat
    BY <1>1, <1>6, LaneFacts DEF Evaluate, TypeInv, TypeOK, Reading
  <2>2. PICK existing \in MostRecent(found[a]) :
          /\ \/ /\ RuleOperation(sev, existing) = "create"
                /\ \E i \in FreshId : Decide(existing, new(i, existing))
             \/ /\ RuleOperation(sev, existing) = "update"
                /\ Decide(existing, updated(existing))
             \/ RuleOperation(sev, existing) = "none"
          /\ pc' = [pc EXCEPT ![a] = IF RuleOperation(sev, existing) = "none" THEN "emit" ELSE "save"]
    BY <1>6 DEF Evaluate, NextCall
  <2>3. /\ plan \in [Assets -> Plan \cup {None}] /\ table' = table
        /\ pc \in [Assets -> {"idle", "find", "save", "emit", "done"}]
        /\ ~Reading(a)'
    BY <1>1, <1>6, <2>2 DEF TypeInv, TypeOK, Evaluate, Reading
  <2> HIDE DEF sev
  <2>4. CASE RuleOperation(sev, existing) = "create"
    <3>1. PICK i \in FreshId : Decide(existing, new(i, existing))
      BY <2>2, <2>4
    <3>2. table[i] = None /\ plan'[a].subject = new(i, existing)
      BY <1>1, <2>3, <3>1, FreshIdIsNew DEF HistoryInv, IssuedFirst
    <3>3. sev \in {"warning", "critical"}
      BY <2>1, <2>4 DEF RuleOperation, Severities
    <3>4. /\ plan'[a].subject.id = i /\ plan'[a].subject.severity = sev
          /\ plan'[a].subject.status = IF sev = "critical" THEN "escalated" ELSE "opened"
      BY <3>2 DEF NewIncident
    <3> QED BY <2>3, <3>2, <3>3, <3>4 DEF Follows, Real
  <2>5. CASE RuleOperation(sev, existing) = "update"
    <3>1. existing # None
      BY <2>1, <2>5 DEF RuleOperation, Severities
    <3>2. existing \in found[a] /\ existing \in Incident
      BY <1>1, <2>2, <3>1, MostRecentSound DEF TypeInv, TypeOK
    <3>3. /\ Active(table[existing.id]) /\ Real(table[existing.id])
          /\ Agrees(table[existing.id], existing)
      BY <1>1, <2>1, <3>2, ActiveIsReal DEF Follows, UpToDate
    <3>4. existing.status \in ActiveStatuses /\ existing.severity # "info"
      BY <1>1, <3>1, <3>2 DEF SoundLane, Sound, StampsOK
    <3>5. plan'[a].subject = updated(existing) /\ action(existing) \in ActionTypes
      BY <2>1, <2>2, <2>3, <2>5, <3>2, RuleActionType
    <3>6. plan'[a].subject.id = existing.id /\ Develops(existing, plan'[a].subject)
      BY <2>1, <3>2, <3>4, <3>5, UpdatedIncidentType, UpdatedIncidentDevelops
    <3> QED BY <2>3, <3>3, <3>6 DEF Follows, Develops, Agrees
  <2>6. CASE RuleOperation(sev, existing) = "none"
    BY <2>2, <2>3, <2>6 DEF Follows
  <2> QED BY <2>2, <2>4, <2>5, <2>6
<1> QED BY <1>1, <1>2, <1>3, <1>4, <1>5, <1>6
    DEF Work, Fault, Emit, Commit, QueryFails, SaveFails, FailInvocation, NextRecord

\* Only the Put of a lane changes a row of its own.
LEMMA LaneRows ==
  ASSUME TypeInv, NEW a \in Assets, Deliver(a) \/ Work(a) \/ Fault(a)
  PROVE  /\ clear' = clear
         /\ \A b \in Assets \ {a} : SameLocals(b)
         /\ \/ table' = table
            \/ /\ pc[a] = "save"
               /\ table' = [table EXCEPT ![plan[a].subject.id] = plan[a].subject]
<1>1. pos[a] + 1 \in Nat
  BY DEF TypeInv, TypeOK
<1>2. \A b \in Assets \ {a} : SameLocals(b)
  <2>1. CASE Checkpoint(a) \/ \E p \in Nat : EnterRecord(a, p)
    BY <2>1, LeavingLocals
  <2>2. CASE Deliver(a) \/ Evaluate(a) \/ Save(a) \/ \E s \in ActiveStatuses : QueryByStatus(a, s)
    BY <2>2 DEF Deliver, Evaluate, Save, QueryByStatus, TypeInv, TypeOK, SameLocals
  <2> QED BY <1>1, <2>1, <2>2
      DEF Work, Fault, Emit, Commit, QueryFails, SaveFails, FailInvocation, NextRecord
<1>3. clear' = clear
  BY DEF Deliver, Work, Fault, QueryByStatus, Evaluate, Save, Emit, Commit, QueryFails, SaveFails,
         FailInvocation, operators
<1> QED BY <1>2, <1>3
    DEF Deliver, Work, Fault, QueryByStatus, Evaluate, Save, Emit, Commit, QueryFails, SaveFails,
        FailInvocation, Store

\* Every step keeps the inductive invariant.
LEMMA LifeStep ==
  ASSUME ~IndexLag, "clear" \notin Requests PROVE LifeInv /\ [Next]_vars => LifeInv'
<1> SUFFICES ASSUME LifeInv, [Next]_vars PROVE LifeInv'
  OBVIOUS
<1>1. HistoryInv' /\ StampsInv'
  BY HistoryStep, StampsStep DEF LifeInv
<1>2. TypeInv
  BY DEF LifeInv, StampsInv
<1>3. \A b \in Assets : Claims(b) \subseteq Ids
  BY <1>2 DEF LifeInv, HistoryInv, IssuedFirst, TypeInv, TypeOK
<1>4. CASE UNCHANGED vars
  BY <1>1, <1>4 DEF vars, lane, operators, LifeInv, Follows, Reading
<1>5. CASE (\E a \in Assets : Operator(a)) \/ (\E i \in Ids : Expire(i) \/ Propagate(i)) \/ Tick
  <2>1. UNCHANGED <<lane, clear>> /\ \A i \in Ids : Stays(i)
    BY <1>5, OutsideLife
  <2>2. \A b \in Assets : SameLocals(b)
    BY <2>1 DEF lane, SameLocals
  <2>3. \A b \in Assets : Follows(b)'
    BY <1>3, <2>1, <2>2, FollowsFrame
  <2> QED BY <1>1, <2>1, <2>3 DEF LifeInv
<1>6. ASSUME NEW a \in Assets, Deliver(a) \/ Work(a) \/ Fault(a) PROVE LifeInv'
  <2>1. /\ clear' = clear /\ \A b \in Assets \ {a} : SameLocals(b)
        /\ \/ table' = table
           \/ /\ pc[a] = "save"
              /\ table' = [table EXCEPT ![plan[a].subject.id] = plan[a].subject]
    BY <1>2, <1>6, LaneRows
  <2>2. ASSUME NEW b \in Assets \ {a} PROVE Follows(b)'
    <3>1. ASSUME NEW i \in Claims(b) PROVE table'[i] = table[i]
      <4>1. pc[a] = "save" => plan[a].subject.id \in Claims(a)
        BY <1>2, RulesAssumption DEF RulesAssumption, TypeInv, LocalsOK, Claims, Reading, Row
      <4>2. i \notin Claims(a) /\ i \in Ids
        BY <1>3 DEF LifeInv, HistoryInv, OwnClaims
      <4> QED BY <1>2, <2>1, <4>1, <4>2 DEF TypeInv, TypeOK
    <3>2. \A i \in Claims(b) : Stays(i)
      BY <3>1 DEF Stays, Agrees
    <3> QED BY <2>1, <3>2, FollowsFrame
  <2>3. Follows(a)'
    BY <1>6, LaneFollows
  <2> QED BY <1>1, <2>1, <2>2, <2>3 DEF LifeInv
<1> QED BY <1>4, <1>5, <1>6 DEF Next

\* What a reader of the table sees.
Lives == [i \in Ids |-> Life(table[i])]

\* A reader sees the incidents, and only them.
LEMMA LifeOfRow ==
  ASSUME NEW row \in Row \cup {None}
  PROVE  /\ Life(row) # None <=> Real(row)
         /\ Real(row) => Life(row) = [asset |-> row.asset, status |-> row.status,
                                      severity |-> row.severity]
         /\ Active(row) <=> Life(row) # None /\ Life(row).status \in ActiveStatuses
<1>1. CASE Real(row)
  <2>1. row \in Incident
    BY <1>1, RealIsIncident
  <2>2. Life(row) \in [asset : Assets, status : Statuses, severity : Severities]
    BY <1>1, <2>1 DEF Life, Incident
  <2> QED BY <1>1, <2>2, RulesAssumption DEF Life, Active, Real, RulesAssumption
<1>2. CASE ~Real(row)
  BY <1>2, ActiveIsReal DEF Life
<1> QED BY <1>1, <1>2

\* A step of the table that changes one row is a step of one incident's life.
LEMMA OneLife ==
  ASSUME TypeInv, NEW i \in Ids, NEW row, table' = [table EXCEPT ![i] = row]
  PROVE  Lives' = [Lives EXCEPT ![i] = Life(row)]
BY DEF Lives, TypeInv, TypeOK

\* The Put of a lane opens an incident, moves one on, or changes nothing a
\* reader sees.
LEMMA PutRefines ==
  ASSUME LifeInv, TypeInv', NEW a \in Assets, pc[a] = "save",
         table' = [table EXCEPT ![plan[a].subject.id] = plan[a].subject]
  PROVE  [Lifecycle!Next]_Lives
<1> DEFINE s == plan[a].subject
           i == s.id
<1>1. /\ TypeInv /\ Follows(a) /\ PlanIsActive(a) /\ OwnClaims
  BY DEF LifeInv, StampsInv, HistoryInv, UniqueInv, OneActiveInv
<1>2. s \in Incident /\ i \in Ids /\ s.asset = a /\ s # None
  BY <1>1, RulesAssumption DEF TypeInv, LocalsOK, PlanIsActive, Incident, Row, RulesAssumption
<1>3. Life(s) = [asset |-> a, status |-> s.status, severity |-> s.severity]
  BY <1>2, RulesAssumption DEF Life, Real, Incident, RulesAssumption
<1>4. Lives' = [Lives EXCEPT ![i] = Life(s)]
  BY <1>1, <1>2, OneLife
<1>5. table[i] \in Row \cup {None} /\ Lives[i] = Life(table[i])
  BY <1>1, <1>2 DEF TypeInv, TypeOK, Lives
<1>6. CASE ~Real(table[i])
  <2>1. <<s.status, s.severity>> \in {<<"opened", "warning">>, <<"escalated", "critical">>}
    BY <1>1, <1>6 DEF Follows
  <2>2. ASSUME NEW j \in Ids, Lives[j] # None, Lives[j].status \in ActiveStatuses PROVE Lives[j].asset # a
    <3>1. table[j] \in Row \cup {None} /\ Lives[j] = Life(table[j])
      BY <1>1 DEF TypeInv, TypeOK, Lives
    <3>2. Active(table[j]) /\ Lives[j].asset = table[j].asset
      BY <2>2, <3>1, LifeOfRow
    <3>3. j # i
      BY <1>6, <3>2, ActiveIsReal
    <3> QED BY <1>1, <3>2, <3>3 DEF PlanIsActive, ActiveIds
  <2>3. Lives[i] = None
    BY <1>5, <1>6, LifeOfRow
  <2>4. Lifecycle!Open(i, a)
    BY <1>3, <1>4, <2>1, <2>2, <2>3
    DEF Lifecycle!Open, Lifecycle!Become, Lifecycle!IsActive, Lifecycle!ActiveStatuses, ActiveStatuses, Lives
  <2> QED BY <1>2, <2>4 DEF Lifecycle!Next
<1>7. CASE Real(table[i])
  <2>1. Active(table[i]) /\ Develops(table[i], s) /\ table[i].asset = a
    <3>1. i \in Claims(a)
      BY <1>2 DEF Claims, Reading
    <3> QED BY <1>1, <1>7, <3>1 DEF Follows, OwnClaims
  <2>2. /\ Lives[i] = [asset |-> a, status |-> table[i].status, severity |-> table[i].severity]
        /\ Lives[i] # None /\ Lives[i].status \in ActiveStatuses
    BY <1>5, <1>7, <2>1, LifeOfRow
  <2>3. CASE s.status = table[i].status /\ s.severity = table[i].severity
    BY <1>3, <1>4, <2>2, <2>3 DEF Lives
  <2>4. CASE s.status = "escalated" /\ s.severity = table[i].severity
    <3>1. Lives' = [Lives EXCEPT ![i] = [asset |-> Lives[i].asset, status |-> "escalated",
                                         severity |-> Lives[i].severity]]
      BY <1>3, <1>4, <2>2, <2>4
    <3>2. Lifecycle!Warn(i)
      BY <2>2, <3>1
      DEF Lifecycle!Warn, Lifecycle!Become, Lifecycle!IsActive, Lifecycle!ActiveStatuses,
          ActiveStatuses, Lives
    <3> QED BY <1>2, <3>2 DEF Lifecycle!Next
  <2>5. CASE s.status = "escalated" /\ s.severity = "critical"
    <3>1. Lives' = [Lives EXCEPT ![i] = [asset |-> Lives[i].asset, status |-> "escalated",
                                         severity |-> "critical"]]
      BY <1>3, <1>4, <2>2, <2>5
    <3>2. Lifecycle!Criticize(i)
      BY <2>2, <3>1
      DEF Lifecycle!Criticize, Lifecycle!Become, Lifecycle!IsActive, Lifecycle!ActiveStatuses,
          ActiveStatuses, Lives
    <3> QED BY <1>2, <3>2 DEF Lifecycle!Next
  <2>6. CASE s.status = "resolved" /\ s.severity = table[i].severity
    <3>1. Lives' = [Lives EXCEPT ![i] = [asset |-> Lives[i].asset, status |-> "resolved",
                                         severity |-> Lives[i].severity]]
      BY <1>3, <1>4, <2>2, <2>6
    <3>2. Lifecycle!Resolve(i)
      BY <2>2, <3>1
      DEF Lifecycle!Resolve, Lifecycle!Become, Lifecycle!IsActive, Lifecycle!ActiveStatuses,
          ActiveStatuses, Lives
    <3> QED BY <1>2, <3>2 DEF Lifecycle!Next
  <2> QED BY <2>1, <2>3, <2>4, <2>5, <2>6 DEF Develops
<1> QED BY <1>6, <1>7

\* Every step of the system is a step of the life cycle of one incident, or
\* changes nothing a reader sees.
LEMMA StepRefines ==
  ASSUME ~IndexLag, "clear" \notin Requests
  PROVE  LifeInv /\ [Next]_vars => [Lifecycle!Next]_Lives
<1> SUFFICES ASSUME LifeInv, [Next]_vars PROVE [Lifecycle!Next]_Lives
  OBVIOUS
<1>1. TypeInv /\ StampsInv /\ TypeInv'
  BY TypeStep DEF LifeInv, StampsInv
<1>2. ASSUME table' = table PROVE Lives' = Lives
  BY <1>2 DEF Lives
<1>3. CASE UNCHANGED vars
  BY <1>2, <1>3 DEF vars
<1>4. ASSUME NEW a \in Assets, Deliver(a) \/ Work(a) \/ Fault(a)
      PROVE  [Lifecycle!Next]_Lives
  BY <1>1, <1>2, <1>4, LaneRows, PutRefines
<1>5. CASE (\E a \in Assets : Operator(a)) \/ (\E i \in Ids : Expire(i) \/ Propagate(i)) \/ Tick
  <2>1. CASE \E i \in Ids : Expire(i)
    <3>1. PICK i \in Ids : Expire(i)
      BY <2>1
    <3>2. /\ Real(table[i]) /\ table[i].status = "resolved"
          /\ table' = [table EXCEPT ![i] = None]
      BY <1>1, <3>1, ExpireResolved
    <3>3. Lives' = [Lives EXCEPT ![i] = None]
      BY <1>1, <3>2, OneLife DEF Life, Real
    <3>4. Lives[i] # None /\ Lives[i].status = "resolved"
      <4>1. table[i] \in Row \cup {None} /\ Lives[i] = Life(table[i])
        BY <1>1 DEF TypeInv, TypeOK, Lives
      <4> QED BY <3>2, <4>1, LifeOfRow
    <3> QED BY <3>3, <3>4 DEF Lifecycle!Next, Lifecycle!Forget, Lives
  <2>2. CASE ~\E i \in Ids : Expire(i)
    <3>1. \A i \in Ids : /\ Real(table'[i]) <=> Real(table[i])
                         /\ Real(table[i]) => Agrees(table'[i], table[i])
      BY <1>5, <2>2, OutsideLife
    <3>2. ASSUME NEW i \in Ids PROVE Life(table'[i]) = Life(table[i])
      <4>1. CASE Real(table[i])
        BY <3>1, <4>1 DEF Life, Agrees
      <4>2. CASE ~Real(table[i])
        BY <3>1, <4>2 DEF Life
      <4> QED BY <4>1, <4>2
    <3>3. Lives' = Lives
      BY <3>2 DEF Lives
    <3> QED BY <3>3
  <2> QED BY <2>1, <2>2
<1> QED BY <1>3, <1>4, <1>5 DEF Next

\* The table with the handlers around it implements the life cycle: an asset
\* gets a new incident only when it has none that is active, incidents
\* escalate but do not de-escalate, their severity only rises, and they
\* disappear only when they are resolved - whatever fails or is redelivered,
\* if the index does not lag and nobody clears the table.
THEOREM ImplementsLifecycle ==
  ASSUME ~IndexLag, "clear" \notin Requests PROVE Spec => FollowsLifecycle
<1>1. Init => LifeInv /\ Lifecycle!Init
  BY HistoryInit, StampsInit DEF Init, LifeInv, Follows, Reading, Lifecycle!Init, Life, Real
<1>2. LifeInv /\ [Next]_vars => LifeInv' /\ [Lifecycle!Next]_Lives
  BY LifeStep, StepRefines
<1> QED BY <1>1, <1>2, PTL DEF Spec, FollowsLifecycle, Lifecycle!Spec, Lives

(***************************************************************************)
(* What a diagnosis can cause at most, however much the index lags.        *)
(***************************************************************************)

\* How often the attempts on a lane's batch are past deciding on a diagnosis: once
\* for each failed invocation, and once for the present one if it has decided.
Spent(a, k) ==
  IF k <= seen[a] THEN MaxRetries + 1
  ELSE IF k > seen[a] + Len(batch[a]) THEN 0
  ELSE IF k < Dx(a) \/ (k = Dx(a) /\ pc[a] \in {"save", "emit"}) THEN tries[a] + 1
  ELSE tries[a]

\* The records of an asset that are stored, indexed or in the lane's hands: found,
\* or about to be written.
Known(a) ==
  {r \in {table[i] : i \in Ids} \cup {index[i] : i \in Ids} \cup found[a]
          \cup (IF pc[a] = "save" THEN {plan[a].subject} ELSE {}) : Real(r) /\ r.asset = a}

\* The incidents that a diagnosis opened and somebody still knows of.
Opened(a, k) == {r.id : r \in {q \in Known(a) : q.history[1].dx = k}}

LaneOK(a) ==
  /\ tries[a] <= MaxRetries
  /\ pc[a] = "idle" => batch[a] = <<>>
  /\ pc[a] = "done" => pos[a] = Len(batch[a]) + 1

OwnRecords(a) ==
  /\ \A r \in found[a] : r.asset = a
  /\ pc[a] = "save" => plan[a].subject.asset = a

CopiesInv(a) ==
  /\ LaneOK(a) /\ OwnRecords(a)
  /\ \A r \in Known(a) : /\ r.history # <<>>
                         /\ \A k \in Nat : Cardinality(Caused(r, k)) <= Spent(a, k)
  /\ \A k \in Nat : IsFiniteSet(Opened(a, k)) /\ Cardinality(Opened(a, k)) <= Spent(a, k)

EffectsInv == TypeInv /\ KeyedById /\ \A a \in Assets : CopiesInv(a)

\* The bound is a number of deliveries.
LEMMA SpentIsBounded ==
  ASSUME TypeInv, NEW a \in Assets, LaneOK(a), NEW k \in Nat
  PROVE  Spent(a, k) \in Nat /\ Spent(a, k) <= MaxRetries + 1
<1>1. tries[a] \in Nat /\ MaxRetries \in Nat /\ tries[a] <= MaxRetries
  BY IncidentsAssumption DEF IncidentsAssumption, TypeInv, TypeOK, LaneOK
<1> QED BY <1>1 DEF Spent

LEMMA SpentStaysBounded ==
  ASSUME TypeInv', NEW a \in Assets, LaneOK(a)', NEW k \in Nat
  PROVE  Spent(a, k)' \in Nat
<1>1. tries'[a] \in Nat /\ MaxRetries \in Nat
  BY IncidentsAssumption DEF IncidentsAssumption, TypeInv, TypeOK
<1> QED BY <1>1 DEF Spent

SameBatch(a) == seen'[a] = seen[a] /\ batch'[a] = batch[a]

\* A lane that goes on, fails, is done or gets another batch is past no less.
LEMMA SpentGrows ==
  ASSUME TypeInv, TypeInv', NEW a \in Assets, LaneOK(a), LaneOK(a)', NEW k \in Nat,
         \/ /\ SameBatch(a) /\ pos'[a] = pos[a] /\ tries'[a] = tries[a]
            /\ pc[a] \in {"save", "emit"} => pc'[a] \in {"save", "emit"}
         \/ SameBatch(a) /\ pos'[a] = pos[a] + 1 /\ tries'[a] = tries[a]
         \/ SameBatch(a) /\ tries'[a] = tries[a] + 1
         \/ seen'[a] = seen[a] + Len(batch[a])
         \/ /\ batch[a] = <<>> /\ seen'[a] = seen[a]
  PROVE  Spent(a, k) <= Spent(a, k)'
<1>1. /\ tries[a] \in Nat /\ tries'[a] \in Nat /\ MaxRetries \in Nat /\ tries[a] <= MaxRetries
      /\ tries'[a] <= MaxRetries /\ seen[a] \in Nat /\ seen'[a] \in Nat /\ pos[a] \in Nat
      /\ pos'[a] \in Nat
  BY IncidentsAssumption DEF IncidentsAssumption, TypeInv, TypeOK, LaneOK
<1>2. Len(batch[a]) \in Nat /\ Len(batch'[a]) \in Nat /\ (batch[a] = <<>> => Len(batch[a]) = 0)
  BY DEF TypeInv, TypeOK
<1>3. Spent(a, k)' = IF k <= seen'[a] THEN MaxRetries + 1
                     ELSE IF k > seen'[a] + Len(batch'[a]) THEN 0
                     ELSE IF \/ k < seen'[a] + pos'[a]
                             \/ k = seen'[a] + pos'[a] /\ pc'[a] \in {"save", "emit"}
                          THEN tries'[a] + 1 ELSE tries'[a]
  BY DEF Spent, Dx
<1>4. CASE /\ SameBatch(a) /\ pos'[a] = pos[a] /\ tries'[a] = tries[a]
           /\ pc[a] \in {"save", "emit"} => pc'[a] \in {"save", "emit"}
  BY <1>1, <1>2, <1>3, <1>4 DEF Spent, Dx, SameBatch
<1>5. CASE SameBatch(a) /\ pos'[a] = pos[a] + 1 /\ tries'[a] = tries[a]
  BY <1>1, <1>2, <1>3, <1>5 DEF Spent, Dx, SameBatch
<1>6. CASE SameBatch(a) /\ tries'[a] = tries[a] + 1
  BY <1>1, <1>2, <1>3, <1>6 DEF Spent, Dx, SameBatch
<1>7. CASE seen'[a] = seen[a] + Len(batch[a])
  BY <1>1, <1>2, <1>3, <1>7 DEF Spent, Dx
<1>8. CASE batch[a] = <<>> /\ seen'[a] = seen[a]
  BY <1>1, <1>2, <1>3, <1>8 DEF Spent, Dx
<1> QED BY <1>4, <1>5, <1>6, <1>7, <1>8

\* So a lane that takes a step other than a decision is past no less.
LEMMA LaneGoesOn ==
  ASSUME TypeInv, TypeInv', NEW a \in Assets, LaneOK(a),
         \/ Deliver(a) \/ Commit(a) \/ FailInvocation(a)
         \/ pc[a] \in {"find", "save", "emit"} /\ NextRecord(a)
         \/ \E s \in ActiveStatuses : QueryByStatus(a, s)
         \/ Save(a)
  PROVE  LaneOK(a)' /\ \A k \in Nat : Spent(a, k) <= Spent(a, k)'
<1>1. /\ tries[a] \in Nat /\ MaxRetries \in Nat /\ tries[a] <= MaxRetries
      /\ pos[a] \in Nat /\ Len(batch[a]) \in Nat
      /\ pc[a] \in {"find", "save", "emit"} => pos[a] <= Len(batch[a])
  BY IncidentsAssumption DEF IncidentsAssumption, TypeInv, TypeOK, LaneOK, LocalsOK
<1>2. CASE Deliver(a)
  <2>1. /\ batch[a] = <<>> /\ seen'[a] = seen[a] /\ tries'[a] = 0 /\ pc'[a] = "find"
    BY <1>2 DEF Deliver, LaneOK, TypeInv, TypeOK
  <2>2. LaneOK(a)'
    BY <1>1, <2>1 DEF LaneOK
  <2> QED BY <2>1, <2>2, SpentGrows DEF SameBatch
<1>3. CASE Checkpoint(a)
  <2>1. /\ seen'[a] = seen[a] + Len(batch[a]) /\ batch'[a] = <<>> /\ tries'[a] = 0
        /\ pc'[a] = "idle"
    BY <1>3 DEF Checkpoint, TypeInv, TypeOK
  <2>2. LaneOK(a)'
    BY <1>1, <2>1 DEF LaneOK
  <2> QED BY <2>1, <2>2, SpentGrows DEF SameBatch
<1>4. CASE pos[a] <= Len(batch[a]) /\ EnterRecord(a, pos[a] + 1) /\ UNCHANGED tries
  <2>1. /\ UNCHANGED <<seen, batch>> /\ pos'[a] = pos[a] + 1 /\ tries'[a] = tries[a]
        /\ pc'[a] = IF pos[a] + 1 <= Len(batch[a]) THEN "find" ELSE "done"
    BY <1>4 DEF EnterRecord, TypeInv, TypeOK
  <2>2. LaneOK(a)'
    BY <1>1, <1>4, <2>1 DEF LaneOK
  <2> QED BY <2>1, <2>2, SpentGrows DEF SameBatch
<1>5. CASE pc[a] # "idle" /\ tries[a] < MaxRetries /\ EnterRecord(a, 1) /\ CountFailure(a)
  <2>1. /\ UNCHANGED <<seen, batch>> /\ pos'[a] = 1 /\ tries'[a] = tries[a] + 1
        /\ pc'[a] = IF 1 <= Len(batch[a]) THEN "find" ELSE "done"
    BY <1>5 DEF EnterRecord, CountFailure, TypeInv, TypeOK
  <2>2. LaneOK(a)'
    BY <1>1, <1>5, <2>1 DEF LaneOK
  <2> QED BY <2>1, <2>2, SpentGrows DEF SameBatch
<1>6. CASE (\E s \in ActiveStatuses : QueryByStatus(a, s)) \/ Save(a)
  <2>1. /\ UNCHANGED <<seen, batch, pos, tries>>
        /\ \/ pc[a] = "find" /\ pc'[a] = "find"
           \/ pc[a] = "save" /\ pc'[a] = "emit"
    BY <1>6 DEF QueryByStatus, Save, TypeInv, TypeOK
  <2>2. LaneOK(a)'
    BY <1>1, <2>1 DEF LaneOK
  <2> QED BY <2>1, <2>2, SpentGrows DEF SameBatch
<1>7. CASE FailInvocation(a)
  <2>1. \/ pc[a] # "idle" /\ tries[a] < MaxRetries /\ EnterRecord(a, 1) /\ CountFailure(a)
        \/ pos[a] < Len(batch[a]) /\ EnterRecord(a, pos[a] + 1) /\ UNCHANGED tries
        \/ Checkpoint(a)
    BY <1>7 DEF FailInvocation
  <2> QED BY <1>1, <1>3, <1>4, <1>5, <2>1
<1>8. CASE Commit(a)
  BY <1>3, <1>8 DEF Commit
<1>9. CASE pc[a] \in {"find", "save", "emit"} /\ NextRecord(a)
  BY <1>1, <1>4, <1>9 DEF NextRecord
<1> QED BY <1>2, <1>6, <1>7, <1>8, <1>9

\* Deciding on a diagnosis is one more time past it.
LEMMA DecisionCounts ==
  ASSUME TypeInv, TypeInv', NEW a \in Assets, LaneOK(a), Evaluate(a)
  PROVE  /\ LaneOK(a)' /\ Dx(a) \in Nat
         /\ \A k \in Nat : Spent(a, k) <= Spent(a, k)'
         /\ Spent(a, Dx(a)) + 1 <= Spent(a, Dx(a))'
<1>1. /\ UNCHANGED <<seen, batch, pos, tries>> /\ pc[a] = "find" /\ pc'[a] \in {"save", "emit"}
  BY DEF Evaluate, NextCall, TypeInv, TypeOK
<1>2. /\ tries[a] \in Nat /\ pos[a] \in 1 .. Len(batch[a]) /\ Len(batch[a]) \in Nat /\ seen[a] \in Nat
  BY <1>1 DEF TypeInv, TypeOK, LocalsOK
<1>3. LaneOK(a)'
  BY <1>1 DEF LaneOK
<1>4. \A k \in Nat : Spent(a, k) <= Spent(a, k)'
  BY <1>1, <1>3, SpentGrows DEF SameBatch
<1>5. Spent(a, Dx(a)) = tries[a]
  BY <1>1, <1>2 DEF Spent, Dx
<1>6. Spent(a, Dx(a))' = tries[a] + 1
  BY <1>1, <1>2 DEF Spent, Dx
<1> QED BY <1>2, <1>3, <1>4, <1>5, <1>6 DEF Dx

\* Two copies of a record that differ in neither identity nor history.
SameRecord(r, q) == r.id = q.id /\ r.history = q.history

\* What is known is a complete incident of the asset.
LEMMA KnownIsIncident ==
  ASSUME TypeInv, NEW a \in Assets, NEW r \in Known(a)
  PROVE  r \in Incident /\ r.asset = a /\ r.history \in Seq(HistoryEntry) /\ Len(r.history) \in Nat
<1>1. Real(r) /\ r.asset = a
  BY DEF Known
<1>2. r \in Row \cup {None}
  <2>1. CASE r \in {table[i] : i \in Ids} \cup {index[i] : i \in Ids} \cup found[a]
    BY <2>1 DEF TypeInv, TypeOK, Row
  <2>2. CASE pc[a] = "save" /\ r = plan[a].subject
    BY <2>2 DEF TypeInv, LocalsOK, Row
  <2> QED BY <2>1, <2>2 DEF Known
<1> QED BY <1>1, <1>2, RealIsIncident DEF Incident

\* The entries a diagnosis caused are finitely many, and one more entry is one more
\* for its diagnosis.
LEMMA CausedFinite ==
  ASSUME NEW r, r.history \in Seq(HistoryEntry), NEW k \in Nat
  PROVE  IsFiniteSet(Caused(r, k)) /\ Cardinality(Caused(r, k)) \in Nat
<1>1. IsFiniteSet(1 .. Len(r.history))
  BY FS_Interval
<1>2. Caused(r, k) \in SUBSET (1 .. Len(r.history))
  BY DEF Caused
<1> QED BY <1>1, <1>2, FS_Subset, FS_CardinalityType

LEMMA CausedAppend ==
  ASSUME NEW q, NEW r, q.history \in Seq(HistoryEntry), NEW entry \in HistoryEntry,
         r.history = Append(q.history, entry), NEW k \in Nat
  PROVE  Cardinality(Caused(r, k)) <= (IF k = entry.dx THEN Cardinality(Caused(q, k)) + 1
                                       ELSE Cardinality(Caused(q, k)))
<1> DEFINE n == Len(q.history) + 1
<1>1. /\ DOMAIN r.history = DOMAIN q.history \cup {n} /\ n \notin DOMAIN q.history
      /\ \A j \in DOMAIN q.history : r.history[j] = q.history[j]
      /\ r.history[n] = entry
  OBVIOUS
<1> HIDE DEF n
<1>2. Caused(r, k) = IF k = entry.dx THEN Caused(q, k) \cup {n} ELSE Caused(q, k)
  BY <1>1 DEF Caused
<1>3. n \notin Caused(q, k)
  BY <1>1 DEF Caused
<1>4. IsFiniteSet(Caused(q, k)) /\ Cardinality(Caused(q, k)) \in Nat
  BY CausedFinite
<1>5. Cardinality(Caused(q, k) \cup {n}) = Cardinality(Caused(q, k)) + 1
  BY <1>3, <1>4, FS_AddElement
<1> QED BY <1>2, <1>4, <1>5

\* A lane that learns of no new record keeps its bounds.
LEMMA NothingNew ==
  ASSUME TypeInv, TypeInv', NEW a \in Assets, CopiesInv(a), LaneOK(a)', OwnRecords(a)',
         \A k \in Nat : Spent(a, k) <= Spent(a, k)',
         \A r \in Known(a)' : \E q \in Known(a) : SameRecord(r, q)
  PROVE  CopiesInv(a)'
<1>1. LaneOK(a)
  BY DEF CopiesInv
<1>2. ASSUME NEW r \in Known(a)', NEW k \in Nat
      PROVE  r.history # <<>> /\ Cardinality(Caused(r, k)) <= Spent(a, k)'
  <2>1. PICK q \in Known(a) : SameRecord(r, q)
    OBVIOUS
  <2>2. Caused(r, k) = Caused(q, k)
    BY <2>1 DEF SameRecord, Caused
  <2>3. q.history # <<>> /\ Cardinality(Caused(q, k)) <= Spent(a, k)
    BY DEF CopiesInv
  <2>4. Cardinality(Caused(q, k)) \in Nat /\ Spent(a, k) \in Nat /\ Spent(a, k)' \in Nat
    BY <1>1, CausedFinite, KnownIsIncident, SpentIsBounded, SpentStaysBounded
  <2> QED BY <2>1, <2>2, <2>3, <2>4 DEF SameRecord
<1>3. ASSUME NEW k \in Nat
      PROVE  IsFiniteSet(Opened(a, k)') /\ Cardinality(Opened(a, k)') <= Spent(a, k)'
  <2>1. Opened(a, k)' \in SUBSET Opened(a, k)
    BY DEF SameRecord, Opened
  <2>2. IsFiniteSet(Opened(a, k)) /\ Cardinality(Opened(a, k)) <= Spent(a, k)
    BY DEF CopiesInv
  <2>3. /\ IsFiniteSet(Opened(a, k)') /\ Cardinality(Opened(a, k)') <= Cardinality(Opened(a, k))
        /\ Cardinality(Opened(a, k)) \in Nat /\ Cardinality(Opened(a, k)') \in Nat
    BY <2>1, <2>2, FS_Subset, FS_CardinalityType
  <2>4. Spent(a, k) \in Nat /\ Spent(a, k)' \in Nat
    BY <1>1, SpentIsBounded, SpentStaysBounded
  <2> QED BY <2>2, <2>3, <2>4
<1>4. \A k \in Nat : Cardinality(Opened(a, k)') <= Spent(a, k)' /\ IsFiniteSet(Opened(a, k)')
  BY <1>3
<1> HIDE DEF Opened
<1> QED BY <1>2, <1>4 DEF CopiesInv, Caused

\* A record built for diagnosis d: a new incident, or a known one with one more entry.
BuiltFor(a, d, n) ==
  \E entry \in HistoryEntry :
    /\ entry.dx = d
    /\ \/ n.history = <<entry>>
       \/ \E q \in Known(a) : n.id = q.id /\ n.history = Append(q.history, entry)

\* A lane's step past diagnosis d.
Passes(a, d) ==
  \A k \in Nat : /\ Spent(a, k) \in Nat /\ Spent(a, k)' \in Nat
                 /\ Spent(a, k) <= Spent(a, k)'
                 /\ k = d => Spent(a, k) + 1 <= Spent(a, k)'

\* What such a record adds to the history, and to the incidents opened.
LEMMA BuiltRecord ==
  ASSUME TypeInv, NEW a \in Assets, CopiesInv(a), NEW d \in Nat, NEW n \in Incident,
         BuiltFor(a, d, n), NEW k \in Nat, NEW s \in Nat,
         (IF k = d THEN Spent(a, k) + 1 ELSE Spent(a, k)) <= s
  PROVE  /\ n.history # <<>> /\ Cardinality(Caused(n, k)) <= s
         /\ n.history[1].dx = k => k = d \/ n.id \in Opened(a, k)
<1>1. PICK entry \in HistoryEntry :
        /\ entry.dx = d
        /\ \/ n.history = <<entry>>
           \/ \E q \in Known(a) : n.id = q.id /\ n.history = Append(q.history, entry)
  BY DEF BuiltFor
<1>2. Spent(a, k) \in Nat
  BY SpentIsBounded DEF CopiesInv
<1>3. CASE n.history = <<entry>>
  <2>1. Caused(n, k) = IF k = d THEN {1} ELSE {}
    BY <1>1, <1>3 DEF Caused
  <2>2. Cardinality({1}) = 1 /\ Cardinality({}) = 0
    BY FS_Singleton, FS_EmptySet
  <2>3. n.history # <<>> /\ n.history[1].dx = d
    BY <1>1, <1>3
  <2> QED BY <1>2, <2>1, <2>2, <2>3
<1>4. ASSUME NEW q \in Known(a), n.id = q.id, n.history = Append(q.history, entry)
      PROVE  /\ n.history # <<>> /\ Cardinality(Caused(n, k)) <= s
             /\ n.history[1].dx = k => k = d \/ n.id \in Opened(a, k)
  <2>1. q.history # <<>> /\ Cardinality(Caused(q, k)) <= Spent(a, k)
    BY DEF CopiesInv
  <2>2. q.history \in Seq(HistoryEntry)
    BY KnownIsIncident
  <2>3. Cardinality(Caused(n, k)) <= (IF k = d THEN Cardinality(Caused(q, k)) + 1
                                      ELSE Cardinality(Caused(q, k)))
    BY <1>1, <1>4, <2>2, CausedAppend
  <2>4. n.history \in Seq(HistoryEntry)
    BY DEF Incident
  <2>5. Cardinality(Caused(q, k)) \in Nat /\ Cardinality(Caused(n, k)) \in Nat
    BY <2>2, <2>4, CausedFinite
  <2>6. Cardinality(Caused(n, k)) <= s
    BY <1>2, <2>1, <2>3, <2>5
  <2>7. n.history # <<>> /\ n.history[1] = q.history[1]
    BY <1>4, <2>1, <2>2, <2>4
  <2>8. n.history[1].dx = k => n.id \in Opened(a, k)
    BY <1>4, <2>7 DEF Opened
  <2> QED BY <2>6, <2>7, <2>8
<1> QED BY <1>1, <1>3, <1>4

\* A lane that decides on a diagnosis and builds a record keeps its bounds.
LEMMA OneNew ==
  ASSUME TypeInv, TypeInv', NEW a \in Assets, CopiesInv(a), LaneOK(a)', OwnRecords(a)',
         NEW d \in Nat, Passes(a, d), NEW n \in Incident, BuiltFor(a, d, n),
         \A r \in Known(a)' : r = n \/ \E q \in Known(a) : SameRecord(r, q)
  PROVE  CopiesInv(a)'
<1>1. \A k \in Nat : /\ Spent(a, k) \in Nat /\ Spent(a, k)' \in Nat
                     /\ (IF k = d THEN Spent(a, k) + 1 ELSE Spent(a, k)) <= Spent(a, k)'
  BY DEF Passes
<1>2. ASSUME NEW r \in Known(a)', NEW k \in Nat
      PROVE  r.history # <<>> /\ Cardinality(Caused(r, k)) <= Spent(a, k)'
  <2>1. CASE r = n
    BY <1>1, <2>1, BuiltRecord
  <2>2. ASSUME NEW q \in Known(a), SameRecord(r, q)
        PROVE  r.history # <<>> /\ Cardinality(Caused(r, k)) <= Spent(a, k)'
    <3>1. Caused(r, k) = Caused(q, k) /\ r.history = q.history
      BY <2>2 DEF SameRecord, Caused
    <3>2. q.history # <<>> /\ Cardinality(Caused(q, k)) <= Spent(a, k)
      BY DEF CopiesInv
    <3>3. Cardinality(Caused(q, k)) \in Nat
      BY KnownIsIncident, CausedFinite
    <3>4. Spent(a, k) <= Spent(a, k)' /\ Spent(a, k) \in Nat /\ Spent(a, k)' \in Nat
      BY DEF Passes
    <3> QED BY <3>1, <3>2, <3>3, <3>4
  <2> QED BY <2>1, <2>2
<1>3. ASSUME NEW k \in Nat
      PROVE  IsFiniteSet(Opened(a, k)') /\ Cardinality(Opened(a, k)') <= Spent(a, k)'
  <2> DEFINE old == Opened(a, k)
             more == IF k = d THEN old \cup {n.id} ELSE old
  <2>1. IsFiniteSet(old) /\ Cardinality(old) <= Spent(a, k) /\ Cardinality(old) \in Nat
    BY FS_CardinalityType DEF CopiesInv
  <2>2. ASSUME NEW r \in Known(a)', r.history[1].dx = k PROVE r.id \in more
    <3>1. CASE \E q \in Known(a) : SameRecord(r, q)
      BY <2>2, <3>1 DEF SameRecord, Opened
    <3>2. CASE r = n
      BY <1>1, <2>2, <3>2, BuiltRecord
    <3> QED BY <3>1, <3>2
  <2>3. Opened(a, k)' \in SUBSET more
    <3>1. Opened(a, k)' = {r.id : r \in {q \in Known(a)' : q.history[1].dx = k}}
      BY DEF Opened
    <3> HIDE DEF more
    <3> QED BY <2>2, <3>1
  <2>4. /\ IsFiniteSet(more) /\ Cardinality(more) \in Nat
        /\ Cardinality(more) <= (IF k = d THEN Cardinality(old) + 1 ELSE Cardinality(old))
    <3>1. /\ IsFiniteSet(old \cup {n.id})
          /\ Cardinality(old \cup {n.id}) \in {Cardinality(old), Cardinality(old) + 1}
      BY <2>1, FS_AddElement
    <3> HIDE DEF old
    <3> QED BY <2>1, <3>1
  <2>5. /\ IsFiniteSet(Opened(a, k)') /\ Cardinality(Opened(a, k)') <= Cardinality(more)
        /\ Cardinality(Opened(a, k)') \in Nat
    BY <2>3, <2>4, FS_Subset, FS_CardinalityType
  <2>6. /\ Spent(a, k) \in Nat /\ Spent(a, k)' \in Nat
        /\ (IF k = d THEN Spent(a, k) + 1 ELSE Spent(a, k)) <= Spent(a, k)'
    BY <1>1
  <2> HIDE DEF old, more
  <2> QED BY <2>1, <2>4, <2>5, <2>6
<1>4. \A k \in Nat : Cardinality(Opened(a, k)') <= Spent(a, k)' /\ IsFiniteSet(Opened(a, k)')
  BY <1>3
<1> HIDE DEF Opened
<1> QED BY <1>2, <1>4 DEF CopiesInv, Caused

\* A step of the tables brings the lane of an asset nothing new to find: each row of
\* the asset is a record that is known already, and the index shows rows there are.
TableMoves(c) ==
  \A i \in Ids :
    /\ Real(table'[i]) /\ table'[i].asset = c => \E q \in Known(c) : SameRecord(table'[i], q)
    /\ index'[i] \in {index[i], table[i], table'[i]}

\* What is stored or indexed is known.
LEMMA StoredIsKnown ==
  ASSUME NEW c \in Assets, NEW i \in Ids, NEW r \in {table[i], index[i]}, Real(r), r.asset = c
  PROVE  r \in Known(c) /\ SameRecord(r, r)
BY DEF Known, SameRecord

\* A lane that keeps what it has in hand, or lets it go, learns of nothing new.
LEMMA StaysInformed ==
  ASSUME TypeInv, NEW c \in Assets, TableMoves(c), found'[c] \subseteq found[c],
         pc'[c] = "save" => pc[c] = "save" /\ plan'[c] = plan[c]
  PROVE  \A r \in Known(c)' : \E q \in Known(c) : SameRecord(r, q)
<1> SUFFICES ASSUME NEW r \in Known(c)' PROVE \E q \in Known(c) : SameRecord(r, q)
  OBVIOUS
<1>1. Real(r) /\ r.asset = c
  BY DEF Known, Real
<1>2. CASE \E i \in Ids : r = table'[i]
  BY <1>1, <1>2 DEF TableMoves
<1>3. ASSUME NEW i \in Ids, r = index'[i] PROVE \E q \in Known(c) : SameRecord(r, q)
  <2>1. r \in {index[i], table[i], table'[i]}
    BY <1>3 DEF TableMoves
  <2>2. CASE r = table'[i]
    BY <1>1, <2>2 DEF TableMoves
  <2>3. CASE r \in {table[i], index[i]}
    BY <1>1, <2>3, StoredIsKnown
  <2> QED BY <2>1, <2>2, <2>3
<1>4. CASE r \in found'[c] \/ (pc'[c] = "save" /\ r = plan'[c].subject)
  <2>1. r \in Known(c)
    BY <1>1, <1>4 DEF Known
  <2> QED BY <2>1 DEF SameRecord
<1> QED BY <1>2, <1>3, <1>4 DEF Known

\* Rows that are removed, put from a lane's plan, or stamped leave nothing new.
LEMMA StoreMoves ==
  ASSUME TypeInv, NEW t, Store(t), NEW c \in Assets,
         \A i \in Ids : \/ t[i] = table[i] \/ ~Real(t[i])
                        \/ Real(table[i]) /\ SameRecord(t[i], table[i]) /\ t[i].asset = table[i].asset
                        \/ t[i].asset # c \/ t[i] \in Known(c)
  PROVE  TableMoves(c)
<1> SUFFICES ASSUME NEW i \in Ids
             PROVE  /\ Real(table'[i]) /\ table'[i].asset = c
                         => \E q \in Known(c) : SameRecord(table'[i], q)
                    /\ index'[i] \in {index[i], table[i], table'[i]}
  BY DEF TableMoves
<1>1. table'[i] = t[i] /\ index'[i] \in {index[i], table'[i]}
  BY DEF Store
<1>2. ASSUME Real(t[i]), t[i].asset = c PROVE \E q \in Known(c) : SameRecord(t[i], q)
  <2>1. CASE t[i] = table[i]
    BY <1>2, <2>1, StoredIsKnown
  <2>2. CASE Real(table[i]) /\ SameRecord(t[i], table[i]) /\ t[i].asset = table[i].asset
    BY <1>2, <2>2, StoredIsKnown
  <2>3. CASE t[i] \in Known(c)
    BY <2>3 DEF SameRecord
  <2> QED BY <1>2, <2>1, <2>2, <2>3
<1> QED BY <1>1, <1>2

LEMMA NoStore ==
  ASSUME UNCHANGED <<table, index>>
  PROVE  (\A c \in Assets : TableMoves(c)) /\ (KeyedById => KeyedById')
<1>1. ASSUME NEW c \in Assets PROVE TableMoves(c)
  BY StoredIsKnown DEF TableMoves
<1> QED BY <1>1 DEF KeyedById

\* So does every step; and rows stay filed under their own id.
LEMMA TablesMove ==
  ASSUME TypeInv, KeyedById, \A c \in Assets : CopiesInv(c), [Next]_vars
  PROVE  (\A c \in Assets : TableMoves(c)) /\ KeyedById'
<1>1. ASSUME NEW a \in Assets, pc[a] = "save",
             Store([table EXCEPT ![plan[a].subject.id] = plan[a].subject])
      PROVE  (\A c \in Assets : TableMoves(c)) /\ KeyedById'
  <2> DEFINE n == plan[a].subject
             t == [table EXCEPT ![n.id] = n]
  <2>1. n \in Incident /\ n.id \in Ids /\ table \in [Ids -> Row \cup {None}]
    BY <1>1 DEF TypeInv, TypeOK, LocalsOK, Incident
  <2>2. n # None /\ Real(n)
    BY <2>1, RulesAssumption DEF RulesAssumption, Real, Row, Incident
  <2>3. n.asset = a
    BY <1>1, <2>1, <2>2 DEF CopiesInv, OwnRecords
  <2>4. n \in Known(a)
    BY <1>1, <2>1, <2>2, <2>3 DEF Known
  <2>5. \A i \in Ids : t[i] = IF i = n.id THEN n ELSE table[i]
    BY <2>1
  <2>6. ASSUME NEW c \in Assets PROVE TableMoves(c)
    <3>1. \A i \in Ids : t[i] = table[i] \/ t[i].asset # c \/ t[i] \in Known(c)
      BY <2>3, <2>4, <2>5
    <3> HIDE DEF t, n
    <3> QED BY <1>1, <3>1, StoreMoves DEF t, n
  <2>7. KeyedById'
    BY <1>1, <2>5 DEF Store, KeyedById
  <2> QED BY <2>6, <2>7
<1>2. ASSUME NEW i \in Ids, AcknowledgeIncident(i)
      PROVE  (\A c \in Assets : TableMoves(c)) /\ KeyedById'
  <2> DEFINE new == IF table[i] = None THEN GhostRow(i, clock)
                    ELSE [table[i] EXCEPT !.acknowledgedAt = clock]
             t == [table EXCEPT ![i] = new]
  <2>1. Store(t)
    BY <1>2 DEF AcknowledgeIncident
  <2>2. /\ table[i] = None => ~Real(new) /\ new.id = i
        /\ table[i] # None => /\ new.id = table[i].id /\ new.history = table[i].history
                              /\ new.asset = table[i].asset
                              /\ ~Real(table[i]) => ~Real(new)
    <3>1. CASE table[i] = None
      BY <3>1 DEF GhostRow, Real
    <3>2. CASE table[i] # None
      <4>1. table[i] \in Incident \/ table[i] \in Ghost
        BY <3>2 DEF TypeInv, TypeOK, Row
      <4>2. /\ new.id = table[i].id /\ new.history = table[i].history
            /\ new.asset = table[i].asset /\ new.status = table[i].status
        BY <3>2, <4>1 DEF Incident, Ghost
      <4> QED BY <3>2, <4>2 DEF Real
    <3> QED BY <3>1, <3>2
  <2>3. \A j \in Ids : t[j] = IF j = i THEN new ELSE table[j]
    BY DEF TypeInv, TypeOK
  <2> HIDE DEF new, t
  <2>4. ASSUME NEW c \in Assets PROVE TableMoves(c)
    <3>1. \A j \in Ids : \/ t[j] = table[j] \/ ~Real(t[j])
                         \/ /\ Real(table[j]) /\ SameRecord(t[j], table[j])
                            /\ t[j].asset = table[j].asset
      BY <2>2, <2>3 DEF SameRecord, Real
    <3> QED BY <2>1, <3>1, StoreMoves
  <2>5. KeyedById'
    BY <2>1, <2>2, <2>3 DEF Store, KeyedById
  <2> QED BY <2>4, <2>5
<1>3. ASSUME NEW t, Store(t), \A i \in Ids : t[i] \in {table[i], None}
      PROVE  (\A c \in Assets : TableMoves(c)) /\ KeyedById'
  <2>1. ASSUME NEW c \in Assets PROVE TableMoves(c)
    <3>1. \A i \in Ids : t[i] = table[i] \/ ~Real(t[i])
      BY <1>3 DEF Real
    <3> QED BY <1>3, <3>1, StoreMoves
  <2>2. KeyedById'
    BY <1>3 DEF Store, KeyedById
  <2> QED BY <2>1, <2>2
<1>4. ASSUME NEW a \in Assets, Deliver(a) \/ Work(a) \/ Fault(a)
      PROVE  (\A c \in Assets : TableMoves(c)) /\ KeyedById'
  <2>1. \/ UNCHANGED <<table, index>>
        \/ pc[a] = "save" /\ Store([table EXCEPT ![plan[a].subject.id] = plan[a].subject])
    BY <1>4 DEF Deliver, Work, Fault, QueryByStatus, Evaluate, Save, Emit, Commit, QueryFails,
                SaveFails, FailInvocation
  <2> QED BY <1>1, <2>1, NoStore
<1>5. ASSUME NEW a \in Assets, Operator(a)
      PROVE  (\A c \in Assets : TableMoves(c)) /\ KeyedById'
  <2>1. \/ UNCHANGED <<table, index>>
        \/ target[a] \in Ids /\ AcknowledgeIncident(target[a])
        \/ \E gone \in SUBSET clear[a] : Store([i \in Ids |-> IF i \in gone THEN None ELSE table[i]])
    BY <1>5 DEF Operator, AckQueryOpened, AckQueryEscalated, AckUpdate, AckFails, ClearScan,
                ClearDelete, TypeInv, LocalsOK
  <2>2. CASE \E gone \in SUBSET clear[a] : Store([i \in Ids |-> IF i \in gone THEN None ELSE table[i]])
    BY <1>3, <2>2
  <2> QED BY <1>2, <2>1, <2>2, NoStore
<1>6. ASSUME NEW i \in Ids, Expire(i) PROVE (\A c \in Assets : TableMoves(c)) /\ KeyedById'
  <2>1. \A j \in Ids : [table EXCEPT ![i] = None][j] \in {table[j], None}
    BY DEF TypeInv, TypeOK
  <2> QED BY <1>3, <1>6, <2>1 DEF Expire
<1>7. ASSUME NEW i \in Ids, Propagate(i) PROVE (\A c \in Assets : TableMoves(c)) /\ KeyedById'
  <2>1. table' = table /\ \A j \in Ids : index'[j] \in {index[j], table[j]}
    BY <1>7 DEF Propagate, TypeInv, TypeOK
  <2>2. ASSUME NEW c \in Assets PROVE TableMoves(c)
    BY <2>1, StoredIsKnown DEF TableMoves
  <2>3. KeyedById'
    BY <2>1 DEF KeyedById
  <2> QED BY <2>2, <2>3
<1>8. CASE Tick \/ UNCHANGED vars
  BY <1>8, NoStore DEF Tick, vars
<1> QED BY <1>4, <1>5, <1>6, <1>7, <1>8 DEF Next

\* A lane that takes no step keeps its bounds, whatever happens to the tables.
LEMMA OthersKeep ==
  ASSUME TypeInv, TypeInv', NEW c \in Assets, CopiesInv(c), TableMoves(c), SameBatch(c),
         pos'[c] = pos[c], tries'[c] = tries[c], pc'[c] = pc[c], found'[c] = found[c],
         plan'[c] = plan[c]
  PROVE  CopiesInv(c)'
<1>1. LaneOK(c) /\ LaneOK(c)' /\ OwnRecords(c)'
  BY DEF CopiesInv, LaneOK, OwnRecords, SameBatch
<1>2. \A k \in Nat : Spent(c, k) <= Spent(c, k)'
  BY <1>1, SpentGrows
<1>3. \A r \in Known(c)' : \E q \in Known(c) : SameRecord(r, q)
  BY StaysInformed
<1> QED BY <1>1, <1>2, <1>3, NothingNew

\* A query finds what the index shows of the asset.
LEMMA QueryKeeps ==
  ASSUME TypeInv, TypeInv', NEW a \in Assets, NEW s \in ActiveStatuses, CopiesInv(a),
         QueryByStatus(a, s)
  PROVE  CopiesInv(a)'
<1> DEFINE rows == {index[i] : i \in {j \in Ids : /\ index[j] # None
                                                  /\ index[j].asset = a
                                                  /\ index[j].status = s}}
<1>1. /\ found'[a] = found[a] \cup rows
      /\ pc'[a] = "find" /\ UNCHANGED <<table, index>>
  BY DEF QueryByStatus, TypeInv, TypeOK
<1>2. \A r \in rows : r \in Known(a) /\ r.asset = a
  BY RulesAssumption DEF Known, Real, RulesAssumption, Statuses
<1>3. LaneOK(a)' /\ \A k \in Nat : Spent(a, k) <= Spent(a, k)'
  BY LaneGoesOn DEF CopiesInv
<1>4. OwnRecords(a)'
  BY <1>1, <1>2 DEF CopiesInv, OwnRecords
<1>5. \A r \in Known(a)' : r \in Known(a)
  <2> HIDE DEF rows
  <2> QED BY <1>1, <1>2 DEF Known, Real
<1>6. \A r \in Known(a)' : \E q \in Known(a) : SameRecord(r, q)
  BY <1>5 DEF SameRecord
<1> QED BY <1>3, <1>4, <1>6, NothingNew

\* The rules build a record for the diagnosis at hand, or none.
LEMMA DecisionKeeps ==
  ASSUME TypeInv, TypeInv', NEW a \in Assets, CopiesInv(a), Evaluate(a)
  PROVE  CopiesInv(a)'
<1> DEFINE sev == Severity(a)
           act(existing) == RuleAction(sev, existing, clock)
           Decide(existing, subject) ==
             plan' = [plan EXCEPT ![a] = [action |-> act(existing), subject |-> subject]]
<1>1. pc[a] = "find" /\ sev \in Severities /\ Dx(a) \in Nat /\ clock \in Nat
  BY LaneFacts DEF Evaluate, TypeInv, TypeOK
<1>2. PICK existing \in MostRecent(found[a]) :
        /\ \/ /\ RuleOperation(sev, existing) = "create"
              /\ \E i \in FreshId :
                   Decide(existing, NewIncident(i, a, sev, act(existing), clock, Dx(a)))
           \/ /\ RuleOperation(sev, existing) = "update"
              /\ Decide(existing, UpdatedIncident(existing, sev, act(existing), clock, Dx(a)))
           \/ /\ RuleOperation(sev, existing) = "none"
              /\ Decide(existing, existing)
        /\ pc' = [pc EXCEPT ![a] = IF RuleOperation(sev, existing) = "none" THEN "emit" ELSE "save"]
  BY DEF Evaluate, NextCall
<1>3. UNCHANGED <<table, index, found>>
  BY DEF Evaluate
<1>4. existing \in Incident \cup {None} /\ (existing # None => existing \in found[a])
  BY <1>2, MostRecentSound DEF TypeInv, TypeOK
<1>5. act(existing) \in ActionTypes
  BY <1>1, <1>4, RuleActionType
<1>6. /\ LaneOK(a) /\ LaneOK(a)' /\ \A k \in Nat : Spent(a, k) <= Spent(a, k)'
      /\ Spent(a, Dx(a)) + 1 <= Spent(a, Dx(a))'
  BY DecisionCounts DEF CopiesInv
<1>7. Passes(a, Dx(a))
  <2>1. ASSUME NEW k \in Nat
        PROVE  /\ Spent(a, k) \in Nat /\ Spent(a, k)' \in Nat
               /\ Spent(a, k) <= Spent(a, k)'
               /\ k = Dx(a) => Spent(a, k) + 1 <= Spent(a, k)'
    <3>1. Spent(a, k) \in Nat /\ Spent(a, k)' \in Nat
      BY <1>6, SpentIsBounded, SpentStaysBounded
    <3>2. ASSUME k = Dx(a) PROVE Spent(a, k) + 1 <= Spent(a, k)'
      <4>1. Dx(a)' = Dx(a)
        BY DEF Dx, Evaluate
      <4> QED BY <1>6, <3>2, <4>1 DEF Spent
    <3> QED BY <1>6, <3>1, <3>2
  <2> QED BY <2>1 DEF Passes
<1> HIDE DEF sev, act
<1>8. ASSUME NEW n \in Incident, n.asset = a, BuiltFor(a, Dx(a), n), Decide(existing, n)
      PROVE  CopiesInv(a)'
  <2>1. plan'[a].subject = n
    BY <1>8 DEF TypeInv, TypeOK
  <2>2. \A r \in Known(a)' : r = n \/ r \in Known(a)
    BY <1>3, <2>1 DEF Known, Real
  <2>3. OwnRecords(a)'
    BY <1>3, <1>8, <2>1 DEF CopiesInv, OwnRecords
  <2>4. \A r \in Known(a)' : r = n \/ \E q \in Known(a) : SameRecord(r, q)
    BY <2>2 DEF SameRecord
  <2> QED BY <1>1, <1>6, <1>7, <1>8, <2>3, <2>4, OneNew
<1>9. CASE RuleOperation(sev, existing) = "create"
  <2>1. PICK i \in FreshId : Decide(existing, NewIncident(i, a, sev, act(existing), clock, Dx(a)))
    BY <1>2, <1>9
  <2> DEFINE n == NewIncident(i, a, sev, act(existing), clock, Dx(a))
             entry == [action |-> act(existing), dx |-> Dx(a)]
  <2>2. i \in Ids
    BY FreshIdIsNew
  <2>3. n \in Incident
    BY <1>1, <1>5, <2>2, NewIncidentType
  <2>4. n.asset = a /\ n.history = <<entry>>
    BY DEF NewIncident
  <2>5. entry \in HistoryEntry /\ entry.dx = Dx(a)
    BY <1>1, <1>5 DEF HistoryEntry
  <2>6. BuiltFor(a, Dx(a), n)
    BY <2>4, <2>5 DEF BuiltFor
  <2> HIDE DEF n
  <2> QED BY <1>8, <2>1, <2>3, <2>4, <2>6 DEF n
<1>10. CASE RuleOperation(sev, existing) = "update"
  <2> DEFINE n == UpdatedIncident(existing, sev, act(existing), clock, Dx(a))
             entry == [action |-> act(existing), dx |-> Dx(a)]
  <2>1. existing \in Incident /\ existing \in found[a]
    BY <1>1, <1>4, <1>10 DEF RuleOperation, Severities
  <2>2. existing \in Known(a) /\ existing.asset = a
    BY <2>1, RulesAssumption DEF CopiesInv, OwnRecords, Known, Real, RulesAssumption, Incident, Row
  <2>3. n \in Incident /\ n.id = existing.id /\ n.asset = a
    BY <1>1, <1>5, <2>1, <2>2, UpdatedIncidentType
  <2>4. n.history = Append(existing.history, entry)
    BY <2>1 DEF UpdatedIncident, Incident
  <2>5. entry \in HistoryEntry /\ entry.dx = Dx(a)
    BY <1>1, <1>5 DEF HistoryEntry
  <2>6. BuiltFor(a, Dx(a), n)
    BY <2>2, <2>3, <2>4, <2>5 DEF BuiltFor
  <2> HIDE DEF n
  <2> QED BY <1>2, <1>8, <1>10, <2>3, <2>6 DEF n
<1>11. CASE RuleOperation(sev, existing) = "none"
  <2>1. pc'[a] = "emit"
    BY <1>2, <1>11 DEF TypeInv, TypeOK
  <2>2. \A r \in Known(a)' : r \in Known(a)
    BY <1>3, <2>1 DEF Known, Real
  <2>3. OwnRecords(a)'
    BY <1>3, <2>1 DEF CopiesInv, OwnRecords
  <2>4. \A r \in Known(a)' : \E q \in Known(a) : SameRecord(r, q)
    BY <2>2 DEF SameRecord
  <2> QED BY <1>6, <2>3, <2>4, NothingNew
<1> QED BY <1>2, <1>9, <1>10, <1>11

\* Every step keeps the bounds of every asset.
LEMMA EffectsStep == EffectsInv /\ [Next]_vars => EffectsInv'
<1> SUFFICES ASSUME EffectsInv, [Next]_vars PROVE EffectsInv'
  OBVIOUS
<1>1. TypeInv /\ TypeInv' /\ \A a \in Assets : CopiesInv(a)
  BY TypeStep DEF EffectsInv
<1>2. KeyedById' /\ \A a \in Assets : TableMoves(a)
  BY <1>1, TablesMove DEF EffectsInv
<1>3. ASSUME UNCHANGED lane PROVE \A c \in Assets : CopiesInv(c)'
  BY <1>1, <1>2, <1>3, OthersKeep DEF lane, SameBatch
<1>4. ASSUME NEW a \in Assets, Deliver(a) \/ Work(a) \/ Fault(a), NEW c \in Assets
      PROVE  CopiesInv(c)'
  <2>1. ASSUME c # a PROVE CopiesInv(c)'
    <3>1. /\ SameBatch(c) /\ pos'[c] = pos[c] /\ tries'[c] = tries[c] /\ pc'[c] = pc[c]
          /\ found'[c] = found[c] /\ plan'[c] = plan[c]
      BY <1>1, <1>4, <2>1
      DEF Deliver, Work, Fault, QueryByStatus, Evaluate, Save, Emit, Commit, QueryFails,
          SaveFails, FailInvocation, Checkpoint, NextRecord, EnterRecord, FreshLocals,
          CountFailure, SameBatch, TypeInv, TypeOK
    <3> QED BY <1>1, <1>2, <3>1, OthersKeep
  <2>2. CASE \E s \in ActiveStatuses : QueryByStatus(a, s)
    BY <1>1, <2>1, <2>2, QueryKeeps
  <2>3. CASE Evaluate(a)
    BY <1>1, <2>1, <2>3, DecisionKeeps
  <2>4. CASE \/ Deliver(a) \/ Commit(a) \/ FailInvocation(a) \/ Save(a)
             \/ pc[a] \in {"find", "save", "emit"} /\ NextRecord(a)
    <3>1. LaneOK(a)' /\ \A k \in Nat : Spent(a, k) <= Spent(a, k)'
      BY <1>1, <2>4, LaneGoesOn DEF CopiesInv
    <3>2. found'[a] \subseteq found[a] /\ pc'[a] # "save"
      BY <1>1, <2>4
      DEF Deliver, Save, Commit, FailInvocation, Checkpoint, NextRecord, EnterRecord,
          FreshLocals, TypeInv, TypeOK
    <3>3. OwnRecords(a)'
      BY <1>1, <3>2 DEF CopiesInv, OwnRecords
    <3>4. \A r \in Known(a)' : \E q \in Known(a) : SameRecord(r, q)
      BY <1>1, <1>2, <3>2, StaysInformed
    <3>5. CopiesInv(a)'
      BY <1>1, <3>1, <3>3, <3>4, NothingNew
    <3> QED BY <2>1, <3>5
  <2> QED BY <1>4, <2>2, <2>3, <2>4 DEF Work, Fault, Emit, QueryFails, SaveFails
<1>5. CASE UNCHANGED vars
  BY <1>1, <1>2, <1>3, <1>5 DEF vars, EffectsInv
<1>6. CASE Tick \/ \E i \in Ids : Expire(i) \/ Propagate(i)
  BY <1>1, <1>2, <1>3, <1>6 DEF Tick, Expire, Propagate, EffectsInv
<1>7. ASSUME NEW a \in Assets, Operator(a) PROVE EffectsInv'
  <2>1. UNCHANGED lane
    BY <1>7 DEF Operator, AckQueryOpened, AckQueryEscalated, AckUpdate, AckFails, ClearScan,
                ClearDelete
  <2> QED BY <1>1, <1>2, <1>3, <2>1 DEF EffectsInv
<1>8. ASSUME NEW a \in Assets, Deliver(a) \/ Work(a) \/ Fault(a) PROVE EffectsInv'
  BY <1>1, <1>2, <1>4, <1>8 DEF EffectsInv
<1> QED BY <1>5, <1>6, <1>7, <1>8 DEF Next

\* Before the first delivery nothing has an effect.
LEMMA EffectsInvariant == Spec => []EffectsInv
<1>1. Init => EffectsInv
  <2> SUFFICES ASSUME Init PROVE EffectsInv
    OBVIOUS
  <2>1. TypeInv
    BY DEF Init, TypeInv, TypeOK, LocalsOK
  <2>2. KeyedById
    BY DEF Init, KeyedById
  <2>3. ASSUME NEW a \in Assets PROVE CopiesInv(a)
    <3>1. LaneOK(a) /\ OwnRecords(a)
      BY IncidentsAssumption DEF IncidentsAssumption, Init, LaneOK, OwnRecords
    <3>2. Known(a) = {}
      BY DEF Init, Known, Real
    <3>3. \A k \in Nat : Opened(a, k) = {}
      BY <3>2 DEF Opened
    <3>4. \A k \in Nat : Spent(a, k) \in Nat
      BY <2>1, <3>1, SpentIsBounded
    <3> QED BY <3>1, <3>2, <3>3, <3>4, FS_EmptySet DEF CopiesInv
  <2> QED BY <2>1, <2>2, <2>3 DEF EffectsInv
<1> QED BY <1>1, EffectsStep, PTL DEF Spec

\* However stale the index and the copies in hand are, whatever fails, is delivered
\* again, acknowledged, deleted or put back: a diagnosis opens at most one incident
\* per delivery of its batch, and is recorded in an incident at most as often.
THEOREM EffectsAreBounded == Spec => []EffectsBounded
<1>1. EffectsInv => EffectsBounded
  <2> SUFFICES ASSUME EffectsInv, NEW a \in Assets, NEW k \in 1 .. MaxDiagnoses
               PROVE  LET rows == {i \in Ids : Real(table[i]) /\ table[i].asset = a}
                      IN  /\ Cardinality({i \in rows : table[i].history[1].dx = k}) <= MaxRetries + 1
                          /\ \A i \in rows : Cardinality(Caused(table[i], k)) <= MaxRetries + 1
    BY DEF EffectsBounded
  <2> DEFINE rows == {i \in Ids : Real(table[i]) /\ table[i].asset = a}
             firsts == {i \in rows : table[i].history[1].dx = k}
  <2>1. k \in Nat /\ MaxRetries \in Nat
    BY IncidentsAssumption DEF IncidentsAssumption
  <2>2. TypeInv /\ KeyedById /\ CopiesInv(a) /\ LaneOK(a)
    BY DEF EffectsInv, CopiesInv
  <2>3. Spent(a, k) \in Nat /\ Spent(a, k) <= MaxRetries + 1
    BY <2>1, <2>2, SpentIsBounded
  <2>4. \A i \in rows : table[i] \in Known(a) /\ table[i].id = i
    BY <2>2, StoredIsKnown DEF KeyedById, Real
  <2>5. firsts \in SUBSET Opened(a, k)
    BY <2>4 DEF Opened
  <2>6. IsFiniteSet(Opened(a, k)) /\ Cardinality(Opened(a, k)) <= Spent(a, k)
    BY <2>1, <2>2 DEF CopiesInv
  <2>7. /\ Cardinality(firsts) <= Cardinality(Opened(a, k))
        /\ Cardinality(firsts) \in Nat /\ Cardinality(Opened(a, k)) \in Nat
    BY <2>5, <2>6, FS_Subset, FS_CardinalityType
  <2>8. ASSUME NEW i \in rows PROVE Cardinality(Caused(table[i], k)) <= MaxRetries + 1
    <3>1. table[i] \in Known(a)
      BY <2>4
    <3>2. Cardinality(Caused(table[i], k)) <= Spent(a, k)
      BY <2>1, <2>2, <3>1 DEF CopiesInv
    <3>3. Cardinality(Caused(table[i], k)) \in Nat
      BY <2>1, <2>2, <3>1, KnownIsIncident, CausedFinite
    <3> HIDE DEF rows
    <3> QED BY <2>1, <2>3, <3>2, <3>3
  <2>9. Cardinality(firsts) <= MaxRetries + 1
    <3> HIDE DEF firsts
    <3> QED BY <2>1, <2>3, <2>6, <2>7
  <2> QED BY <2>8, <2>9
<1> QED BY <1>1, EffectsInvariant, PTL

(***************************************************************************)
(* A batch leaves its lane within a number of steps fixed at delivery.     *)
(***************************************************************************)

\* Every query that returns counts, and there are two of them.
LEMMA AskedCount ==
  ASSUME NEW s \in SUBSET ActiveStatuses
  PROVE  /\ Cardinality(s) \in 0 .. 2
         /\ \A x \in ActiveStatuses \ s : Cardinality(s \cup {x}) = Cardinality(s) + 1
<1>1. IsFiniteSet(ActiveStatuses) /\ Cardinality(ActiveStatuses) = 2
  <2>1. IsFiniteSet({"opened"}) /\ Cardinality({"opened"}) = 1
    BY FS_Singleton
  <2>2. ActiveStatuses = {"opened"} \cup {"escalated"} /\ "escalated" \notin {"opened"}
    BY DEF ActiveStatuses
  <2> QED BY <2>1, <2>2, FS_AddElement
<1>2. IsFiniteSet(s) /\ Cardinality(s) <= 2 /\ Cardinality(s) \in Nat
  BY <1>1, FS_Subset, FS_CardinalityType
<1> QED BY <1>2, FS_AddElement

\* The steps within a record, at each point of processEvent.
Within(point, s) ==
  CASE point = "find" -> 6 - Cardinality(s)
    [] point = "save" -> 3 [] point = "emit" -> 2 [] point \in {"idle", "done"} -> 1

LEMMA WithinValue ==
  ASSUME NEW s \in SUBSET ActiveStatuses
  PROVE  /\ Within("find", s) = 6 - Cardinality(s) /\ Within("find", s) \in 4 .. 6
         /\ Within("save", s) = 3 /\ Within("emit", s) = 2
         /\ Within("idle", s) = 1 /\ Within("done", s) = 1
         /\ \A point \in {"idle", "find", "save", "emit", "done"} : Within(point, s) \in 1 .. 6
<1>1. Cardinality(s) \in 0 .. 2
  BY AskedCount
<1>2. Within("find", s) = 6 - Cardinality(s)
  BY DEF Within
<1>3. Within("save", s) = 3 /\ Within("emit", s) = 2
  BY DEF Within
<1>4. Within("idle", s) = 1 /\ Within("done", s) = 1
  BY DEF Within
<1>5. Within("find", s) \in 4 .. 6
  BY <1>1, <1>2
<1> QED BY <1>2, <1>3, <1>4, <1>5

\* The steps of t failed deliveries of n records, of which the present one is at record
\* p with w steps to take within it.
Left(t, n, p, w) == (MaxRetries - t) * (6 * n + 6) + 6 * (n + 1 - p) + w

\* Those of the deliveries still to come.
LEMMA ToComeFewer ==
  ASSUME NEW t \in Nat, MaxRetries \in Nat, NEW k \in Nat
  PROVE  /\ t <= MaxRetries => (MaxRetries - t) * k \in Nat
         /\ t < MaxRetries => (MaxRetries - t) * k = (MaxRetries - (t + 1)) * k + k
<1>1. \A x, y \in Nat : x * y \in Nat /\ (x + 1) * y = x * y + y
  OBVIOUS
<1>2. t <= MaxRetries => MaxRetries - t \in Nat
  OBVIOUS
<1>3. ASSUME t < MaxRetries
      PROVE  (MaxRetries - t) * k = (MaxRetries - (t + 1)) * k + k
  <2> DEFINE rest == MaxRetries - (t + 1)
  <2>1. rest \in Nat /\ MaxRetries - t = rest + 1
    BY <1>3
  <2> HIDE DEF rest
  <2>2. (rest + 1) * k = rest * k + k
    BY <1>1, <2>1
  <2> QED BY <2>1, <2>2 DEF rest
<1> QED BY <1>1, <1>2, <1>3

\* Going on within a delivery leaves fewer steps.
LEMMA FewerInDelivery ==
  ASSUME MaxRetries \in Nat, NEW t \in Nat, t <= MaxRetries, NEW n \in Nat,
         NEW p \in Nat, NEW q \in Nat, q <= n + 1, NEW w \in Nat, NEW v \in Nat,
         v + 6 * p < w + 6 * q
  PROVE  Left(t, n, q, v) \in Nat /\ Left(t, n, q, v) < Left(t, n, p, w)
<1> DEFINE later == (MaxRetries - t) * (6 * n + 6)
<1>1. later \in Nat
  <2>1. 6 * n + 6 \in Nat
    OBVIOUS
  <2> QED BY <2>1, ToComeFewer
<1>2. /\ Left(t, n, q, v) = later + 6 * (n + 1 - q) + v
      /\ Left(t, n, p, w) = later + 6 * (n + 1 - p) + w
  BY DEF Left
<1> HIDE DEF later
<1> QED BY <1>1, <1>2

\* Beginning the batch again leaves fewer steps: there is one delivery fewer to come.
LEMMA FewerDeliveries ==
  ASSUME MaxRetries \in Nat, NEW t \in Nat, t < MaxRetries, NEW n \in Nat,
         NEW p \in Nat, p <= n + 1, NEW w \in Nat \ {0}, NEW v \in 1 .. 6
  PROVE  Left(t + 1, n, 1, v) \in Nat /\ Left(t + 1, n, 1, v) < Left(t, n, p, w)
<1> DEFINE later == (MaxRetries - (t + 1)) * (6 * n + 6)
<1>1. /\ later \in Nat
      /\ (MaxRetries - t) * (6 * n + 6) = later + (6 * n + 6)
  <2>1. 6 * n + 6 \in Nat /\ t + 1 \in Nat /\ t + 1 <= MaxRetries
    OBVIOUS
  <2> QED BY <2>1, ToComeFewer
<1>2. /\ Left(t + 1, n, 1, v) = later + 6 * (n + 1 - 1) + v
      /\ Left(t, n, p, w) = later + (6 * n + 6) + 6 * (n + 1 - p) + w
  BY <1>1 DEF Left
<1> HIDE DEF later
<1> QED BY <1>1, <1>2

\* A delivery at work has a step to take.
LEMMA StepsToTake ==
  ASSUME MaxRetries \in Nat, NEW t \in Nat, t <= MaxRetries, NEW n \in Nat,
         NEW p \in Nat, p <= n + 1, NEW w \in Nat \ {0}
  PROVE  Left(t, n, p, w) \in Nat /\ 0 < Left(t, n, p, w)
<1> DEFINE later == (MaxRetries - t) * (6 * n + 6)
<1>1. later \in Nat
  <2>1. 6 * n + 6 \in Nat
    OBVIOUS
  <2> QED BY <2>1, ToComeFewer
<1>2. Left(t, n, p, w) = later + 6 * (n + 1 - p) + w
  BY DEF Left
<1> HIDE DEF later
<1> QED BY <1>1, <1>2

\* A step that leaves the lane fewer steps.
Shrinks(a) == StepsLeft(a)' \in Nat /\ StepsLeft(a)' < StepsLeft(a)

\* The lane of a batch as the measure sees it.
LEMMA LaneMeasure ==
  ASSUME TypeInv, NEW a \in Assets, LaneOK(a)
  PROVE  /\ MaxRetries \in Nat /\ tries[a] \in Nat /\ tries[a] <= MaxRetries
         /\ Len(batch[a]) \in Nat /\ pos[a] \in Nat
         /\ pc[a] # "idle" => pos[a] <= Len(batch[a]) + 1
         /\ pc[a] \in {"find", "save", "emit"} => pos[a] <= Len(batch[a])
         /\ asked[a] \in SUBSET ActiveStatuses
         /\ pc[a] \in {"idle", "find", "save", "emit", "done"}
         /\ Within(pc[a], asked[a]) \in 1 .. 6
<1>1. /\ MaxRetries \in Nat /\ tries[a] \in Nat /\ tries[a] <= MaxRetries
      /\ Len(batch[a]) \in Nat /\ pos[a] \in Nat
      /\ pc[a] \in {"find", "save", "emit"} => pos[a] <= Len(batch[a])
      /\ pc[a] = "done" => pos[a] = Len(batch[a]) + 1
      /\ asked[a] \in SUBSET ActiveStatuses
      /\ pc[a] \in {"idle", "find", "save", "emit", "done"}
  BY IncidentsAssumption DEF IncidentsAssumption, TypeInv, TypeOK, LaneOK, LocalsOK
<1> QED BY <1>1, WithinValue

LEMMA MeasureValue ==
  ASSUME NEW a \in Assets
  PROVE  /\ StepsLeft(a) =
              IF pc[a] = "idle" THEN 0
              ELSE Left(tries[a], Len(batch[a]), pos[a], Within(pc[a], asked[a]))
         /\ StepsLeft(a)' =
              IF pc'[a] = "idle" THEN 0
              ELSE Left(tries'[a], Len(batch'[a]), pos'[a], Within(pc'[a], asked'[a]))
BY DEF StepsLeft, WithinRecord, Within, Left

\* Going on in the same delivery, to a later record or further within this one.
LEMMA GoingOnShrinks ==
  ASSUME TypeInv, NEW a \in Assets, LaneOK(a), pc[a] # "idle", pc'[a] # "idle",
         tries'[a] = tries[a], batch'[a] = batch[a], pos'[a] \in Nat,
         pos'[a] <= Len(batch[a]) + 1, Within(pc'[a], asked'[a]) \in 1 .. 6,
         Within(pc'[a], asked'[a]) + 6 * pos[a] < Within(pc[a], asked[a]) + 6 * pos'[a]
  PROVE  Shrinks(a)
<1> DEFINE t == tries[a]
           n == Len(batch[a])
           p == pos[a]
           q == pos'[a]
           w == Within(pc[a], asked[a])
           v == Within(pc'[a], asked'[a])
<1>1. /\ MaxRetries \in Nat /\ t \in Nat /\ t <= MaxRetries /\ n \in Nat
      /\ p \in Nat /\ q \in Nat /\ q <= n + 1 /\ w \in Nat /\ v \in Nat
      /\ v + 6 * p < w + 6 * q
  <2>1. \A x \in 1 .. 6 : x \in Nat
    OBVIOUS
  <2>2. w \in 1 .. 6 /\ v \in 1 .. 6
    BY LaneMeasure
  <2>3. w \in Nat /\ v \in Nat
    BY <2>1, <2>2
  <2> HIDE DEF w, v
  <2> QED BY <2>3, LaneMeasure DEF w, v
<1>2. /\ StepsLeft(a) = Left(t, n, p, w)
      /\ StepsLeft(a)' = Left(t, n, q, v)
  BY MeasureValue
<1> HIDE DEF t, n, p, q, w, v
<1>3. Left(t, n, q, v) \in Nat /\ Left(t, n, q, v) < Left(t, n, p, w)
  BY <1>1, FewerInDelivery
<1> QED BY <1>2, <1>3 DEF Shrinks

\* What entering a record leaves of the measure's arguments.
LEMMA EnterRecordMeasure ==
  ASSUME TypeInv, NEW a \in Assets, NEW p \in Nat, EnterRecord(a, p)
  PROVE  /\ pos'[a] = p /\ batch'[a] = batch[a]
         /\ pc'[a] \in {"find", "done"} /\ asked'[a] = {}
         /\ Within(pc'[a], asked'[a]) \in 1 .. 6
<1>1. /\ pos'[a] = p /\ batch'[a] = batch[a]
      /\ pc'[a] \in {"find", "done"} /\ asked'[a] = {}
  BY DEF EnterRecord, FreshLocals, TypeInv, TypeOK
<1> QED BY <1>1, WithinValue

\* Each step of a lane on a batch ends it or leaves it fewer steps.
LEMMA LaneShrinks ==
  ASSUME TypeInv, NEW a \in Assets, LaneOK(a), pc[a] # "idle",
         Work(a) \/ Fault(a)
  PROVE  Shrinks(a)
<1> DEFINE n == Len(batch[a])
           w == Within(pc[a], asked[a])
<1>1. /\ MaxRetries \in Nat /\ tries[a] \in Nat /\ tries[a] <= MaxRetries /\ n \in Nat
      /\ pos[a] \in Nat /\ pos[a] <= n + 1 /\ w \in 1 .. 6
      /\ pc[a] \in {"find", "save", "emit"} => pos[a] <= n
      /\ asked[a] \in SUBSET ActiveStatuses
  BY LaneMeasure
<1>2. ASSUME EnterRecord(a, pos[a] + 1), UNCHANGED tries, pos[a] <= n,
             pc[a] \in {"find", "save", "emit"} \/ pos[a] < n
      PROVE  Shrinks(a)
  <2>1. pos[a] + 1 \in Nat
    BY <1>1
  <2>2. /\ pos'[a] = pos[a] + 1 /\ batch'[a] = batch[a] /\ tries'[a] = tries[a]
        /\ pc'[a] # "idle" /\ Within(pc'[a], asked'[a]) \in 1 .. 6
    BY <1>2, <2>1, EnterRecordMeasure
  <2> DEFINE v == Within(pc'[a], asked'[a])
  <2>3. v + 6 * pos[a] < w + 6 * pos'[a] /\ pos'[a] \in Nat /\ pos'[a] <= n + 1
    <3> HIDE DEF v, w, n
    <3>1. v \in 1 .. 6
      BY <2>2 DEF v
    <3> QED BY <1>1, <1>2, <2>2, <3>1
  <2> QED BY <2>2, <2>3, GoingOnShrinks
<1>3. ASSUME pc[a] \in {"find", "save", "emit"}, NextRecord(a) PROVE Shrinks(a)
  BY <1>1, <1>2, <1>3 DEF NextRecord
<1>4. ASSUME NEW s \in ActiveStatuses, QueryByStatus(a, s) PROVE Shrinks(a)
  <2>1. /\ pc[a] = "find" /\ pc'[a] = "find" /\ s \notin asked[a]
        /\ asked'[a] = asked[a] \cup {s}
        /\ tries'[a] = tries[a] /\ batch'[a] = batch[a] /\ pos'[a] = pos[a]
    BY <1>4 DEF QueryByStatus, TypeInv, TypeOK
  <2>2. /\ asked'[a] \in SUBSET ActiveStatuses
        /\ Cardinality(asked'[a]) = Cardinality(asked[a]) + 1
        /\ Cardinality(asked[a]) \in 0 .. 2
    BY <1>1, <2>1, AskedCount
  <2>3. /\ Within(pc[a], asked[a]) = 6 - Cardinality(asked[a])
        /\ Within(pc'[a], asked'[a]) = 6 - Cardinality(asked'[a])
        /\ Within(pc'[a], asked'[a]) \in 4 .. 6
    BY <1>1, <2>1, <2>2, WithinValue
  <2>4. Within(pc'[a], asked'[a]) + 6 * pos[a] < Within(pc[a], asked[a]) + 6 * pos'[a]
    <3> DEFINE c == Cardinality(asked[a])
               p == pos[a]
    <3>1. /\ c \in 0 .. 2 /\ p \in Nat /\ pos'[a] = p
          /\ Within(pc[a], asked[a]) = 6 - c /\ Within(pc'[a], asked'[a]) = 6 - (c + 1)
      BY <1>1, <2>1, <2>2, <2>3
    <3> HIDE DEF c, p
    <3>2. 6 - (c + 1) + 6 * p < 6 - c + 6 * p
      BY <3>1
    <3> QED BY <3>1, <3>2 DEF p
  <2>5. pos'[a] \in Nat /\ pos'[a] <= n + 1 /\ Within(pc'[a], asked'[a]) \in 1 .. 6
    BY <1>1, <2>1, <2>3
  <2> QED BY <2>1, <2>4, <2>5, GoingOnShrinks
<1>5. ASSUME Evaluate(a) PROVE Shrinks(a)
  <2>1. /\ pc[a] = "find" /\ pc'[a] \in {"save", "emit"} /\ asked'[a] = asked[a]
        /\ tries'[a] = tries[a] /\ batch'[a] = batch[a] /\ pos'[a] = pos[a]
    BY <1>5 DEF Evaluate, NextCall, TypeInv, TypeOK
  <2>2. Within(pc[a], asked[a]) \in 4 .. 6 /\ Within(pc'[a], asked'[a]) \in 2 .. 3
    BY <1>1, <2>1, WithinValue
  <2> QED BY <1>1, <2>1, <2>2, GoingOnShrinks
<1>6. ASSUME Save(a) PROVE Shrinks(a)
  <2>1. /\ pc[a] = "save" /\ pc'[a] = "emit" /\ asked'[a] = asked[a]
        /\ tries'[a] = tries[a] /\ batch'[a] = batch[a] /\ pos'[a] = pos[a]
    BY <1>6 DEF Save, TypeInv, TypeOK
  <2>2. Within(pc[a], asked[a]) = 3 /\ Within(pc'[a], asked'[a]) = 2
    BY <1>1, <2>1, WithinValue
  <2> QED BY <1>1, <2>1, <2>2, GoingOnShrinks
<1>7. ASSUME Checkpoint(a) PROVE Shrinks(a)
  <2>1. pc'[a] = "idle"
    BY <1>7 DEF Checkpoint, TypeInv, TypeOK
  <2>2. StepsLeft(a)' = 0 /\ StepsLeft(a) = Left(tries[a], n, pos[a], w)
    BY <2>1, MeasureValue
  <2>3. w \in Nat \ {0}
    BY <1>1
  <2> DEFINE t == tries[a]
             p == pos[a]
  <2>4. /\ MaxRetries \in Nat /\ t \in Nat /\ t <= MaxRetries /\ n \in Nat
        /\ p \in Nat /\ p <= n + 1 /\ w \in Nat \ {0} /\ StepsLeft(a) = Left(t, n, p, w)
    BY <1>1, <2>2, <2>3
  <2> HIDE DEF n, w, t, p
  <2>5. StepsLeft(a) \in Nat /\ 0 < StepsLeft(a)
    BY <2>4, StepsToTake
  <2> QED BY <2>2, <2>5 DEF Shrinks
<1>8. ASSUME tries[a] < MaxRetries, EnterRecord(a, 1), CountFailure(a) PROVE Shrinks(a)
  <2>1. /\ pos'[a] = 1 /\ batch'[a] = batch[a] /\ tries'[a] = tries[a] + 1
        /\ pc'[a] # "idle" /\ Within(pc'[a], asked'[a]) \in 1 .. 6
    BY <1>8, EnterRecordMeasure DEF CountFailure, TypeInv, TypeOK
  <2> DEFINE v == Within(pc'[a], asked'[a])
  <2>2. /\ StepsLeft(a) = Left(tries[a], n, pos[a], w)
        /\ StepsLeft(a)' = Left(tries[a] + 1, n, 1, v)
    BY <2>1, MeasureValue
  <2>3. v \in 1 .. 6 /\ w \in Nat \ {0}
    BY <1>1, <2>1
  <2> DEFINE t == tries[a]
             p == pos[a]
  <2>4. /\ MaxRetries \in Nat /\ t \in Nat /\ t < MaxRetries /\ n \in Nat
        /\ p \in Nat /\ p <= n + 1 /\ w \in Nat \ {0} /\ v \in 1 .. 6
        /\ StepsLeft(a) = Left(t, n, p, w) /\ StepsLeft(a)' = Left(t + 1, n, 1, v)
    BY <1>1, <1>8, <2>2, <2>3
  <2> HIDE DEF n, w, v, t, p
  <2>5. StepsLeft(a)' \in Nat /\ StepsLeft(a)' < StepsLeft(a)
    BY <2>4, FewerDeliveries
  <2> QED BY <2>5 DEF Shrinks
<1>9. CASE FailInvocation(a)
  <2>1. pos[a] < n => pos[a] <= n
    BY <1>1
  <2> QED BY <1>2, <1>7, <1>8, <1>9, <2>1 DEF FailInvocation
<1> QED BY <1>3, <1>4, <1>5, <1>6, <1>7, <1>9
        DEF Work, Fault, Emit, Commit, QueryFails, SaveFails

\* A batch of any length leaves its lane within a number of steps that its length and
\* the limit on the retries determine, whatever throws, times out or is bisected, and
\* whatever the other lanes, the operators and DynamoDB do meanwhile.
THEOREM BatchesShrink == Spec => BatchShrinks
<1>1. ASSUME EffectsInv, NEW a \in Assets, Work(a) \/ Fault(a) PROVE Shrinks(a)
  <2>1. TypeInv /\ LaneOK(a)
    BY <1>1 DEF EffectsInv, CopiesInv
  <2>2. pc[a] # "idle"
    BY <1>1
    DEF Work, Fault, QueryByStatus, Evaluate, Save, Emit, Commit, QueryFails, SaveFails,
        FailInvocation
  <2> QED BY <1>1, <2>1, <2>2, LaneShrinks
<1>2. ASSUME EffectsInv, [Next]_vars, NEW a \in Assets, ~(Work(a) \/ Fault(a)), pc[a] # "idle"
      PROVE  UNCHANGED StepsLeft(a)
  <2>1. TypeInv
    BY <1>2 DEF EffectsInv
  <2>2. ASSUME NEW b \in Assets, b # a, Deliver(b) \/ Work(b) \/ Fault(b)
        PROVE  UNCHANGED <<pc[a], pos[a], tries[a], batch[a], asked[a]>>
    BY <2>1, <2>2
    DEF Deliver, Work, Fault, QueryByStatus, Evaluate, Save, Emit, Commit, QueryFails,
        SaveFails, FailInvocation, Checkpoint, NextRecord, EnterRecord, FreshLocals,
        CountFailure, TypeInv, TypeOK
  <2>3. ASSUME NEW b \in Assets, Operator(b) PROVE UNCHANGED lane
    BY <2>3 DEF Operator, AckQueryOpened, AckQueryEscalated, AckUpdate, AckFails, ClearScan,
                ClearDelete
  <2>4. ASSUME Tick \/ (\E i \in Ids : Expire(i) \/ Propagate(i)) \/ UNCHANGED vars
        PROVE  UNCHANGED lane
    BY <2>4 DEF Tick, Expire, Propagate, vars
  <2>5. ~Deliver(a)
    BY <1>2 DEF Deliver
  <2>6. UNCHANGED <<pc[a], pos[a], tries[a], batch[a], asked[a]>>
    BY <1>2, <2>2, <2>3, <2>4, <2>5 DEF Next, lane
  <2> QED BY <2>6, MeasureValue
<1>3. EffectsInv /\ [Next]_vars =>
        [\A a \in Assets :
           IF Work(a) \/ Fault(a) THEN StepsLeft(a)' \in Nat /\ StepsLeft(a)' < StepsLeft(a)
           ELSE pc[a] # "idle" => UNCHANGED StepsLeft(a)]_vars
  BY <1>1, <1>2 DEF Shrinks
<1> QED BY <1>3, EffectsInvariant, PTL DEF Spec, BatchShrinks
=============================================================================
