------------------------------ MODULE Incidents ------------------------------
(***************************************************************************)
(* The incidents table and everyone who writes it:                         *)
(*   - the Actions Agent, one lane per asset (the event source mapping     *)
(*     keeps the records of a partition key in order and in one            *)
(*     invocation at a time), cut at every await of processEvent;          *)
(*   - the Conversation Agent's AcknowledgeIncident intent;                *)
(*   - the dashboard's incident clean-up;                                  *)
(*   - DynamoDB itself: the asset_id-status-index follows the table        *)
(*     asynchronously, and the TTL removes resolved rows.                  *)
(* A lane's batch is delivered again after a failed invocation, from its   *)
(* first record, at most MaxRetries times.                                 *)
(***************************************************************************)
EXTENDS ActionRules, FiniteSets

CONSTANTS
  IndexLag,      \* may the index trail the table?
  Requests,      \* operator requests of this instance: "acknowledge", "clear"
  MaxRetries,    \* failed invocations before the mapping gives a batch up
  MaxBatch,      \* bound: records in a batch
  MaxDiagnoses,  \* bound: diagnoses delivered in a behaviour
  MaxClock       \* bound: the clock stops here

ASSUME IncidentsAssumption ==
  /\ IndexLag \in BOOLEAN
  /\ Requests \subseteq {"acknowledge", "clear"}
  /\ {MaxRetries, MaxBatch, MaxDiagnoses, MaxClock} \subseteq Nat

VARIABLES
  clock,   \* Date.now()
  table,   \* incident_id -> row of the incidents table, or None
  index,   \* incident_id -> the copy of the row the index has
  issued,  \* the incident ids randomUUID has returned
  seen,    \* per asset: diagnoses delivered in earlier batches
  batch,   \* per asset: severities of the delivered diagnoses
  pos,     \* per asset: the record of the batch being processed
  tries,   \* per asset: failed invocations on this batch
  pc,      \* per asset: where processEvent is
  asked,   \* per asset: the statuses whose index query has returned
  found,   \* per asset: the rows those queries returned
  plan,    \* per asset: what the rules decided, or None
  emitted, \* the ActionEvents that reached r17-actions
  dlq,     \* the <<asset, diagnosis>> pairs that reached the dead-letter queue
  ack,     \* per asset: where the AcknowledgeIncident handler is
  target,  \* per asset: the incident it acknowledges
  told,    \* incidents whose acknowledgement was confirmed to the operator
  clear    \* per asset: ids scanned by a clean-up and still to be deleted

lane == <<seen, batch, pos, tries, pc, asked, found, plan>>
streams == <<emitted, dlq>>
operators == <<ack, target, told, clear>>
vars == <<clock, table, index, issued, lane, streams, operators>>

Dx(a) == seen[a] + pos[a]
Severity(a) == batch[a][pos[a]]

Active(row) == row # None /\ row.status \in ActiveStatuses
ActiveIds(a) == {i \in Ids : Active(table[i]) /\ table[i].asset = a}

\* A write to the table; an index that does not lag shows it at once.
Store(t) ==
  /\ table' = t
  /\ index' = IF IndexLag THEN index ELSE t

-----------------------------------------------------------------------------
(* Moving a lane from record to record.                                    *)

\* Mutant: the rows of an earlier record stay in hand.
FreshLocalsKeepFound(a) ==
  /\ asked' = [asked EXCEPT ![a] = {}]
  /\ plan' = [plan EXCEPT ![a] = None]
  /\ UNCHANGED found

\* The locals of a new call of processEvent.
FreshLocals(a) ==
  /\ asked' = [asked EXCEPT ![a] = {}]
  /\ found' = [found EXCEPT ![a] = {}]
  /\ plan' = [plan EXCEPT ![a] = None]

\* The locals of processEvent at its start, with the batch at record p;
\* past the last record the invocation is about to report success.
EnterRecord(a, p) ==
  /\ pos' = [pos EXCEPT ![a] = p]
  /\ pc' = [pc EXCEPT ![a] = IF p <= Len(batch[a]) THEN "find" ELSE "done"]
  /\ FreshLocals(a)
  /\ UNCHANGED <<seen, batch>>

NextRecord(a) == EnterRecord(a, pos[a] + 1) /\ UNCHANGED tries

\* sendToDLQ: a failed send is logged and swallowed.
SendToDLQ(a) == dlq' \in {dlq, dlq \cup {<<a, Dx(a)>>}}

\* The event source mapping invokes the agent with a batch of diagnoses.
Deliver(a) ==
  /\ pc[a] = "idle"
  /\ \E n \in 1..MaxBatch :
       /\ seen[a] + n <= MaxDiagnoses
       /\ \E b \in [1..n -> Severities] : batch' = [batch EXCEPT ![a] = b]
  /\ pos' = [pos EXCEPT ![a] = 1]
  /\ tries' = [tries EXCEPT ![a] = 0]
  /\ pc' = [pc EXCEPT ![a] = "find"]
  /\ UNCHANGED <<clock, table, index, issued, seen, asked, found, plan, streams, operators>>

\* The batch leaves the lane: a success, or the retries are used up.
Checkpoint(a) ==
  /\ seen' = [seen EXCEPT ![a] = @ + Len(batch[a])]
  /\ batch' = [batch EXCEPT ![a] = <<>>]
  /\ pos' = [pos EXCEPT ![a] = 0]
  /\ tries' = [tries EXCEPT ![a] = 0]
  /\ pc' = [pc EXCEPT ![a] = "idle"]
  /\ FreshLocals(a)

Commit(a) ==
  /\ pc[a] = "done"
  /\ Checkpoint(a)
  /\ UNCHANGED <<clock, table, index, issued, streams, operators>>

\* Mutant: failures are not counted.
CountFailureNever(a) == UNCHANGED tries

CountFailure(a) == tries' = [tries EXCEPT ![a] = @ + 1]

\* The invocation fails as a whole: a Lambda timeout, or JSON.parse of
\* another record of the batch.  The batch is delivered again; when the
\* retries are used up it is given up, or (bisected) goes on after the
\* record it stopped at.
FailInvocation(a) ==
  /\ pc[a] # "idle"
  /\ \/ /\ tries[a] < MaxRetries
        /\ EnterRecord(a, 1)
        /\ CountFailure(a)
     \/ /\ tries[a] = MaxRetries
        /\ pos[a] < Len(batch[a])
        /\ EnterRecord(a, pos[a] + 1)
        /\ UNCHANGED tries
     \/ /\ tries[a] = MaxRetries
        /\ Checkpoint(a)
  /\ UNCHANGED <<clock, table, index, issued, streams, operators>>

-----------------------------------------------------------------------------
(* processEvent of the Actions Agent.                                      *)

\* One of the two concurrent queries of findActiveIncident returns.
QueryByStatus(a, status) ==
  /\ pc[a] = "find"
  /\ status \notin asked[a]
  /\ asked' = [asked EXCEPT ![a] = @ \cup {status}]
  /\ found' = [found EXCEPT ![a] = @ \cup
                 {index[i] : i \in {j \in Ids : /\ index[j] # None
                                                /\ index[j].asset = a
                                                /\ index[j].status = status}}]
  /\ UNCHANGED <<clock, table, index, issued, seen, batch, pos, tries, pc, plan,
                 streams, operators>>

\* A query throws: PROCESSING_FAILED, and on to the next record.
QueryFails(a) ==
  /\ pc[a] = "find"
  /\ asked[a] # ActiveStatuses
  /\ SendToDLQ(a)
  /\ NextRecord(a)
  /\ UNCHANGED <<clock, table, index, issued, emitted, operators>>

\* The first of the sort by updated_at, descending and stable: among the
\* latest rows an opened one precedes an escalated one.
MostRecent(rows) ==
  LET latest == {r \in rows : \A q \in rows : q.updatedAt <= r.updatedAt}
      opened == {r \in latest : r.status = "opened"}
  IN  IF rows = {} THEN {None} ELSE IF opened # {} THEN opened ELSE latest

\* What processEvent does once the rules have decided.
NextCall(operation) == IF operation = "none" THEN "emit" ELSE "save"

\* randomUUID: an id never returned before; which one makes no difference.
FreshId == IF Ids \subseteq issued THEN {} ELSE {CHOOSE i \in Ids : i \notin issued}

\* Both queries are in: the rules run and the record to write is built.
Evaluate(a) ==
  /\ pc[a] = "find"
  /\ asked[a] = ActiveStatuses
  /\ \E existing \in MostRecent(found[a]) :
       LET action == RuleAction(Severity(a), existing, clock)
           operation == RuleOperation(Severity(a), existing)
           Decide(subject) == plan' = [plan EXCEPT ![a] = [action |-> action,
                                                           subject |-> subject]]
       IN  /\ \/ /\ operation = "create"
                 /\ \E i \in FreshId :
                      /\ issued' = issued \cup {i}
                      /\ Decide(NewIncident(i, a, Severity(a), action, clock, Dx(a)))
              \/ /\ operation = "update"
                 /\ Decide(UpdatedIncident(existing, Severity(a), action, clock, Dx(a)))
                 /\ UNCHANGED issued
              \/ /\ operation = "none"
                 /\ Decide(existing)
                 /\ UNCHANGED issued
           /\ pc' = [pc EXCEPT ![a] = NextCall(operation)]
  /\ UNCHANGED <<clock, table, index, seen, batch, pos, tries, asked, found,
                 streams, operators>>

\* saveIncident: an unconditional Put of the whole record.
Save(a) ==
  /\ pc[a] = "save"
  /\ Store([table EXCEPT ![plan[a].subject.id] = plan[a].subject])
  /\ pc' = [pc EXCEPT ![a] = "emit"]
  /\ UNCHANGED <<clock, issued, seen, batch, pos, tries, asked, found, plan,
                 streams, operators>>

\* Mutant: after a failed Put the event is published all the same.
SaveFailsGoesOn(a) ==
  /\ pc[a] = "save"
  /\ SendToDLQ(a)
  /\ pc' = [pc EXCEPT ![a] = "emit"]
  /\ UNCHANGED <<clock, table, index, issued, seen, batch, pos, tries, asked, found, plan,
                 emitted, operators>>

\* Mutant: a failed Put is answered by processing the record again.
SaveFailsAgain(a) ==
  /\ pc[a] = "save"
  /\ \/ Store([table EXCEPT ![plan[a].subject.id] = plan[a].subject])
     \/ UNCHANGED <<table, index>>
  /\ SendToDLQ(a)
  /\ EnterRecord(a, pos[a])
  /\ UNCHANGED <<clock, issued, tries, emitted, operators>>

\* The Put throws, whether or not DynamoDB applied it: INCIDENT_WRITE_FAILED.
SaveFails(a) ==
  /\ pc[a] = "save"
  /\ \/ Store([table EXCEPT ![plan[a].subject.id] = plan[a].subject])
     \/ UNCHANGED <<table, index>>
  /\ SendToDLQ(a)
  /\ NextRecord(a)
  /\ UNCHANGED <<clock, issued, emitted, operators>>

ActionEvent(a) ==
  LET s == plan[a].subject
  IN  [asset |-> a, dx |-> Dx(a), action |-> plan[a].action,
       incident |-> IF s = None THEN None ELSE s.id,
       status |-> IF s = None THEN None ELSE s.status]

\* putRecords never throws: the event is on the stream, or it is lost.
Emit(a) ==
  /\ pc[a] = "emit"
  /\ emitted' \in {emitted, emitted \cup {ActionEvent(a)}}
  /\ NextRecord(a)
  /\ UNCHANGED <<clock, table, index, issued, dlq, operators>>

-----------------------------------------------------------------------------
(* The Conversation Agent's AcknowledgeIncident intent.                    *)

Indexed(a, status) ==
  {i \in Ids : index[i] # None /\ index[i].asset = a /\ index[i].status = status}

AckQueryOpened(a) ==
  /\ "acknowledge" \in Requests
  /\ ack[a] = "idle"
  /\ \/ /\ \E i \in Indexed(a, "opened") : target' = [target EXCEPT ![a] = i]
        /\ ack' = [ack EXCEPT ![a] = "update"]
     \/ /\ Indexed(a, "opened") = {}
        /\ ack' = [ack EXCEPT ![a] = "escalated"]
        /\ UNCHANGED target
  /\ UNCHANGED <<clock, table, index, issued, lane, streams, told, clear>>

AckQueryEscalated(a) ==
  /\ ack[a] = "escalated"
  /\ \/ /\ \E i \in Indexed(a, "escalated") : target' = [target EXCEPT ![a] = i]
        /\ ack' = [ack EXCEPT ![a] = "update"]
     \/ /\ Indexed(a, "escalated") = {}
        /\ ack' = [ack EXCEPT ![a] = "idle"]
        /\ UNCHANGED target
  /\ UNCHANGED <<clock, table, index, issued, lane, streams, told, clear>>

\* acknowledgeIncident: an UpdateItem SET acknowledged_at without a condition.
AcknowledgeIncident(i) ==
  Store([table EXCEPT ![i] = IF @ = None THEN GhostRow(i, clock)
                             ELSE [@ EXCEPT !.acknowledgedAt = clock]])

AckUpdate(a) ==
  /\ ack[a] = "update"
  /\ AcknowledgeIncident(target[a])
  /\ told' = told \cup {target[a]}
  /\ ack' = [ack EXCEPT ![a] = "idle"]
  /\ target' = [target EXCEPT ![a] = None]
  /\ UNCHANGED <<clock, issued, lane, streams, clear>>

\* A DynamoDB call throws, an UpdateItem perhaps after it was applied: the
\* router answers with an internal error.
AckFails(a) ==
  /\ ack[a] # "idle"
  /\ \/ ack[a] = "update" /\ AcknowledgeIncident(target[a])
     \/ UNCHANGED <<table, index>>
  /\ ack' = [ack EXCEPT ![a] = "idle"]
  /\ target' = [target EXCEPT ![a] = None]
  /\ UNCHANGED <<clock, issued, lane, streams, told, clear>>

-----------------------------------------------------------------------------
(* The dashboard's clean-up, and DynamoDB.                                 *)

ClearScan(a) ==
  /\ "clear" \in Requests
  /\ clear[a] = {}
  /\ clear' = [clear EXCEPT ![a] = {i \in Ids : table[i] # None /\ table[i].asset = a}]
  /\ UNCHANGED <<clock, table, index, issued, lane, streams, ack, target, told>>

\* BatchWrite of the scanned keys; unprocessed items are not sent again.
ClearDelete(a) ==
  /\ clear[a] # {}
  /\ \E gone \in SUBSET clear[a] :
       Store([i \in Ids |-> IF i \in gone THEN None ELSE table[i]])
  /\ clear' = [clear EXCEPT ![a] = {}]
  /\ UNCHANGED <<clock, issued, lane, streams, ack, target, told>>

\* The TTL on expires_at.
Expire(i) ==
  /\ table[i] # None
  /\ table[i].expiresAt # None
  /\ table[i].expiresAt <= clock
  /\ Store([table EXCEPT ![i] = None])
  /\ UNCHANGED <<clock, issued, lane, streams, operators>>

Propagate(i) ==
  /\ index[i] # table[i]
  /\ index' = [index EXCEPT ![i] = table[i]]
  /\ UNCHANGED <<clock, table, issued, lane, streams, operators>>

Tick ==
  /\ clock < MaxClock
  /\ clock' = clock + 1
  /\ UNCHANGED <<table, index, issued, lane, streams, operators>>

-----------------------------------------------------------------------------
Init ==
  /\ clock = 0
  /\ table = [i \in Ids |-> None]
  /\ index = [i \in Ids |-> None]
  /\ issued = {}
  /\ seen = [a \in Assets |-> 0]
  /\ batch = [a \in Assets |-> <<>>]
  /\ pos = [a \in Assets |-> 0]
  /\ tries = [a \in Assets |-> 0]
  /\ pc = [a \in Assets |-> "idle"]
  /\ asked = [a \in Assets |-> {}]
  /\ found = [a \in Assets |-> {}]
  /\ plan = [a \in Assets |-> None]
  /\ emitted = {}
  /\ dlq = {}
  /\ ack = [a \in Assets |-> "idle"]
  /\ target = [a \in Assets |-> None]
  /\ told = {}
  /\ clear = [a \in Assets |-> {}]

\* A step of a lane that its Lambda invocation takes by itself.
Work(a) ==
  \/ \E s \in ActiveStatuses : QueryByStatus(a, s)
  \/ Evaluate(a) \/ Save(a) \/ Emit(a) \/ Commit(a)

Fault(a) == QueryFails(a) \/ SaveFails(a) \/ FailInvocation(a)

Operator(a) ==
  \/ AckQueryOpened(a) \/ AckQueryEscalated(a) \/ AckUpdate(a) \/ AckFails(a)
  \/ ClearScan(a) \/ ClearDelete(a)

Next ==
  \/ \E a \in Assets : Deliver(a) \/ Work(a) \/ Fault(a) \/ Operator(a)
  \/ \E i \in Ids : Expire(i) \/ Propagate(i)
  \/ Tick

Spec == Init /\ [][Next]_vars

\* A delivered batch is worked on: Lambda runs an invocation until it ends.
FairSpec == Spec /\ \A a \in Assets : WF_vars(Work(a))

-----------------------------------------------------------------------------
(* Properties.                                                             *)

Plan == [action : ActionTypes, subject : Incident \cup {None}]

Emission == [asset : Assets, dx : Nat, action : ActionTypes,
             incident : Ids \cup {None}, status : Statuses \cup {None}]

\* Type invariant.
TypeOK ==
  /\ clock \in Nat
  /\ table \in [Ids -> Row \cup {None}]
  /\ index \in [Ids -> Row \cup {None}]
  /\ issued \subseteq Ids
  /\ seen \in [Assets -> Nat] /\ pos \in [Assets -> Nat] /\ tries \in [Assets -> Nat]
  /\ batch \in [Assets -> Seq(Severities)]
  /\ pc \in [Assets -> {"idle", "find", "save", "emit", "done"}]
  /\ asked \in [Assets -> SUBSET ActiveStatuses]
  /\ found \in [Assets -> SUBSET Incident]
  /\ plan \in [Assets -> Plan \cup {None}]
  /\ emitted \subseteq Emission
  /\ dlq \subseteq Assets \X Nat
  /\ ack \in [Assets -> {"idle", "escalated", "update"}]
  /\ target \in [Assets -> Ids \cup {None}]
  /\ told \subseteq Ids
  /\ clear \in [Assets -> SUBSET Ids]

\* What the locals hold at each point of processEvent and of the handler.
LocalsOK ==
  \A a \in Assets :
    /\ pc[a] \in {"find", "save", "emit"} => pos[a] \in 1..Len(batch[a])
    /\ pc[a] \in {"save", "emit"} => plan[a] \in Plan
    /\ pc[a] = "save" => plan[a].subject \in Incident
    /\ ack[a] = "update" => target[a] \in Ids

\* A row that somebody opened as an incident, not the residue of an update.
Real(row) == row # None /\ row.status # None

\* An asset never has two active incidents, although the lane that creates
\* them only looks at the index, is cut at every await, and runs records again.
OneActiveIncident == \A a \in Assets : \A i, j \in ActiveIds(a) : i = j

\* Why there is only one, if the index does not lag: what the finished queries
\* returned is the active incident, if there is one, and so is the incident
\* about to be written.
KeyedById == \A i \in Ids : table[i] # None => table[i].id = i

FoundIsActive(a) ==
  /\ \A r \in found[a] : r.asset = a
  /\ \A i \in ActiveIds(a) : \A r \in found[a] : r.id = i
  /\ \A i \in ActiveIds(a) : table[i].status \in asked[a] => found[a] # {}

PlanIsActive(a) ==
  /\ plan[a].subject.asset = a
  /\ \A i \in ActiveIds(a) : plan[a].subject.id = i

\* The inductive form of OneActiveIncident, over the lanes' locals: it holds
\* between any two awaits of findActiveIncident and saveIncident.
OneActiveInv ==
  /\ index = table
  /\ KeyedById
  /\ OneActiveIncident
  /\ \A a \in Assets :
       /\ pc[a] \in {"idle", "find"} => FoundIsActive(a)
       /\ pc[a] = "save" => PlanIsActive(a)

\* "Severity can only upgrade": no write of the stored record lowers it,
\* whatever the writer had read when the row was last written.
SeverityNeverDowngrades ==
  [][\A i \in Ids : Real(table[i]) /\ Real(table'[i])
       => Rank(table'[i].severity) >= Rank(table[i].severity)]_vars

\* No Put of a record read earlier drops an action another attempt recorded.
HistoryIsAppendOnly ==
  [][\A i \in Ids : Real(table[i]) /\ Real(table'[i])
       => \E n \in 0..Len(table'[i].history) :
            table[i].history = SubSeq(table'[i].history, 1, n)]_vars

\* A published action can be found in the history of the incident it names,
\* as long as that incident is stored.
EmittedIsRecorded ==
  \A e \in emitted :
    e.incident # None /\ Real(table[e.incident])
      => \E k \in 1..Len(table[e.incident].history) :
           table[e.incident].history[k] = [action |-> e.action, dx |-> e.dx]

\* The stamps of a record agree with its status and severity: an opened
\* incident was never escalated and is a warning, a critical one was escalated,
\* the escalation lies between opening and the last update, and exactly the
\* resolved ones can expire.
StampsOK(r) ==
  /\ r.severity # "info"
  /\ r.status = "opened" => r.severity = "warning" /\ r.escalatedAt = None
  /\ r.severity = "critical" \/ r.status = "escalated" => r.escalatedAt # None
  /\ r.escalatedAt # None => r.openedAt <= r.escalatedAt /\ r.escalatedAt <= r.updatedAt
  /\ r.status = "resolved" <=> r.resolvedAt # None
  /\ r.status = "resolved" => r.expiresAt = r.resolvedAt + ResolvedTtl
  /\ r.expiresAt # None => r.status = "resolved"

\* The stamps of the stored records are consistent, also of those that were
\* built from a stale copy or put over a newer one.
StampsConsistent == \A i \in Ids : Real(table[i]) => StampsOK(table[i])

\* The entries of a record's history that a diagnosis caused.
Caused(r, k) == {j \in DOMAIN r.history : r.history[j].dx = k}

\* A diagnosis opens at most one incident per delivery of its batch, and is in the
\* history of an incident at most as often, however stale the copies are that
\* processEvent finds and builds its records from.
EffectsBounded ==
  \A a \in Assets : \A k \in 1..MaxDiagnoses :
    LET rows == {i \in Ids : Real(table[i]) /\ table[i].asset = a}
    IN  /\ Cardinality({i \in rows : table[i].history[1].dx = k}) <= MaxRetries + 1
        /\ \A i \in rows : Cardinality(Caused(table[i], k)) <= MaxRetries + 1

\* A confirmed acknowledgement stays on the incident while it is stored.  This fails
\* with Requests = {"acknowledge"}: the record saveIncident puts carries the
\* acknowledged_at of the copy that was read before.
AcknowledgementKept ==
  \A i \in told : Real(table[i]) => table[i].acknowledgedAt # None

\* A delivered batch does not block its lane for ever: it is completed, or
\* given up after the retries.
BatchSettles == \A a \in Assets : pc[a] # "idle" ~> pc[a] = "idle"

\* How many steps the lane has left on its batch at most: those within a record,
\* for each record of this delivery and of each one still to come.
WithinRecord(a) ==
  CASE pc[a] = "find" -> 6 - Cardinality(asked[a])
    [] pc[a] = "save" -> 3 [] pc[a] = "emit" -> 2 [] pc[a] \in {"idle", "done"} -> 1

StepsLeft(a) ==
  LET length == Len(batch[a])
  IN  IF pc[a] = "idle" THEN 0
      ELSE (MaxRetries - tries[a]) * (6 * length + 6) + 6 * (length + 1 - pos[a]) + WithinRecord(a)

\* A delivered batch leaves its lane after a number of steps that only its length and
\* the limit on the retries determine: each step of the lane leaves fewer, and nothing
\* else adds any.
BatchShrinks ==
  [][\A a \in Assets :
       IF Work(a) \/ Fault(a) THEN StepsLeft(a)' \in Nat /\ StepsLeft(a)' < StepsLeft(a)
       ELSE pc[a] # "idle" => UNCHANGED StepsLeft(a)]_vars

-----------------------------------------------------------------------------
(* The life cycle a reader of the table sees.                              *)

Life(row) ==
  IF Real(row) THEN [asset |-> row.asset, status |-> row.status, severity |-> row.severity]
  ELSE None

Lifecycle == INSTANCE IncidentLifecycle WITH life <- [i \in Ids |-> Life(table[i])]

\* The records written by the Actions Agent follow the documented life cycle.
FollowsLifecycle == Lifecycle!Spec
=============================================================================
