----------------------------- MODULE ActionRules -----------------------------
(***************************************************************************)
(* The pure part of the Actions Agent: the first-match rule table          *)
(* (rules.ts, evaluateActionRules) and the construction of the incident    *)
(* record it writes (incident-builder.ts, buildIncidentRecord).            *)
(*                                                                         *)
(* Times are integers in the unit of the clock.  Free text (root cause,    *)
(* reason), the trace id and the last_*_event_id fields, which repeat the  *)
(* last entry of the action history, are left out.                         *)
(***************************************************************************)
EXTENDS Integers, Sequences

CONSTANTS
  Assets,               \* asset identifiers
  Ids,                  \* incident identifiers (randomUUID)
  EscalationThreshold,  \* ESCALATION_THRESHOLD_MS
  ResolvedTtl,          \* resolvedTtlHours, in clock units
  None                  \* null, and an absent item or attribute

Severities == {"info", "warning", "critical"}
ActiveStatuses == {"opened", "escalated"}
Statuses == ActiveStatuses \cup {"resolved"}
ActionTypes == {"monitor", "alert", "throttle", "shutdown_recommended", "resolve"}

\* An ActionHistoryEntry; dx is the diagnosis event that caused it.
HistoryEntry == [action : ActionTypes, dx : Nat]

\* An IncidentRecord as the Actions Agent writes it.
Incident == [id : Ids, asset : Assets, status : Statuses, severity : Severities,
             openedAt : Nat, escalatedAt : Nat \cup {None},
             resolvedAt : Nat \cup {None}, acknowledgedAt : Nat \cup {None},
             updatedAt : Nat, expiresAt : Nat \cup {None},
             history : Seq(HistoryEntry)]

\* What an UpdateItem on a missing key leaves: the key and the one attribute set.
Ghost == [id : Ids, asset : {None}, status : {None}, severity : {None},
          openedAt : {None}, escalatedAt : {None}, resolvedAt : {None},
          acknowledgedAt : Nat, updatedAt : {None}, expiresAt : {None},
          history : {<<>>}]

Row == Incident \cup Ghost

ASSUME RulesAssumption ==
  /\ EscalationThreshold \in Nat
  /\ ResolvedTtl \in Nat
  /\ None \notin Nat
  /\ None \notin Assets
  /\ None \notin Ids
  /\ None \notin Statuses \cup Severities
  /\ None \notin Row
  /\ None \notin [asset : Assets, status : Statuses, severity : Severities]

(***************************************************************************)
(* rules.ts: every rule that sees an existing incident updates it; without *)
(* one, every severity but info creates.                                   *)
(***************************************************************************)
RuleAction(severity, existing, now) ==
  CASE severity = "critical" -> "shutdown_recommended"
    [] severity = "warning" /\ existing = None -> "alert"
    [] severity = "warning" /\ existing # None ->
         IF now - existing.openedAt >= EscalationThreshold THEN "throttle" ELSE "monitor"
    [] severity = "info" /\ existing # None -> "resolve"
    [] severity = "info" /\ existing = None -> "monitor"

\* Mutant: a critical diagnosis opens an incident of its own.
RuleOperationCriticalCreates(severity, existing) ==
  CASE severity = "critical" -> "create"
    [] existing # None /\ severity # "critical" -> "update"
    [] existing = None /\ severity = "warning" -> "create"
    [] existing = None /\ severity = "info" -> "none"

RuleOperation(severity, existing) ==
  CASE existing # None -> "update"
    [] existing = None /\ severity # "info" -> "create"
    [] existing = None /\ severity = "info" -> "none"

-----------------------------------------------------------------------------
Rank(severity) ==
  CASE severity = "info" -> 0 [] severity = "warning" -> 1 [] severity = "critical" -> 2

\* Mutant: the incoming severity replaces the current one.
UpgradeSeverityReplaces(current, incoming) == incoming

UpgradeSeverity(current, incoming) ==
  IF Rank(incoming) > Rank(current) THEN incoming ELSE current

NewIncident(id, asset, severity, action, now, dx) ==
  [id |-> id, asset |-> asset,
   status |-> IF severity = "critical" THEN "escalated" ELSE "opened",
   severity |-> severity, openedAt |-> now,
   escalatedAt |-> IF severity = "critical" THEN now ELSE None,
   resolvedAt |-> None, acknowledgedAt |-> None, updatedAt |-> now,
   expiresAt |-> None, history |-> <<[action |-> action, dx |-> dx]>>]

\* Mutant: a further warning puts the status back.
NextStatusReopens(action, current) ==
  CASE action \in {"throttle", "shutdown_recommended"} -> "escalated"
    [] action = "resolve" -> "resolved"
    [] OTHER -> "opened"

\* Mutant: only a throttle escalates.
NextStatusThrottleOnly(action, current) ==
  CASE action = "throttle" -> "escalated"
    [] action = "resolve" -> "resolved"
    [] OTHER -> current

\* The status after the two "handle" blocks of buildIncidentRecord.
NextStatus(action, current) ==
  CASE action \in {"throttle", "shutdown_recommended"} -> "escalated"
    [] action = "resolve" -> "resolved"
    [] OTHER -> current

\* computeTtlEpoch
TtlEpoch(now) == now + ResolvedTtl

UpdatedIncident(existing, severity, action, now, dx) ==
  [existing EXCEPT
     !.severity = UpgradeSeverity(@, severity),
     !.status = NextStatus(action, @),
     !.escalatedAt = IF action \in {"throttle", "shutdown_recommended"} /\ @ = None
                       THEN now ELSE @,
     !.resolvedAt = IF action = "resolve" THEN now ELSE @,
     !.expiresAt = IF action = "resolve" THEN TtlEpoch(now) ELSE @,
     !.updatedAt = now,
     !.history = Append(@, [action |-> action, dx |-> dx])]

GhostRow(id, now) ==
  [id |-> id, asset |-> None, status |-> None, severity |-> None,
   openedAt |-> None, escalatedAt |-> None, resolvedAt |-> None,
   acknowledgedAt |-> now, updatedAt |-> None, expiresAt |-> None,
   history |-> <<>>]
=============================================================================
