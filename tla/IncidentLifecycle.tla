-------------------------- MODULE IncidentLifecycle --------------------------
(***************************************************************************)
(* What the Actions Agent promises about incidents: an asset has at most   *)
(* one active incident; an incident is opened by a warning or, escalated   *)
(* at once, by a critical diagnosis; it escalates but does not de-escalate *)
(* and its severity only rises; once resolved it only disappears.          *)
(***************************************************************************)
EXTENDS ActionRules

VARIABLE life  \* incident_id -> its asset, status and severity, or None

IsActive(i) == life[i] # None /\ life[i].status \in ActiveStatuses

Become(i, a, status, severity) ==
  life' = [life EXCEPT ![i] = [asset |-> a, status |-> status, severity |-> severity]]

Open(i, a) ==
  /\ life[i] = None
  /\ \A j \in Ids : IsActive(j) => life[j].asset # a
  /\ \/ Become(i, a, "opened", "warning")
     \/ Become(i, a, "escalated", "critical")

\* A further warning: the incident may be old enough to be escalated.
Warn(i) ==
  /\ IsActive(i)
  /\ Become(i, life[i].asset, "escalated", life[i].severity)

Criticize(i) ==
  /\ IsActive(i)
  /\ Become(i, life[i].asset, "escalated", "critical")

Resolve(i) ==
  /\ IsActive(i)
  /\ Become(i, life[i].asset, "resolved", life[i].severity)

Forget(i) ==
  /\ life[i] # None /\ life[i].status = "resolved"
  /\ life' = [life EXCEPT ![i] = None]

Init == life = [i \in Ids |-> None]

Next == \E i \in Ids :
  \/ \E a \in Assets : Open(i, a)
  \/ Warn(i) \/ Criticize(i) \/ Resolve(i) \/ Forget(i)

Spec == Init /\ [][Next]_life
=============================================================================
