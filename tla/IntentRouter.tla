----------------------------- MODULE IntentRouter -----------------------------
(***************************************************************************)
(* The Conversation Agent: the router and its intent handlers, one turn    *)
(* after another, cut at every await; the structured log it writes and the *)
(* panel of recent conversations the dashboard reads from that log.        *)
(*                                                                         *)
(* The table entries of the asset spoken of change under a turn, as the    *)
(* pipeline and the operators change them; AssetState and Incidents are    *)
(* the detailed models of that.  The wording of prompts and answers, the   *)
(* SSML around them and the token counts are left out.                     *)
(***************************************************************************)
EXTENDS Naturals, Sequences, FiniteSets

CONSTANTS
  Intents,     \* the intents of an instance
  MaxChanges,  \* bound: changes of the tables
  PanelLimit,  \* limit of the panel's query
  Failing,     \* may the awaits of a handler throw?
  Nothing      \* null: no item, no incident, no slot, no turn

HandledIntents == {"AssetStatus", "FleetOverview", "ExplainRisk", "RecommendAction",
                   "AcknowledgeIncident"}
AssetIntents == HandledIntents \ {"FleetOverview"}

ASSUME RouterAssumption ==
  /\ {MaxChanges, PanelLimit} \subseteq Nat
  /\ Failing \in BOOLEAN
  /\ Nothing \notin {"nominal", "elevated", "critical", "partial", "opened", "escalated"}

VARIABLES
  item,      \* risk_state of the asset's item; "partial" if it has none; or Nothing
  incident,  \* status of the asset's active incident, or Nothing
  changes,   \* changes of the two so far
  turn,      \* the turn being handled, or Nothing
  log        \* the log events, in order: [event, turn, ...]

world == <<item, incident, changes>>
router == <<turn, log>>

\* What a turn knows.  The history fields tell what was true during it: whether
\* the incident looked for has been active since, and whether the asset was
\* nominal at some moment.
Turn == [number : Nat \ {0}, intent : Intents, named : BOOLEAN,
         pc : {"state", "scan", "opened", "escalated", "update", "bedrock", "answer", "failed"},
         state : {"nominal", "elevated", "critical", "partial", Nothing},
         found : BOOLEAN, used : BOOLEAN, confidence : {"matched", "fallback", "no_data"},
         steady : BOOLEAN, calm : BOOLEAN]

ASSUME TurnAssumption == Nothing \notin Turn

RouterInit ==
  /\ item \in {"nominal", "critical", Nothing}
  /\ incident \in {"opened", Nothing}
  /\ changes = 0 /\ turn = Nothing /\ log = <<>>

-----------------------------------------------------------------------------
(* The tables change.                                                      *)

\* During a turn: is its incident still the same, was the asset nominal?
Witnessed(newItem, newIncident) ==
  IF turn = Nothing THEN turn
  ELSE [turn EXCEPT !.steady = @ /\ newIncident # Nothing,
                    !.calm = @ \/ newItem = "nominal"]

Change(newItem, newIncident) ==
  /\ changes < MaxChanges
  /\ changes' = changes + 1
  /\ item' = newItem /\ incident' = newIncident
  /\ turn' = Witnessed(newItem, newIncident)
  /\ UNCHANGED log

Assessed == \E s \in {"nominal", "elevated", "critical"} \ {item} : Change(s, incident)
ItemDeleted == item # Nothing /\ Change(Nothing, incident)
ItemRecreated == item = Nothing /\ Change("partial", incident)
IncidentOpened == incident = Nothing /\ Change(item, "opened")
IncidentEscalated == incident = "opened" /\ Change(item, "escalated")
IncidentGone == incident # Nothing /\ Change(item, Nothing)

Pipeline == Assessed \/ ItemDeleted \/ ItemRecreated
            \/ IncidentOpened \/ IncidentEscalated \/ IncidentGone

-----------------------------------------------------------------------------
(* route()                                                                 *)

Handled(t) == t.intent \in HandledIntents

\* resolveHandlerName and the dispatch: the first await of the handler.
FirstAwait(intent, named) ==
  IF intent \notin HandledIntents \/ (intent \in AssetIntents /\ ~named) THEN "answer"
  ELSE CASE intent \in {"AssetStatus", "ExplainRisk"} -> "state"
         [] intent = "FleetOverview" -> "scan"
         [] intent \in {"RecommendAction", "AcknowledgeIncident"} -> "opened"

\* The confidence of an answer given without a lookup.
Unaided(intent) == IF intent \in HandledIntents THEN "no_data" ELSE "fallback"

Entry(event, number) == [event |-> event, turn |-> number]

\* A request arrives from Lex; the handler runs up to its first await.
Receive ==
  /\ turn = Nothing
  /\ \E intent \in Intents, named \in BOOLEAN :
       LET number == IF log = <<>> THEN 1 ELSE log[Len(log)].turn + 1
       IN  /\ turn' = [number |-> number, intent |-> intent, named |-> named,
                       pc |-> FirstAwait(intent, named), state |-> Nothing,
                       found |-> FALSE, used |-> FALSE, confidence |-> Unaided(intent),
                       steady |-> incident # Nothing, calm |-> item = "nominal"]
           /\ log' = log \o <<Entry("request_received", number),
                              Entry("intent_resolved", number)>>
  /\ UNCHANGED world

Go(place) == turn' = [turn EXCEPT !.pc = place]
Conclude(confidence) == turn' = [turn EXCEPT !.pc = "answer", !.confidence = confidence]

\* AssetStatus: a nominal asset needs no Bedrock.
ReadStatus ==
  /\ turn # Nothing /\ turn.pc = "state" /\ turn.intent = "AssetStatus"
  /\ IF item = Nothing THEN Conclude("no_data")
     ELSE IF item = "nominal" THEN Conclude("matched")
     ELSE Go("bedrock")
  /\ UNCHANGED <<world, log>>

\* ExplainRisk reads the state first, then the incident.
ReadState ==
  /\ turn # Nothing /\ turn.pc = "state" /\ turn.intent = "ExplainRisk"
  /\ turn' = [turn EXCEPT !.state = item, !.pc = "opened", !.steady = incident # Nothing]
  /\ UNCHANGED <<world, log>>

\* FleetOverview: items without a risk_state count as at risk.
ScanFleet ==
  /\ turn # Nothing /\ turn.pc = "scan"
  /\ IF item = Nothing THEN Conclude("no_data")
     ELSE IF item = "nominal" THEN Conclude("matched")
     ELSE Go("bedrock")
  /\ UNCHANGED <<world, log>>

\* Mutant: without an incident an asset is said to be fine, whatever its state.
FineWithoutIncident(t, found) ==
  [t EXCEPT !.found = found, !.confidence = IF found THEN "no_data" ELSE "matched",
            !.pc = IF ~found THEN "answer"
                   ELSE IF t.intent = "AcknowledgeIncident" THEN "update" ELSE "bedrock"]
\* What a handler does when findActiveIncident returns.
After(t, found) ==
  LET u == [t EXCEPT !.found = found]
      concluded(confidence) == [u EXCEPT !.pc = "answer", !.confidence = confidence]
  IN  CASE t.intent = "ExplainRisk" /\ ~found /\ t.state = Nothing -> concluded("no_data")
        [] t.intent = "ExplainRisk" /\ ~found /\ t.state = "nominal" -> concluded("matched")
        [] t.intent = "ExplainRisk" /\ (found \/ t.state \notin {"nominal", Nothing}) ->
             [u EXCEPT !.pc = "bedrock"]
        [] t.intent \in {"RecommendAction", "AcknowledgeIncident"} /\ ~found -> concluded("no_data")
        [] t.intent = "RecommendAction" /\ found -> [u EXCEPT !.pc = "bedrock"]
        [] t.intent = "AcknowledgeIncident" /\ found -> [u EXCEPT !.pc = "update"]

\* Mutant: the escalated incidents are asked for first.
EscalatedFirst == <<"escalated", "opened">>
\* findActiveIncident: the statuses in the order they are asked for.
Asked == <<"opened", "escalated">>

QueryFirst ==
  /\ turn # Nothing /\ turn.pc = "opened"
  /\ turn' = IF incident = Asked[1] THEN After(turn, TRUE)
             ELSE [turn EXCEPT !.pc = "escalated"]
  /\ UNCHANGED <<world, log>>

QuerySecond ==
  /\ turn # Nothing /\ turn.pc = "escalated"
  /\ turn' = After(turn, incident = Asked[2])
  /\ UNCHANGED <<world, log>>

\* acknowledgeIncident: UpdateItem; Incidents has its effect on the table.
Acknowledge ==
  /\ turn # Nothing /\ turn.pc = "update"
  /\ Conclude("matched")
  /\ UNCHANGED <<world, log>>

\* generateResponse returns.
Explain ==
  /\ turn # Nothing /\ turn.pc = "bedrock"
  /\ turn' = [turn EXCEPT !.used = TRUE, !.pc = "answer", !.confidence = "matched"]
  /\ UNCHANGED <<world, log>>

\* Any of these awaits throws.
HandlerFails ==
  /\ Failing
  /\ turn # Nothing /\ turn.pc \notin {"answer", "failed"}
  /\ Go("failed")
  /\ UNCHANGED <<world, log>>

\* Mutant: a failure is only thrown, not logged.
LogNoFailure(t) == IF t.pc = "failed" THEN <<>> ELSE <<Entry("response_generated", t.number)>>
\* emitResponseGenerated or emitRequestFailed
LastEvent(t) ==
  <<Entry(IF t.pc = "failed" THEN "request_failed" ELSE "response_generated", t.number)>>

\* The response goes to Lex, an apology if the handler threw.
Respond ==
  /\ turn # Nothing /\ turn.pc \in {"answer", "failed"}
  /\ log' = log \o LastEvent(turn)
  /\ turn' = Nothing
  /\ UNCHANGED world

Lookup == ReadStatus \/ ReadState \/ ScanFleet \/ QueryFirst \/ QuerySecond
Handle == Lookup \/ Acknowledge \/ Explain \/ HandlerFails \/ Respond

-----------------------------------------------------------------------------
(* conversations.controller.ts: the panel of recent conversations.         *)

Positions(events, name) == {i \in DOMAIN events : events[i].event = name}

\* The k-th of some positions.
Nth(positions, k) == CHOOSE i \in positions : Cardinality({j \in positions : j <= i}) = k

Numbers(events, name) ==
  [k \in 1 .. Cardinality(Positions(events, name)) |->
     events[Nth(Positions(events, name), k)].turn]

\* Mutant: the events are shown as CloudWatch returns them.
OldestFirst(numbers) == numbers
NewestFirst(numbers) == [i \in DOMAIN numbers |-> numbers[Len(numbers) + 1 - i]]

\* FilterLogEvents returns the first events of the day that match, up to the
\* limit; they are reversed.
Panel ==
  LET completed == Numbers(log, "response_generated")
      first == SubSeq(completed, 1, IF Len(completed) < PanelLimit THEN Len(completed) ELSE PanelLimit)
  IN  NewestFirst(first)

-----------------------------------------------------------------------------
(* Properties.                                                             *)

\* Type invariant: the tables and the turn in hand.
RouterTypeOK ==
  /\ item \in {"nominal", "elevated", "critical", "partial", Nothing}
  /\ incident \in {"opened", "escalated", Nothing}
  /\ turn \in Turn \cup {Nothing}

\* An incident that is active from the lookup to the answer is found, although it
\* may be escalated between the two queries.
ActiveIncidentFound ==
  turn # Nothing /\ turn.pc = "answer" /\ turn.named /\ turn.steady
    /\ turn.intent \in {"ExplainRisk", "RecommendAction", "AcknowledgeIncident"}
  => turn.found

\* Nobody is told that an asset "is operating normally" that was at risk during
\* the whole of the turn.
CalmWasTrue ==
  turn # Nothing /\ turn.pc = "answer" /\ turn.confidence = "matched" /\ ~turn.used
    /\ turn.intent \in {"AssetStatus", "ExplainRisk", "FleetOverview"}
  => turn.calm

\* The log tells every turn to its end: its events follow each other with none of
\* another turn between them, and each turn that is over has exactly one outcome,
\* whatever threw.
LogTellsTurns ==
  \A n \in {log[i].turn : i \in DOMAIN log} : \E k \in DOMAIN log :
    /\ log[k] = Entry("request_received", n)
    /\ k + 1 \in DOMAIN log /\ log[k + 1] = Entry("intent_resolved", n)
    /\ IF turn # Nothing /\ turn.number = n
       THEN k + 1 = Len(log)
       ELSE k + 2 \in DOMAIN log /\ log[k + 2] \in {Entry("response_generated", n),
                                                    Entry("request_failed", n)}
    /\ \A i \in DOMAIN log : log[i].turn = n => i \in k .. k + 2

\* As long as the day has no more conversations than the panel asks for, it lists
\* those that were answered and no others, each once, the latest first.
PanelIsRecent ==
  LET answered == Positions(log, "response_generated")
  IN  Cardinality(answered) <= PanelLimit =>
        /\ {Panel[i] : i \in DOMAIN Panel} = {log[i].turn : i \in answered}
        /\ \A i, j \in DOMAIN Panel : i < j => Panel[i] > Panel[j]

=============================================================================
