----------------------------- MODULE DemoConsole -----------------------------
(***************************************************************************)
(* The demo orchestration: the admin page (admin.tsx, client.ts), the      *)
(* requests it sends to the dashboard API (admin.controller.ts), the       *)
(* simulator controller and workers those requests start, and the reading  *)
(* of the fleet's readiness.                                               *)
(*                                                                         *)
(* A request is the list of AWS calls its handler still has to make.  The  *)
(* pipeline behind the telemetry stream is reduced to what the page can    *)
(* see of it: a chunk of readings passes the Signal Agent in the order of  *)
(* its asset and then, at times of their own, the Diagnosis and Actions    *)
(* Agents and the History Projector.  AssetState, Incidents and History    *)
(* are the detailed models of these.                                       *)
(***************************************************************************)
EXTENDS Naturals, Sequences, FiniteSets

CONSTANTS
  Manifest,      \* DEMO_FLEET: sequence of [asset, scenario, intended]
  Robots,        \* the assets R-1, R-2, ... in the order the controller numbers them
  WorkerCount,   \* SIM_WORKER_COUNT
  Buttons,       \* the buttons pressed in an instance
  Picked,        \* the scenarios picked for one asset in an instance
  MaxPresses,    \* bound: buttons pressed
  MaxTriggers,   \* bound: firings of the cron rule
  MaxMishaps,    \* bound: faults that happen
  MaxAttempts,   \* executions of an asynchronous invocation, the first included
  Faults,        \* subset of {"dynamo", "invoke", "kinesis", "crash", "answer"}
  None

Scenarios == {"healthy", "joint_3_degradation", "thermal_runaway",
              "vibration_anomaly", "random_walk"}
States == {"nominal", "elevated", "critical"}
Fleet == {Manifest[i].asset : i \in DOMAIN Manifest}
Assets == Fleet \cup {Robots[i] : i \in DOMAIN Robots}

ASSUME DemoAssumption ==
  /\ Manifest \in Seq([asset : Fleet, scenario : Scenarios, intended : States])
  /\ Robots \in Seq(Assets)
  /\ Buttons \subseteq {"bootstrap", "scenario", "incidents", "history", "reset",
                        "simulator", "enable", "disable"}
  /\ Picked \subseteq Scenarios
  /\ Faults \subseteq {"dynamo", "invoke", "kinesis", "crash", "answer"}
  /\ WorkerCount \in 0 .. Len(Robots)
  /\ {MaxPresses, MaxTriggers, MaxMishaps, MaxAttempts} \subseteq Nat
  /\ None \notin States \cup Nat

VARIABLES
  boot,          \* bootstrapState of the page
  requests,      \* the API's requests in progress
  presses,       \* buttons pressed so far (the id of the last request)
  cron,          \* is the EventBridge rule enabled?
  triggers,      \* firings so far
  jobs,          \* Lambda invocations waiting or running
  lastJob,       \* id of the last invocation: jobs are numbered as they start
  stream,        \* per asset: chunks not yet seen by the Signal Agent
  risks,         \* per asset: chunks assessed, not yet seen by the Diagnosis Agent
  unprojected,   \* per asset: jobs whose chunks the projector has still to write
  item,          \* per asset: the asset-state item, or None
  incident,      \* per asset: the job whose chunk opened the active incident, or None
  rows,          \* per asset: the jobs with rows in asset-history
  poll,          \* do all items match, in the readiness query in progress, or None
  ready,         \* data.ready of the last readiness answer, or None
  mishaps,       \* faults so far
  undisturbed,   \* history: is the last bootstrap alone with its own jobs so far?
  firstJob       \* history: the first id the last completed bootstrap could start,
                 \* or 0 if other data was on its way when it began

apiVars == <<requests, cron, jobs, lastJob, item, incident, rows>>
pipeVars == <<stream, risks, unprojected>>
pageVars == <<boot, presses, poll, ready>>
histVars == <<mishaps, undisturbed, firstJob>>
vars == <<apiVars, pipeVars, pageVars, triggers, histVars>>

-----------------------------------------------------------------------------
(* The scenarios: a healthy phase, then the phase that shows.              *)

\* The state the second phase of a scenario reaches.
FinalStates(scenario) ==
  CASE scenario = "healthy" -> {"nominal"}
    [] scenario = "joint_3_degradation" -> {"critical"}
    [] scenario \in {"thermal_runaway", "vibration_anomaly"} -> {"elevated"}
    [] scenario = "random_walk" -> States

\* The chunks of a burst, for one way its second phase may end; a burst of
\* readings that are all assessed alike is one chunk.
Chunks(final) == IF final = "nominal" THEN <<final>> ELSE <<"nominal", final>>

\* The bursts of a scenario, and what is on the stream of one whose second phase is lost.
Bursts(scenario) == {Chunks(final) : final \in FinalStates(scenario)}
FirstPhase == {<<"nominal">>}

\* scenario-assigner.ts: the scenario of the worker at a zero-based index.
PickScenario(index, total) ==
  CASE index * 100 < 60 * total -> "healthy"
    [] index * 100 >= 60 * total /\ index * 100 < 75 * total -> "joint_3_degradation"
    [] index * 100 >= 75 * total /\ index * 100 < 85 * total -> "thermal_runaway"
    [] index * 100 >= 85 * total /\ index * 100 < 95 * total -> "vibration_anomaly"
    [] index * 100 >= 95 * total -> "random_walk"

\* The payloads of one run of the controller.
Payloads == [i \in 1 .. WorkerCount |->
               [asset |-> Robots[i], scenario |-> PickScenario(i - 1, WorkerCount)]]
Worker(payload) == [fn |-> "worker", asset |-> payload.asset, scenario |-> payload.scenario]
Controller == [fn |-> "controller", asset |-> None, scenario |-> None]

\* Invocations accepted by Lambda become jobs; `accepted` is a set of positions.
Invoked(payloads, accepted) ==
  {[id |-> lastJob + i, job |-> payloads[i], attempt |-> 1] : i \in accepted}

-----------------------------------------------------------------------------
(* What the handlers do, call by call.                                     *)

Delete(a, swallow) == [do |-> "state", assets |-> {a}, swallow |-> swallow]
Incidents(assets) == [do |-> "incidents", assets |-> assets]
History(a) == [do |-> "history", assets |-> {a}]
Invoke(payloads) == [do |-> "invoke", payloads |-> payloads]
SetCron(on) == [do |-> "cron", on |-> on]

FleetStates == [i \in DOMAIN Manifest |-> Delete(Manifest[i].asset, TRUE)]
FleetHistory == [i \in DOMAIN Manifest |-> History(Manifest[i].asset)]
FleetWorkers == <<Invoke([i \in DOMAIN Manifest |-> Worker(Manifest[i])])>>

\* bootstrapDemoFleet
\* Mutant: workers are started before the history is cleared.
BootstrapWorkersFirst ==
  FleetStates \o FleetWorkers \o <<Incidents(Fleet)>> \o FleetHistory
\* Mutant: the incidents of the fleet are not cleared.
BootstrapKeepsIncidents ==
  FleetStates \o FleetHistory \o FleetWorkers
Bootstrap ==
  FleetStates \o <<Incidents(Fleet)>> \o FleetHistory \o FleetWorkers

\* The handlers behind the other buttons, for the asset and scenario chosen.
Calls(button, a, scenario) ==
  CASE button = "bootstrap" -> Bootstrap
    [] button = "scenario" ->
         <<Delete(a, TRUE), Invoke(<<Worker([asset |-> a, scenario |-> scenario])>>)>>
    [] button = "incidents" -> <<Incidents(IF a = None THEN Fleet ELSE {a})>>
    [] button = "history" -> IF a = None THEN FleetHistory ELSE <<History(a)>>
    [] button = "reset" -> <<Delete(a, FALSE)>>
    [] button = "simulator" -> <<Invoke(<<Controller>>)>>
    [] button = "enable" -> <<SetCron(TRUE)>>
    [] button = "disable" -> <<SetCron(FALSE)>>

\* A row of the fleet's table: any scenario for its asset; R-17 has no button.
ScenarioRows == Fleet \X Picked

\* The assets and scenarios a button can be pressed for.
Choices(button) ==
  CASE button = "scenario" -> ScenarioRows
    [] button = "reset" -> Assets \X {None}
    [] button \in {"incidents", "history"} -> (Fleet \cup {None}) \X {None}
    [] OTHER -> {<<None, None>>}

\* No data of any burst is on its way and nobody else is at work.
PipelineEmpty == \A a \in Assets : stream[a] = <<>> /\ risks[a] = <<>> /\ unprojected[a] = {}
Quiet == PipelineEmpty /\ jobs = {} /\ requests = {} /\ ~cron

Init ==
  /\ boot = "idle" /\ requests = {} /\ presses = 0
  /\ cron = FALSE /\ triggers = 0
  /\ jobs = {} /\ lastJob = 0
  /\ stream = [a \in Assets |-> <<>>]
  /\ risks = [a \in Assets |-> <<>>]
  /\ unprojected = [a \in Assets |-> {}]
  /\ item = [a \in Assets |-> None]
  /\ incident = [a \in Assets |-> None]
  /\ rows = [a \in Assets |-> {}]
  /\ poll = None /\ ready = None /\ mishaps = 0
  /\ undisturbed = FALSE /\ firstJob = 0

-----------------------------------------------------------------------------
(* The page.                                                               *)

\* The bootstrap button is disabled while bootstrapState is "running"; the
\* other buttons are independent of it.
Press(button) ==
  /\ presses < MaxPresses
  /\ button = "bootstrap" => boot # "running"
  /\ presses' = presses + 1
  /\ boot' = IF button = "bootstrap" THEN "running" ELSE boot
  /\ undisturbed' = (button = "bootstrap" /\ Quiet)
  /\ \E choice \in Choices(button) :
       requests' = requests \cup
         {[id |-> presses', button |-> button, waiting |-> TRUE,
           since |-> IF Quiet THEN lastJob + 1 ELSE 0,
           calls |-> Calls(button, choice[1], choice[2])]}
  /\ UNCHANGED <<cron, jobs, lastJob, item, incident, rows, pipeVars, poll, ready,
                 triggers, mishaps, firstJob>>

\* A fault happens, and is no longer nothing.
Mishap(fault) ==
  /\ fault \in Faults
  /\ mishaps < MaxMishaps
  /\ mishaps' = mishaps + 1
  /\ undisturbed' = FALSE

\* What the page shows of a bootstrap when its answer, or an error, arrives.
Shown(r, state) == IF r.button = "bootstrap" /\ r.waiting THEN state ELSE boot

\* The handler returned: the page shows it, and asks for the readiness anew.
Answer(r) ==
  /\ r.calls = <<>>
  /\ requests' = requests \ {r}
  /\ boot' = Shown(r, "completed")
  /\ poll' = IF Shown(r, "completed") # boot THEN None ELSE poll
  /\ firstJob' = IF Shown(r, "completed") # boot THEN r.since ELSE firstJob
  /\ UNCHANGED <<presses, cron, jobs, lastJob, item, incident, rows, pipeVars, ready,
                 triggers, mishaps, undisturbed>>

\* The connection breaks: the page shows a failure, the handler goes on.
LoseAnswer(r) ==
  /\ Mishap("answer")
  /\ r.waiting
  /\ requests' = (requests \ {r}) \cup {[r EXCEPT !.waiting = FALSE]}
  /\ boot' = Shown(r, "failed")
  /\ UNCHANGED <<presses, cron, jobs, lastJob, item, incident, rows, pipeVars, poll,
                 ready, triggers, firstJob>>

-----------------------------------------------------------------------------
(* The dashboard API: the first of the remaining calls of a request.       *)

Next1(r) == requests' = (requests \ {r}) \cup {[r EXCEPT !.calls = Tail(@)]}

DeleteState(r) ==
  /\ Head(r.calls).do = "state"
  /\ item' = [a \in Assets |-> IF a \in Head(r.calls).assets THEN None ELSE item[a]]
  /\ Next1(r)
  /\ UNCHANGED <<cron, jobs, lastJob, incident, rows, pipeVars, pageVars, triggers, histVars>>

\* bootstrap and run-scenario drop the error of the delete: .catch(() => {})
DeleteStateFails(r) ==
  /\ Mishap("dynamo")
  /\ Head(r.calls).do = "state" /\ Head(r.calls).swallow
  /\ Next1(r)
  /\ UNCHANGED <<cron, jobs, lastJob, item, incident, rows, pipeVars, pageVars, triggers,
                 firstJob>>

\* deleteIncidentsForAssets: the scan, then the batches of deletes.  An incident
\* opened in between stays, as if it had been opened after them.
DeleteIncidents(r) ==
  /\ Head(r.calls).do = "incidents"
  /\ incident' = [a \in Assets |-> IF a \in Head(r.calls).assets THEN None ELSE incident[a]]
  /\ Next1(r)
  /\ UNCHANGED <<cron, jobs, lastJob, item, rows, pipeVars, pageVars, triggers, histVars>>

\* deleteHistoryForAsset; History has its pages and batches.
DeleteHistory(r) ==
  /\ Head(r.calls).do = "history"
  /\ rows' = [a \in Assets |-> IF a \in Head(r.calls).assets THEN {} ELSE rows[a]]
  /\ Next1(r)
  /\ UNCHANGED <<cron, jobs, lastJob, item, incident, pipeVars, pageVars, triggers, histVars>>

\* Promise.all of the invocations: all accepted.
InvokeWorkers(r) ==
  /\ Head(r.calls).do = "invoke"
  /\ LET payloads == Head(r.calls).payloads
     IN  /\ jobs' = jobs \cup Invoked(payloads, DOMAIN payloads)
         /\ lastJob' = lastJob + Len(payloads)
  /\ Next1(r)
  /\ UNCHANGED <<cron, item, incident, rows, pipeVars, pageVars, triggers, histVars>>

SwitchCron(r) ==
  /\ Head(r.calls).do = "cron"
  /\ cron' = Head(r.calls).on
  /\ Next1(r)
  /\ UNCHANGED <<jobs, lastJob, item, incident, rows, pipeVars, pageVars, triggers, histVars>>

\* Any other call throws: the rest of the handler is skipped.  Of the parallel
\* invocations some may have been accepted.
CallFails(r) ==
  /\ LET call == Head(r.calls)
         payloads == IF call.do = "invoke" THEN call.payloads ELSE <<>>
     IN  /\ Mishap(IF call.do = "invoke" THEN "invoke" ELSE "dynamo")
         /\ call.do = "state" => ~call.swallow
         /\ \E accepted \in SUBSET DOMAIN payloads :
              jobs' = jobs \cup Invoked(payloads, accepted)
         /\ lastJob' = lastJob + Len(payloads)
  /\ requests' = requests \ {r}
  /\ boot' = Shown(r, "failed")
  /\ UNCHANGED <<presses, cron, item, incident, rows, pipeVars, poll, ready, triggers,
                 firstJob>>

-----------------------------------------------------------------------------
(* The simulator.                                                          *)

\* EventBridge starts the controller while the rule is enabled.
CronFires ==
  /\ cron
  /\ triggers < MaxTriggers
  /\ triggers' = triggers + 1
  /\ jobs' = jobs \cup Invoked(<<Controller>>, {1})
  /\ lastJob' = lastJob + 1
  /\ undisturbed' = FALSE
  /\ UNCHANGED <<requests, cron, item, incident, rows, pipeVars, pageVars, mishaps, firstJob>>

\* onSuccess of the controller: every worker is invoked.
RunController(j) ==
  /\ j.job.fn = "controller"
  /\ LET payloads == [i \in DOMAIN Payloads |-> Worker(Payloads[i])]
     IN  /\ jobs' = (jobs \ {j}) \cup Invoked(payloads, DOMAIN payloads)
         /\ lastJob' = lastJob + Len(payloads)
  /\ UNCHANGED <<requests, cron, item, incident, rows, pipeVars, pageVars, triggers, histVars>>

\* What is left of an asynchronous invocation that threw: Lambda runs it again.
Retried(j) == IF j.attempt < MaxAttempts THEN {[j EXCEPT !.attempt = @ + 1]} ELSE {}

\* One invocation fails after others were accepted; Lambda runs the controller again.
ControllerFails(j) ==
  /\ Mishap("invoke")
  /\ j.job.fn = "controller"
  /\ LET payloads == [i \in DOMAIN Payloads |-> Worker(Payloads[i])]
     IN  /\ \E accepted \in (SUBSET DOMAIN payloads) \ {DOMAIN payloads} :
              jobs' = (jobs \ {j}) \cup Retried(j) \cup Invoked(payloads, accepted)
         /\ lastJob' = lastJob + Len(payloads)
  /\ UNCHANGED <<requests, cron, item, incident, rows, pipeVars, pageVars, triggers, firstJob>>

\* One of the bursts reaches the stream.
Put(j, bursts) ==
  \E burst \in bursts :
    stream' = [stream EXCEPT ![j.job.asset] =
                 @ \o [i \in DOMAIN burst |-> [state |-> burst[i], by |-> j.id]]]

\* The worker puts its burst with one putRecords and returns.
PutBurst(j) ==
  /\ j.job.fn = "worker"
  /\ Put(j, Bursts(j.job.scenario))
  /\ jobs' = jobs \ {j}
  /\ UNCHANGED <<requests, cron, lastJob, item, incident, rows, risks, unprojected, pageVars,
                 triggers, histVars>>

\* The producer gave the degraded chunk up; its result is not looked at.
LoseChunk(j) ==
  /\ Mishap("kinesis")
  /\ j.job.fn = "worker"
  /\ Put(j, FirstPhase)
  /\ jobs' = jobs \ {j}
  /\ UNCHANGED <<requests, cron, lastJob, item, incident, rows, risks, unprojected, pageVars,
                 triggers, firstJob>>

\* The worker dies after some chunks: Lambda runs the whole burst again.
WorkerCrashes(j) ==
  /\ Mishap("crash")
  /\ j.job.fn = "worker"
  /\ \/ Put(j, FirstPhase)
     \/ Put(j, Bursts(j.job.scenario))
     \/ UNCHANGED stream
  /\ jobs' = (jobs \ {j}) \cup Retried(j)
  /\ UNCHANGED <<requests, cron, lastJob, item, incident, rows, risks, unprojected, pageVars,
                 triggers, firstJob>>

-----------------------------------------------------------------------------
(* The pipeline, as far as the tables the page reads show it.              *)

\* The Signal Agent writes the item, unless an update left one without baselines:
\* then it throws, and the chunk is given up.
Assess(a) ==
  /\ stream[a] # <<>>
  /\ LET chunk == Head(stream[a])
         partial == item[a] # None /\ item[a].state = None
         diagnosed == item[a] # None /\ item[a].diagnosed
     IN  IF partial
         THEN UNCHANGED <<item, risks, unprojected>>
         ELSE /\ item' = [item EXCEPT ![a] = [state |-> chunk.state, by |-> chunk.by,
                                              diagnosed |-> diagnosed]]
              /\ risks' = [risks EXCEPT ![a] = Append(@, chunk)]
              /\ unprojected' = [unprojected EXCEPT ![a] = @ \cup {chunk.by}]
  /\ stream' = [stream EXCEPT ![a] = Tail(@)]
  /\ UNCHANGED <<requests, cron, jobs, lastJob, incident, rows, pageVars, triggers, histVars>>

\* The Diagnosis and Actions Agents: a risk that is not nominal and not
\* debounced stamps the item, which an update creates if it is gone, and opens
\* an incident when there is none.
Respond(a) ==
  /\ risks[a] # <<>>
  /\ LET chunk == Head(risks[a])
         debounced == item[a] # None /\ item[a].diagnosed
     IN  IF chunk.state = "nominal" \/ debounced
         THEN UNCHANGED <<item, incident>>
         ELSE /\ item' = [item EXCEPT ![a] =
                            IF @ = None THEN [state |-> None, by |-> chunk.by, diagnosed |-> TRUE]
                            ELSE [@ EXCEPT !.diagnosed = TRUE]]
              /\ incident' = [incident EXCEPT ![a] = IF @ = None THEN chunk.by ELSE @]
  /\ risks' = [risks EXCEPT ![a] = Tail(@)]
  /\ UNCHANGED <<requests, cron, jobs, lastJob, rows, stream, unprojected, pageVars, triggers,
                 histVars>>

\* The debounce window of an item ends.
WindowEnds(a) ==
  /\ item[a] # None
  /\ item[a].diagnosed
  /\ item' = [item EXCEPT ![a].diagnosed = FALSE]
  /\ UNCHANGED <<requests, cron, jobs, lastJob, incident, rows, pipeVars, pageVars, triggers,
                 histVars>>

\* The History Projector writes a row.
Project(a) ==
  /\ \E job \in unprojected[a] :
       /\ rows' = [rows EXCEPT ![a] = @ \cup {job}]
       /\ unprojected' = [unprojected EXCEPT ![a] = @ \ {job}]
  /\ UNCHANGED <<requests, cron, jobs, lastJob, item, incident, stream, risks, pageVars, triggers,
                 histVars>>

-----------------------------------------------------------------------------
(* getDemoReadiness: the Gets of the items, then the count of the active   *)
(* incidents.  Items that change between two parallel Gets are left out.   *)

Intended(a) == LET i == CHOOSE i \in DOMAIN Manifest : Manifest[i].asset = a
               IN  Manifest[i].intended
StateOf(a) == IF item[a] = None THEN None ELSE item[a].state

ReadItems ==
  /\ poll = None
  /\ poll' = (\A a \in Fleet : StateOf(a) = Intended(a))
  /\ UNCHANGED <<apiVars, pipeVars, boot, presses, ready, triggers, histVars>>

\* Mutant: the incidents are not counted.
ReadyWithoutIncidents(match) == match
IsReady(match) == match /\ \E a \in Fleet : incident[a] # None

CountIncidents ==
  /\ poll # None
  /\ ready' = IsReady(poll)
  /\ poll' = None
  /\ UNCHANGED <<apiVars, pipeVars, boot, presses, triggers, histVars>>

Readiness == ReadItems \/ CountIncidents

-----------------------------------------------------------------------------
Handle(r) ==
  \/ Answer(r)
  \/ /\ r.calls # <<>>
     /\ \/ DeleteState(r) \/ DeleteIncidents(r) \/ DeleteHistory(r)
        \/ InvokeWorkers(r) \/ SwitchCron(r)

Interrupt(r) ==
  \/ LoseAnswer(r)
  \/ r.calls # <<>> /\ (DeleteStateFails(r) \/ CallFails(r))

Run(j) == RunController(j) \/ PutBurst(j)
Break(j) == ControllerFails(j) \/ LoseChunk(j) \/ WorkerCrashes(j)

Flow(a) == Assess(a) \/ Respond(a) \/ Project(a)

Next ==
  \/ \E button \in Buttons : Press(button)
  \/ \E r \in requests : Handle(r) \/ Interrupt(r)
  \/ CronFires
  \/ \E j \in jobs : Run(j) \/ Break(j)
  \/ \E a \in Assets : Flow(a) \/ WindowEnds(a)
  \/ Readiness

Spec == Init /\ [][Next]_vars

\* The API works its requests off, Lambda runs what it accepted, the agents
\* drain their lanes, and the page polls.
FairSpec ==
  /\ Spec
  /\ WF_vars(\E r \in requests : Handle(r))
  /\ WF_vars(\E j \in jobs : Run(j))
  /\ \A a \in Assets : WF_vars(Assess(a)) /\ WF_vars(Respond(a)) /\ WF_vars(Project(a))
  /\ WF_vars(Readiness)

-----------------------------------------------------------------------------
(* Properties.                                                             *)

FleetReady == (\A a \in Fleet : StateOf(a) = Intended(a)) /\ (\E a \in Fleet : incident[a] # None)

\* Type invariant: the requests and jobs have ids of their own, and what the
\* tables hold is of a job there was.
TypeOK ==
  /\ boot \in {"idle", "running", "completed", "failed"}
  /\ Cardinality({r.id : r \in requests}) = Cardinality(requests)
  /\ Cardinality({j.id : j \in jobs}) = Cardinality(jobs)
  /\ \A a \in Assets : /\ item[a] # None => item[a].state \in States \cup {None}
                       /\ unprojected[a] \cup rows[a] \subseteq 1 .. lastJob
                       /\ incident[a] \in 1 .. lastJob \cup {None}
  /\ ready \in BOOLEAN \cup {None}

\* The tables start afresh (admin.tsx: "resets state, clears incidents and
\* history, then starts fresh simulator workers"): after a bootstrap that began
\* while no data was on its way, no incident and no row of an earlier burst is
\* left, whatever failed or went on beside it; and no item, unless a swallowed
\* error or another actor interfered.
CompletedIsClean ==
  \A a \in Fleet :
    /\ incident[a] # None => incident[a] >= firstJob
    /\ \A job \in rows[a] : job >= firstJob
    /\ boot = "completed" /\ undisturbed /\ item[a] # None => item[a].by >= firstJob

\* A completed bootstrap that nothing disturbs brings the fleet to its intended
\* states with an active incident: its own clean-up does not undo its workers.
UndisturbedGetsReady ==
  boot = "completed" /\ undisturbed ~> FleetReady \/ ~undisturbed

\* Whatever was pressed and whatever failed, the readiness panel ends up telling
\* the state of the tables, although its answers are read item by item.
PanelConverges == <>[](ready = FleetReady)

\* "When risk drops back to nominal, the Diagnosis Agent emits a lightweight
\* info event so the pipeline knows to resolve the incident"
\* (builder-center-article.md): an incident does not outlive its risk for ever.
\* It does: diagnosis-agent.handler.ts skips nominal events.
NominalResolves ==
  \A a \in Fleet : (incident[a] # None /\ StateOf(a) = "nominal")
                  ~> (incident[a] = None \/ StateOf(a) # "nominal")

=============================================================================
