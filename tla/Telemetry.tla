------------------------------ MODULE Telemetry ------------------------------
(***************************************************************************)
(* What the Signal Agent makes of the telemetry of one robot: a simulated  *)
(* one that plays a scenario of Scenarios, or the real one that reports    *)
(* through EdgeExporter.  The offline tool sim-risk.ts runs beside the     *)
(* agent on the simulated values.  The pipeline in between is left out:    *)
(* Ingestion, KinesisProducer and AssetState are about it.                 *)
(***************************************************************************)
EXTENDS Scenarios, EdgeExporter

CONSTANTS
  Window,    \* EMA_WINDOW
  Bursts,    \* burst_count of the runs
  Patterns   \* how the noise of a run goes up and down: ticks between two turns

Signals == {"temperature", "accel", "gyro", "position"}

\* Sensors report numbers; Null is neither a number nor a reading.
ASSUME TelemetryAssumption ==
  /\ Window \in Nat \ {0} /\ OnsetTick \in Nat
  /\ Bursts \subseteq Nat /\ Patterns \subseteq Nat \ {0}
  /\ Conditions \subseteq [Signals -> Nat]
  /\ Null \notin Nat /\ Null \notin [Signals -> Nat \cup {Null}]

THRESHOLDS == [temperature |-> [warn |-> 100, critical |-> 120],
               accel |-> [warn |-> 120, critical |-> 150],
               gyro |-> [warn |-> 100, critical |-> 200],
               position |-> [warn |-> 100, critical |-> 250]]
\* Mutant: the position error weighs more.
WeightsPosition == [position |-> 50, accel |-> 20, gyro |-> 10, temperature |-> 10,
                    threshold_breach |-> 10]
WEIGHTS == [position |-> 35, accel |-> 25, gyro |-> 15, temperature |-> 15,
            threshold_breach |-> 10]

\* The tool's own tables.
\* Mutant: the tool has other thresholds.
ToolThresholdsOld ==
  [THRESHOLDS EXCEPT !.accel = [warn |-> 120, critical |-> 130]]
ToolThresholds == [temperature |-> [warn |-> 100, critical |-> 120],
                   accel |-> [warn |-> 120, critical |-> 150],
                   gyro |-> [warn |-> 100, critical |-> 200],
                   position |-> [warn |-> 100, critical |-> 250]]
ToolWeights == [position |-> 35, accel |-> 25, gyro |-> 15, temperature |-> 15,
                threshold_breach |-> 10]

\* 0.001 of each signal's unit, squared, in this model's units and rounded up.
MinVariance == [temperature |-> 1, accel |-> 1, gyro |-> 256, position |-> 3]

Agent == INSTANCE RiskScore WITH Thresholds <- THRESHOLDS, Weights <- WEIGHTS
Tool == INSTANCE RiskScore WITH Thresholds <- ToolThresholds, Weights <- ToolWeights

VARIABLES
  source,     \* the scenario played, or "reachy-exporter"
  total,      \* burst_count of the run
  pattern,    \* its noise
  tick,       \* readings the agent has assessed
  values,     \* the last of them, or Null
  baselines,  \* the baselines in the asset's item, or Null
  score,      \* the risk event of the last reading, or Null
  toolBaselines, toolScore   \* the same in the tool

run == <<source, total, pattern>>
agent == <<tick, values, baselines, score>>
tool == <<toolBaselines, toolScore>>
vars == <<exporter, run, agent, tool>>

Init ==
  /\ source \in ScenarioNames \cup {"reachy-exporter"}
  /\ IF source = "reachy-exporter"
     THEN ExporterInit /\ total = 0 /\ pattern = 1
     ELSE /\ total \in Bursts /\ pattern \in Patterns
          /\ ePc = "closed" /\ once = FALSE /\ shutdown = FALSE /\ imu = FALSE
          /\ sequence = 0 /\ sample = Null /\ life = 1 /\ samples = 0 /\ stream = <<>>
  /\ tick = 0 /\ values = Null /\ baselines = Null /\ score = Null
  /\ toolBaselines = Null /\ toolScore = Null

\* The Signal Agent takes a reading.
Assesses(reading) ==
  /\ tick' = tick + 1
  /\ values' = reading
  /\ baselines' = Agent!Folded(baselines, reading)
  /\ score' = Agent!Assess(baselines', reading)

\* simulateWithSeverity takes the same.
Simulates(reading) ==
  /\ toolBaselines' = Tool!Folded(toolBaselines, reading)
  /\ toolScore' = Tool!Assess(toolBaselines', reading)

\* The noise goes up and down by one standard deviation; the last reading of a
\* run has any combination of them.
Deviations ==
  IF tick = total - 1 THEN [Signals -> {-1, 0, 1}]
  ELSE {[s \in Signals |-> IF (tick \div pattern) % 2 = 0 THEN 1 ELSE -1]}

PlayTick ==
  /\ source \in ScenarioNames /\ tick < total
  /\ \E deviations \in Deviations :
       LET reading == Generate(source, tick, total, deviations)
       IN  Assesses(reading) /\ Simulates(reading)
  /\ UNCHANGED <<exporter, run>>

\* The exporter's event is assessed when it is stored.
ExporterStep ==
  /\ source = "reachy-exporter"
  /\ Round \/ Signal \/ Crash
  /\ IF stream' = stream THEN UNCHANGED agent
     ELSE Assesses(sample)
  /\ UNCHANGED <<run, tool>>

Next == PlayTick \/ ExporterStep

Spec == Init /\ [][Next]_vars

-----------------------------------------------------------------------------
(* Properties.                                                             *)

\* Type invariant: a risk is a number from 0 to 1.
TypeOK ==
  /\ ExporterTypeOK
  /\ score # Null =>
       /\ score.risk \in 0 .. Agent!Full
       /\ score.state \in {"nominal", "elevated", "critical"}

\* A reading is folded into the baseline before it is measured against it: no
\* deviation, however large, is more than 1 / sqrt(alpha) standard deviations.
ZScoresBounded ==
  score # Null =>
    \A s \in Signals : Agent!Square(score.z[s]) <= 32 * (Window + 1)

\* A sustained degradation is never hidden by baselines that got used to it.
DegradationSeen ==
  score # Null =>
    \A s \in Signals : values[s] # Null /\ values[s] >= THRESHOLDS[s].warn =>
      /\ score.state # "nominal"
      /\ values[s] >= THRESHOLDS[s].critical => score.state = "critical"

\* One signal alone, below its critical threshold, never makes a robot critical,
\* whatever its deviation.
OneSignalNotCritical ==
  score # Null /\ (\A s, t \in Signals : score.z[s] > 0 /\ score.z[t] > 0 => s = t)
    /\ score.breach < 2
  => score.state # "critical"

\* A scenario that is played to its end leaves the robot in its target risk state.
TargetReached ==
  source \in ScenarioNames /\ tick = total => score.state = Target(source)

\* The tool used to tune the scenarios finds the risk that the agent finds.
ToolAgrees == source \in ScenarioNames => toolScore = score

\* "Healthy stays nominal".
HealthyStaysNominal ==
  source = "healthy" /\ score # Null => score.state = "nominal"

=============================================================================
