------------------------------ MODULE Scenarios ------------------------------
(***************************************************************************)
(* The simulator worker's scenarios: what a simulated robot reports at a   *)
(* tick of a run, as a mean and a noise around it.  Units: temperature in  *)
(* half degrees, acceleration in 0.1 m/s2, rotation in 0.001 rad/s,        *)
(* position error in 0.01 degrees.                                         *)
(***************************************************************************)
EXTENDS Integers

CONSTANT OnsetTick   \* ONSET_TICK

ScenarioNames == {"healthy", "joint_3_degradation", "vibration_anomaly", "thermal_runaway"}

Healthy == [temperature |-> 76, accel |-> 98, gyro |-> 20, position |-> 10]
Noise == [temperature |-> 4, accel |-> 3, gyro |-> 10, position |-> 5]

\* Mutant: the acceleration is not kept below its critical threshold.
DegradedUncapped ==
  [healthy             |-> Healthy,
   joint_3_degradation |-> [Healthy EXCEPT !.position = 350, !.temperature = 104],
   vibration_anomaly   |-> [Healthy EXCEPT !.accel = 150, !.gyro = 150, !.position = 80],
   thermal_runaway     |-> [Healthy EXCEPT !.temperature = 110]]

\* Where the ramps end.
Degraded ==
  [healthy             |-> Healthy,
   joint_3_degradation |-> [Healthy EXCEPT !.position = 350, !.temperature = 104],
   vibration_anomaly   |-> [Healthy EXCEPT !.accel = 135, !.gyro = 120, !.position = 50],
   thermal_runaway     |-> [Healthy EXCEPT !.temperature = 110]]

\* The noise on the ramp: on the temperature it is smaller, and a degrading
\* joint makes all of it half as large again.
RampNoise(scenario, percent) ==
  CASE scenario = "joint_3_degradation" ->
         [s \in DOMAIN Noise |-> ((IF s = "temperature" THEN 2 ELSE Noise[s]) * (200 + percent)) \div 200]
    [] scenario = "thermal_runaway" -> [Noise EXCEPT !.temperature = 1]
    [] OTHER -> Noise

Most(m, n) == IF m < n THEN n ELSE m

\* progress, in percent
Progress(tick, total) == ((tick - OnsetTick) * 100) \div Most(total - OnsetTick - 1, 1)

\* generate(), with the noise in standard deviations.
Generate(scenario, tick, total, deviations) ==
  LET percent == IF tick < OnsetTick THEN 0 ELSE Progress(tick, total)
      noise == IF tick < OnsetTick THEN Noise ELSE RampNoise(scenario, percent)
      to == Degraded[scenario]
      value(s) == Healthy[s] + ((to[s] - Healthy[s]) * percent) \div 100
                  + noise[s] * deviations[s]
  IN  [s \in DOMAIN Healthy |-> IF value(s) < 0 THEN -value(s) ELSE value(s)]

\* "Target risk state" of each scenario.
Target(scenario) ==
  CASE scenario = "healthy" -> "nominal"
    [] scenario = "joint_3_degradation" -> "critical"
    [] scenario \in {"vibration_anomaly", "thermal_runaway"} -> "elevated"
=============================================================================
