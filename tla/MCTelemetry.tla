---------------------------- MODULE MCTelemetry ----------------------------
(* TLC instances of Telemetry. *)
EXTENDS Telemetry

Robot(temperature, accel, gyro, position) ==
  [temperature |-> temperature, accel |-> accel, gyro |-> gyro, position |-> position]

\* A healthy robot; one that is just at its thresholds: of warning for the
\* temperature and the acceleration, the critical one for the position error.
RobotConditions == {Robot(76, 98, 20, 10), Robot(100, 120, 20, 250)}
=============================================================================
