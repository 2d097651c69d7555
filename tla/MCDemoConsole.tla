---------------------------- MODULE MCDemoConsole ----------------------------
(* A TLC instance of DemoConsole: one degrading robot, the first of those   *)
(* the simulator's cron runs.                                               *)
EXTENDS DemoConsole

OneRobot == <<[asset |-> "R-1", scenario |-> "joint_3_degradation", intended |-> "critical"]>>
Numbered == <<"R-1">>
=============================================================================
