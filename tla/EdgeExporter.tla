---------------------------- MODULE EdgeExporter ----------------------------
(***************************************************************************)
(* The edge exporter: its sampling loop, the IMU it may or may not read,   *)
(* publications whose answer is lost, a termination signal, crashes and    *)
(* restarts.  The daemon it polls answers, or does not.                    *)
(***************************************************************************)
EXTENDS Integers, Sequences

CONSTANTS
  Conditions,  \* what the robot's sensors may show: functions on the four signals
  Null,        \* a value that is not available, and no sample in hand
  MaxSamples,  \* bound: samples taken
  MaxLives     \* bound: starts of the exporter

ASSUME ExporterAssumption == MaxSamples \in Nat /\ MaxLives \in Nat \ {0}

VARIABLES
  ePc,       \* where _run is: "sample", "publish", "wait" or "closed"
  once,      \* --once
  shutdown,  \* the shutdown event
  imu,       \* did IMUReader.connect succeed, with an enabled IMU?
  sequence,  \* the number of the next sample
  sample,    \* the event in hand: its values, or Null
  life,      \* starts of the exporter so far
  samples,   \* samples taken so far
  stream     \* the events stored on r17-telemetry: [life, sequence, acked]

exporter == <<ePc, once, shutdown, imu, sequence, sample, life, samples, stream>>

ExporterInit ==
  /\ ePc = "sample" /\ once \in BOOLEAN /\ shutdown = FALSE
  /\ imu \in BOOLEAN /\ sequence = 0 /\ sample = Null
  /\ life = 1 /\ samples = 0 /\ stream = <<>>

ImuSignals == {"temperature", "accel", "gyro"}

\* What IMUReader.read makes of the sensors: without an IMU, or if reading it
\* throws, nothing; the temperature may be missing alone.
Read(condition) ==
  LET without(lost) == [s \in DOMAIN condition |-> IF s \in lost THEN Null ELSE condition[s]]
  IN  {without(ImuSignals)} \cup
      IF imu THEN {condition, without({"temperature"})} ELSE {}

\* _sample: both requests to the daemon succeed.  Without a target or without
\* joints in the answer the position error is 0.
Sample ==
  /\ ePc = "sample" /\ samples < MaxSamples
  /\ \E condition \in Conditions : \E reading \in Read(condition) :
       sample' \in {reading, [reading EXCEPT !.position = 0]}
  /\ samples' = samples + 1
  /\ ePc' = "publish"
  /\ UNCHANGED <<once, shutdown, imu, sequence, life, stream>>

AfterAttempt == IF once THEN "closed" ELSE "wait"

\* A request fails, or its answer cannot be used: logged.
SampleFails ==
  /\ ePc = "sample"
  /\ ePc' = AfterAttempt
  /\ UNCHANGED <<once, shutdown, imu, sequence, sample, life, samples, stream>>

Stored(acked) ==
  stream' = Append(stream, [life |-> life, sequence |-> sequence, acked |-> acked])

Publish ==
  /\ ePc = "publish"
  /\ Stored(TRUE)
  /\ sequence' = sequence + 1
  /\ sample' = Null
  /\ ePc' = AfterAttempt
  /\ UNCHANGED <<once, shutdown, imu, life, samples>>

\* Mutant: the number is used up by an attempt that failed.
NumberAfterFailureUsed == sequence + 1
NumberAfterFailure == sequence

\* put_record throws, whether or not the event was stored: the number is used
\* again for the next sample.
PublishFails ==
  /\ ePc = "publish"
  /\ Stored(FALSE) \/ UNCHANGED stream
  /\ sequence' = NumberAfterFailure
  /\ sample' = Null
  /\ ePc' = AfterAttempt
  /\ UNCHANGED <<once, shutdown, imu, life, samples>>

AfterWait == IF shutdown THEN "closed" ELSE "sample"

\* The interval is over, or the shutdown event ends the wait.
Wait ==
  /\ ePc = "wait"
  /\ ePc' = AfterWait
  /\ UNCHANGED <<once, shutdown, imu, sequence, sample, life, samples, stream>>

\* SIGINT or SIGTERM; noticed between two rounds.
Signal ==
  /\ ePc # "closed" /\ ~shutdown
  /\ shutdown' = TRUE
  /\ UNCHANGED <<ePc, once, imu, sequence, sample, life, samples, stream>>

\* The process or the robot's computer dies, between any two calls, and the
\* exporter is started again.  A publication under way may have been stored.
Crash ==
  /\ ePc # "closed" /\ life < MaxLives
  /\ (ePc = "publish" /\ Stored(FALSE)) \/ UNCHANGED stream
  /\ life' = life + 1
  /\ ePc' = "sample" /\ shutdown' = FALSE /\ imu' \in BOOLEAN
  /\ sequence' = 0 /\ sample' = Null
  /\ UNCHANGED <<once, samples>>

\* A round of the loop, which the exporter takes by itself.
Round == Sample \/ SampleFails \/ Publish \/ PublishFails \/ Wait

-----------------------------------------------------------------------------
\* Type invariant: there is an event in hand exactly when one is to be published.
ExporterTypeOK ==
  /\ ePc \in {"sample", "publish", "wait", "closed"}
  /\ once \in BOOLEAN /\ shutdown \in BOOLEAN /\ imu \in BOOLEAN
  /\ sequence \in 0..MaxSamples
  /\ sample # Null <=> ePc = "publish"
  /\ life \in 1..MaxLives
  /\ \A k \in DOMAIN stream : stream[k].life \in 1..life

\* What the number of an event tells its reader: in one life of the exporter the
\* next event on the stream has the next number exactly if this one was
\* acknowledged.  A number that comes twice is a lost answer, never a lost event;
\* a lost event leaves no gap.
SequenceFollowsAnswers ==
  \A k \in DOMAIN stream :
    LET last == IF k = 1 THEN 0 ELSE k - 1
    IN  stream[k].sequence =
          IF last = 0 \/ stream[last].life # stream[k].life THEN 0
          ELSE IF stream[last].acked THEN stream[last].sequence + 1
          ELSE stream[last].sequence

=============================================================================
