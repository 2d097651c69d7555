------------------------------ MODULE RiskScore ------------------------------
(***************************************************************************)
(* The arithmetic of a risk score: exponentially weighted baselines,       *)
(* z-scores against them, thresholds, and the composite of both.  The      *)
(* Signal Agent has one copy of it (risk.ts and baseline.ts), the tool     *)
(* sim-risk.ts another: each is an instance of this module with its own    *)
(* tables.                                                                 *)
(*                                                                         *)
(* Integers stand for the floating-point numbers: values in units of their *)
(* signal, means in Scale-ths of a unit, |z| in eighths, a risk in Full-ths*)
(* of 1.  Variances are rounded up, so that a z-score is never rounded     *)
(* above what the code would find.  Only |z| is kept: nothing looks at its *)
(* sign.                                                                   *)
(***************************************************************************)
EXTENDS Integers

CONSTANTS
  Signals,     \* the four signals
  Thresholds,  \* per signal: [warn, critical]
  Weights,     \* per signal, in percent, and "threshold_breach"
  MinVariance, \* per signal: MIN_STDDEV, squared
  Window,      \* EMA_WINDOW; alpha is 2 / (Window + 1)
  Null         \* a value that is not available, and an item that is not stored

Scale == 16
Full == 2400   \* 100 percent * 8 eighths * DEFAULT_NORMALIZE_DIVISOR

Square(n) == n * n
Root(n) == CHOOSE r \in 0..n : Square(r) <= n /\ n < Square(r + 1)
Larger(m, n) == IF m < n THEN n ELSE m
Smaller(m, n) == IF m < n THEN m ELSE n
LargestOf(S) == CHOOSE m \in S : \A n \in S : n <= m

InitBaselines(value) == [mean |-> Scale * value, variance |-> 0]

\* Mutant: the deviation is weighted with 1 / (Window + 1).
UpdateBaselinesHalf(b, value) ==
  LET mean == (2 * Scale * value + (Window - 1) * b.mean) \div (Window + 1)
  IN  [mean |-> mean,
       variance |-> (Square(Scale * value - mean) + (Window - 1) * b.variance + Window)
                    \div (Window + 1)]

UpdateBaselines(b, value) ==
  LET mean == (2 * Scale * value + (Window - 1) * b.mean) \div (Window + 1)
  IN  [mean |-> mean,
       variance |-> (2 * Square(Scale * value - mean) + (Window - 1) * b.variance + Window)
                    \div (Window + 1)]

ComputeZScore(s, value, b) ==
  IF value = Null THEN 0
  ELSE Root((64 * Square(Scale * value - b.mean)) \div Larger(b.variance, MinVariance[s]))

Known(values) == {s \in Signals : values[s] # Null}

\* 0, 1 (warn) or 2 (critical): in halves.
ComputeThresholdBreach(values) ==
  LET breach(s) == IF values[s] >= Thresholds[s].critical THEN 2
                   ELSE IF values[s] >= Thresholds[s].warn THEN 1 ELSE 0
  IN  LargestOf({0} \cup {breach(s) : s \in Known(values)})

\* A sum over the four signals.
ComputeCompositeRisk(z, breach) ==
  LET part(s) == Weights[s] * z[s]
  IN  Smaller(Full, part("position") + part("accel") + part("gyro") + part("temperature")
                    + 4 * Weights["threshold_breach"] * breach)

\* Between the thresholds in proportion to the progress, above the critical one
\* to the excess.
ComputeThresholdSeverity(values) ==
  LET severity(s) ==
        LET v == values[s]
            warn == Thresholds[s].warn
            critical == Thresholds[s].critical
        IN  IF v >= critical
              THEN 3 * (Full \div 4) + (Smaller(v - critical, critical) * (Full \div 4)) \div critical
            ELSE IF v >= warn
              THEN Full \div 2 + ((v - warn) * (Full \div 4)) \div (critical - warn)
            ELSE 0
  IN  LargestOf({0} \cup {severity(s) : s \in Known(values)})

\* Mutant: "risk > 0.75" and "risk > 0.5".
DetermineRiskStateAbove(risk) ==
  IF risk > 3 * (Full \div 4) THEN "critical"
  ELSE IF risk > Full \div 2 THEN "elevated" ELSE "nominal"

DetermineRiskState(risk) ==
  IF risk >= 3 * (Full \div 4) THEN "critical"
  ELSE IF risk >= Full \div 2 THEN "elevated" ELSE "nominal"

\* |z| > 2.0
GetContributingSignals(z) == {s \in Signals : z[s] > 16}

-----------------------------------------------------------------------------
(* One reading: the pure part of processEvent, and of the tool's loop.     *)

\* initializeState takes a value that is not available for 0.
FirstBaselines(values) ==
  [s \in Signals |-> InitBaselines(IF values[s] = Null THEN 0 ELSE values[s])]

NextBaselines(baselines, values) ==
  [s \in Signals |-> IF values[s] = Null THEN baselines[s]
                     ELSE UpdateBaselines(baselines[s], values[s])]

Folded(baselines, values) ==
  IF baselines = Null THEN FirstBaselines(values) ELSE NextBaselines(baselines, values)

Composite(z, values) ==
  Larger(ComputeCompositeRisk(z, ComputeThresholdBreach(values)),
         ComputeThresholdSeverity(values))

\* The risk of a reading, given the baselines it is already folded into.
Assess(baselines, values) ==
  LET z == [s \in Signals |-> ComputeZScore(s, values[s], baselines[s])]
      risk == Composite(z, values)
  IN  [z |-> z, risk |-> risk, state |-> DetermineRiskState(risk),
       breach |-> ComputeThresholdBreach(values),
       contributing |-> GetContributingSignals(z)]

=============================================================================
