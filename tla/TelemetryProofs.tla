--------------------------- MODULE TelemetryProofs ---------------------------
(***************************************************************************)
(* Proofs about Telemetry: what holds of every risk score, whatever the    *)
(* sensors report and however often the exporter is restarted, what the    *)
(* numbers of the exporter's events tell their reader, and what risk a     *)
(* scenario ends with.                                                     *)
(***************************************************************************)
EXTENDS Telemetry, FiniteSetTheorems, TLAPS

-----------------------------------------------------------------------------
(* Arithmetic.                                                             *)

\* A natural number has an integer square root.
LEMMA RootExists ==
  ASSUME NEW n \in Nat
  PROVE  \E r \in 0..n : r * r <= n /\ n < (r + 1) * (r + 1)
<1> DEFINE R == {r \in 0..n : r * r <= n}
           c == Cardinality(R)
<1>1. IsFiniteSet(R) /\ c \in Nat
  <2>1. IsFiniteSet(0..n) /\ R \in SUBSET (0..n)
    BY FS_Interval
  <2> QED BY <2>1, FS_Subset, FS_CardinalityType
<1>2. ASSUME NEW r \in R PROVE 0..r \subseteq R
  <2>1. SUFFICES ASSUME NEW q \in 0..r PROVE q \in 0..n /\ q * q <= n
    OBVIOUS
  <2>2. \A i, j \in Nat : i <= j => i * i <= j * j
    OBVIOUS
  <2> QED BY <2>1, <2>2
<1>3. ASSUME NEW r \in R PROVE r + 1 <= c
  <2>1. r \in Nat /\ 0..r \in SUBSET R
    BY <1>2
  <2>2. Cardinality(0..r) = r + 1
    BY <2>1, FS_Interval
  <2> HIDE DEF R
  <2>3. Cardinality(0..r) <= Cardinality(R)
    BY <1>1, <2>1, FS_Subset
  <2> QED BY <2>2, <2>3
<1>4. 0 \in R /\ \A r \in R : r \in Nat
  OBVIOUS
<1>5. c - 1 \in R
  <2> HIDE DEF R
  <2>1. SUFFICES ASSUME c - 1 \notin R PROVE FALSE
    OBVIOUS
  <2>2. 0 + 1 <= c
    BY <1>3, <1>4
  <2>3. ASSUME NEW r \in R PROVE r \in 0..(c - 2)
    <3>1. r \in Nat /\ r + 1 <= c /\ r # c - 1
      BY <1>3, <1>4, <2>1
    <3> HIDE DEF c
    <3> QED BY <1>1, <3>1
  <2>4. R \in SUBSET (0..(c - 2))
    BY <2>3
  <2>5. c - 2 \in Int
    BY <1>1
  <2>6. IsFiniteSet(0..(c - 2)) /\ Cardinality(0..(c - 2)) = IF 0 > c - 2 THEN 0 ELSE (c - 2) - 0 + 1
    BY <2>5, FS_Interval
  <2>7. Cardinality(R) <= Cardinality(0..(c - 2))
    BY <2>4, <2>6, FS_Subset
  <2>8. c <= Cardinality(0..(c - 2))
    BY <2>7
  <2> HIDE DEF c
  <2> QED BY <1>1, <2>2, <2>6, <2>8
<1>6. c \notin R
  <2> HIDE DEF R
  <2>1. c \in R => c + 1 <= c
    BY <1>3
  <2> HIDE DEF c
  <2> QED BY <1>1, <2>1
<1>7. c <= n => n < c * c
  BY <1>1, <1>6
<1>8. c > n => n < c * c
  <2> HIDE DEF c
  <2> QED BY <1>1
<1>9. c - 1 \in 0..n /\ (c - 1) * (c - 1) <= n
  BY <1>5
<1> HIDE DEF R, c
<1>10. n < ((c - 1) + 1) * ((c - 1) + 1)
  BY <1>1, <1>7, <1>8
<1> QED BY <1>9, <1>10

\* The variance that a squared deviation D is folded into is at least its part
\* of it.
LEMMA VarianceCovers ==
  ASSUME NEW D \in Nat, NEW v \in Nat, NEW W \in Nat \ {0}, NEW V \in Int,
         V = (2 * D + (W - 1) * v + W) \div (W + 1)
  PROVE  V \in Nat /\ 2 * D <= (W + 1) * V
<1> DEFINE A == 2 * D + (W - 1) * v + W
<1>1. (W - 1) * v \in Nat
  <2>1. W - 1 \in Nat
    OBVIOUS
  <2> QED BY <2>1
<1>2. A \in Nat
  BY <1>1
<1>3. A = (W + 1) * (A \div (W + 1)) + (A % (W + 1)) /\ A % (W + 1) \in 0..W /\ A \div (W + 1) \in Nat
  <2>1. \A b \in Nat \ {0}, a \in Nat : a = b * (a \div b) + (a % b) /\ a % b \in 0..(b - 1) /\ a \div b \in Nat
    OBVIOUS
  <2>2. W + 1 \in Nat \ {0} /\ (W + 1) - 1 = W
    OBVIOUS
  <2> HIDE DEF A
  <2> QED BY <1>2, <2>1, <2>2
<1>4. 2 * D + (W - 1) * v <= (W + 1) * V
  <2> DEFINE X == (W - 1) * v
             Y == (W + 1) * V
  <2>1. X \in Nat /\ Y \in Int /\ V = A \div (W + 1)
    BY <1>1
  <2>2. A = Y + (A % (W + 1))
    BY <1>3, <2>1
  <2>3. A = 2 * D + X + W
    OBVIOUS
  <2> HIDE DEF A, X, Y
  <2>4. 2 * D + X <= Y
    BY <1>3, <2>1, <2>2, <2>3
  <2> QED BY <2>4 DEF X, Y
<1> QED BY <1>1, <1>3, <1>4

\* A squared deviation that its variance covers is a bounded multiple of it.
LEMMA QuotientBound ==
  ASSUME NEW D \in Nat, NEW w \in Nat \ {0}, NEW V \in Nat, NEW N \in Nat \ {0}, V <= N,
         2 * D <= w * V
  PROVE  (64 * D) \div N \in Nat /\ (64 * D) \div N <= 32 * w
<1> DEFINE Q == (64 * D) \div N
<1>1. Q \in Nat /\ N * Q <= 64 * D
  <2>1. \A b \in Nat \ {0}, a \in Nat : a = b * (a \div b) + (a % b) /\ a % b \in Nat /\ a \div b \in Nat
    OBVIOUS
  <2>2. 64 * D \in Nat
    OBVIOUS
  <2> QED BY <2>1, <2>2
<1>2. w * V <= w * N
  OBVIOUS
<1>3. N * Q <= 32 * (w * N)
  <2> HIDE DEF Q
  <2> DEFINE X == w * V
             Y == w * N
             Z == N * Q
  <2>1. X \in Int /\ Y \in Int /\ Z \in Int
    BY <1>1
  <2>2. X <= Y /\ Z <= 64 * D /\ 2 * D <= X
    BY <1>1, <1>2
  <2> HIDE DEF X, Y, Z
  <2>3. Z <= 32 * Y
    BY <2>1, <2>2
  <2> QED BY <2>3 DEF Y, Z
<1> HIDE DEF Q
<1>4. SUFFICES ASSUME Q > 32 * w PROVE FALSE
  BY <1>1 DEF Q
<1>5. Q - 32 * w \in Nat /\ Q - 32 * w >= 1
  BY <1>1, <1>4
<1>6. N * (Q - 32 * w) >= 1
  BY <1>5
<1>7. N * (Q - 32 * w) = N * Q - 32 * (w * N)
  BY <1>1
<1>8. N * Q \in Int /\ w * N \in Int
  BY <1>1
<1> QED BY <1>3, <1>6, <1>7, <1>8

-----------------------------------------------------------------------------
(* The operators of RiskScore, on any reading.                             *)

Reading == [Signals -> Nat \cup {Null}]
Baseline == [mean : Int, variance : Nat]
Baselines == [Signals -> Baseline]

\* The baselines the values were folded into: the variance of each signal covers
\* its deviation.
Covered(b, v) ==
  \A s \in Signals : v[s] # Null =>
    2 * ((16 * v[s] - b[s].mean) * (16 * v[s] - b[s].mean)) <= (Window + 1) * b[s].variance

\* The square of an integer is a natural number.
LEMMA SquareNat == ASSUME NEW d \in Int PROVE d * d \in Nat
OBVIOUS

\* The first baselines are the values themselves.
LEMMA FirstCovers ==
  ASSUME NEW v \in Reading
  PROVE  Agent!FirstBaselines(v) \in Baselines /\ Covered(Agent!FirstBaselines(v), v)
<1> DEFINE b == Agent!FirstBaselines(v)
<1>1. b = [s \in Signals |-> [mean |-> 16 * (IF v[s] = Null THEN 0 ELSE v[s]), variance |-> 0]]
  BY DEF Agent!FirstBaselines, Agent!InitBaselines, Agent!Scale
<1>2. \A s \in Signals : v[s] = Null \/ v[s] \in Nat
  BY DEF Reading
<1> HIDE DEF b
<1>3. \A s \in Signals : b[s] \in Baseline
  BY <1>1, <1>2 DEF Baseline
<1>4. b \in Baselines
  BY <1>1, <1>3 DEF Baselines
<1>5. ASSUME NEW s \in Signals, v[s] # Null
      PROVE  16 * v[s] - b[s].mean = 0 /\ b[s].variance = 0
  BY <1>1, <1>2, <1>5
<1>6. Covered(b, v)
  BY <1>5, TelemetryAssumption DEF Covered, TelemetryAssumption
<1> QED BY <1>4, <1>6 DEF b

\* One value folded into the baseline of its signal.
LEMMA UpdateCovers ==
  ASSUME NEW p \in Baseline, NEW n \in Nat
  PROVE  LET q == Agent!UpdateBaselines(p, n)
         IN  q \in Baseline
             /\ 2 * ((16 * n - q.mean) * (16 * n - q.mean)) <= (Window + 1) * q.variance
<1> DEFINE q == Agent!UpdateBaselines(p, n)
           m == (2 * 16 * n + (Window - 1) * p.mean) \div (Window + 1)
           D == (16 * n - m) * (16 * n - m)
           V == (2 * D + (Window - 1) * p.variance + Window) \div (Window + 1)
<1>1. q = [mean |-> m, variance |-> V]
  BY DEF Agent!UpdateBaselines, Agent!Scale, Agent!Square
<1>2. Window \in Nat \ {0} /\ p.mean \in Int /\ p.variance \in Nat
  BY TelemetryAssumption DEF TelemetryAssumption, Baseline
<1>3. m \in Int
  <2>1. 2 * 16 * n + (Window - 1) * p.mean \in Int /\ Window + 1 \in Nat \ {0}
    BY <1>2
  <2>2. \A a \in Int, b \in Nat \ {0} : a \div b \in Int
    OBVIOUS
  <2> QED BY <2>1, <2>2
<1> HIDE DEF m
<1>4. D \in Nat
  <2>1. 16 * n - m \in Int
    BY <1>3
  <2> QED BY <2>1, SquareNat
<1> HIDE DEF D
<1>5. V \in Int
  <2>1. 2 * D + (Window - 1) * p.variance + Window \in Int /\ Window + 1 \in Nat \ {0}
    BY <1>2, <1>4
  <2>2. \A a \in Int, b \in Nat \ {0} : a \div b \in Int
    OBVIOUS
  <2> QED BY <2>1, <2>2
<1>6. V \in Nat /\ 2 * D <= (Window + 1) * V
  BY <1>2, <1>4, <1>5, VarianceCovers
<1> HIDE DEF V, q
<1>7. q \in Baseline /\ q.mean = m /\ q.variance = V
  BY <1>1, <1>3, <1>6 DEF Baseline
<1>8. (16 * n - m) * (16 * n - m) = D
  BY DEF D
<1> QED BY <1>6, <1>7, <1>8 DEF q

\* The agent folds a reading into its baselines before it measures it.
LEMMA FoldedCovers ==
  ASSUME NEW b, b = Null \/ b \in Baselines, NEW v \in Reading
  PROVE  Agent!Folded(b, v) \in Baselines /\ Covered(Agent!Folded(b, v), v)
<1>1. CASE b = Null
  BY <1>1, FirstCovers DEF Agent!Folded
<1>2. CASE b # Null
  <2> DEFINE c == Agent!NextBaselines(b, v)
  <2>1. c = [s \in Signals |-> IF v[s] = Null THEN b[s] ELSE Agent!UpdateBaselines(b[s], v[s])]
    BY DEF Agent!NextBaselines
  <2>2. Agent!Folded(b, v) = c
    BY <1>2 DEF Agent!Folded
  <2> HIDE DEF c
  <2>3. ASSUME NEW s \in Signals
        PROVE  /\ c[s] \in Baseline
               /\ v[s] # Null => 2 * ((16 * v[s] - c[s].mean) * (16 * v[s] - c[s].mean))
                                   <= (Window + 1) * c[s].variance
    <3>1. b[s] \in Baseline /\ (v[s] = Null \/ v[s] \in Nat)
      BY <1>2 DEF Baselines, Reading
    <3>2. CASE v[s] = Null
      BY <2>1, <3>1, <3>2
    <3>3. CASE v[s] # Null
      <4>1. c[s] = Agent!UpdateBaselines(b[s], v[s])
        BY <2>1, <3>3
      <4> QED BY <3>1, <3>3, <4>1, UpdateCovers
    <3> QED BY <3>2, <3>3
  <2>4. c \in Baselines
    BY <2>1, <2>3 DEF Baselines
  <2> QED BY <2>2, <2>3, <2>4 DEF Covered
<1> QED BY <1>1, <1>2
\* The z-score of a covered deviation is bounded.
LEMMA ZScoreBounded ==
  ASSUME NEW s \in Signals, NEW n \in Nat \cup {Null}, NEW p \in Baseline,
         n # Null => 2 * ((16 * n - p.mean) * (16 * n - p.mean)) <= (Window + 1) * p.variance
  PROVE  LET z == Agent!ComputeZScore(s, n, p)
         IN  z \in Nat /\ z * z <= 32 * (Window + 1)
<1> DEFINE z == Agent!ComputeZScore(s, n, p)
           D == (16 * n - p.mean) * (16 * n - p.mean)
           N == Agent!Larger(p.variance, MinVariance[s])
           Q == (64 * D) \div N
<1>1. Window + 1 \in Nat \ {0} /\ p.mean \in Int /\ p.variance \in Nat
  BY TelemetryAssumption DEF TelemetryAssumption, Baseline
<1>2. CASE n = Null
  <2>1. z = 0
    BY <1>2 DEF Agent!ComputeZScore
  <2> QED BY <1>1, <2>1
<1>3. CASE n # Null
  <2>1. z = Agent!Root(Q)
    BY <1>3 DEF Agent!ComputeZScore, Agent!Square, Agent!Scale
  <2>2. N \in Nat \ {0} /\ p.variance <= N
    BY <1>1 DEF Agent!Larger, MinVariance, Signals
  <2>3. D \in Nat
    <3>1. 16 * n - p.mean \in Int
      BY <1>1, <1>3
    <3> QED BY <3>1, SquareNat
  <2>4. 2 * D <= (Window + 1) * p.variance
    BY <1>3
  <2> HIDE DEF D, N
  <2>5. Q \in Nat /\ Q <= 32 * (Window + 1)
    BY <1>1, <2>2, <2>3, <2>4, QuotientBound
  <2> HIDE DEF Q
  <2>6. \E r \in 0..Q : r * r <= Q /\ Q < (r + 1) * (r + 1)
    BY <2>5, RootExists
  <2>7. Agent!Root(Q) \in 0..Q /\ Agent!Root(Q) * Agent!Root(Q) <= Q
    BY <2>6 DEF Agent!Root, Agent!Square
  <2> HIDE DEF z
  <2>8. z \in Nat /\ z * z \in Int /\ z * z <= Q
    BY <2>1, <2>5, <2>7
  <2> QED BY <1>1, <2>5, <2>8 DEF z
<1> QED BY <1>2, <1>3

\* The largest of 0 and a number for each of some signals.
LEMMA LargestIs ==
  ASSUME NEW K \in SUBSET Signals, NEW f \in [K -> Int]
  PROVE  LET T == {0} \cup {f[s] : s \in K}
         IN  Agent!LargestOf(T) \in T /\ \A n \in T : n <= Agent!LargestOf(T)
<1> DEFINE T == {0} \cup {f[s] : s \in K}
           g == [s \in Signals |-> IF s \in K THEN f[s] ELSE 0]
<1>1. \A a, b, c, d \in Int : \E m \in {0, a, b, c, d} : \A n \in {0, a, b, c, d} : n <= m
  OBVIOUS
<1>2. T = {0, g["temperature"], g["accel"], g["gyro"], g["position"]} \cup {f[s] : s \in K}
  BY DEF Signals
<1>3. {f[s] : s \in K} \subseteq {g["temperature"], g["accel"], g["gyro"], g["position"]}
  BY DEF Signals
<1>4. \A s \in Signals : g[s] \in Int
  OBVIOUS
<1> HIDE DEF g
<1>5. T = {0, g["temperature"], g["accel"], g["gyro"], g["position"]}
  BY <1>2, <1>3
<1>6. \E m \in T : \A n \in T : n <= m
  BY <1>1, <1>4, <1>5 DEF Signals
<1> HIDE DEF T
<1>7. Agent!LargestOf(T) \in T /\ \A n \in T : n <= Agent!LargestOf(T)
  BY <1>6 DEF Agent!LargestOf
<1> QED BY <1>7 DEF T

\* What one value of a signal adds to the breach and to the severity.
BreachOf(s, n) ==
  IF n >= THRESHOLDS[s].critical THEN 2 ELSE IF n >= THRESHOLDS[s].warn THEN 1 ELSE 0

SeverityOf(s, n) ==
  LET warn == THRESHOLDS[s].warn
      critical == THRESHOLDS[s].critical
  IN  IF n >= critical
        THEN 1800 + (Agent!Smaller(n - critical, critical) * 600) \div critical
      ELSE IF n >= warn THEN 1200 + ((n - warn) * 600) \div (critical - warn)
      ELSE 0

\* The severity of a value below the critical threshold is less than three
\* quarters of Full, from there on it is at least that; from the warning
\* threshold on it is at least a half.
LEMMA SeverityBounds ==
  ASSUME NEW s \in Signals, NEW n \in Nat
  PROVE  /\ SeverityOf(s, n) \in Nat /\ SeverityOf(s, n) <= 2400
         /\ n >= THRESHOLDS[s].warn => SeverityOf(s, n) >= 1200
         /\ SeverityOf(s, n) >= 1800 <=> n >= THRESHOLDS[s].critical
<1>1. CASE s = "temperature"
  BY <1>1 DEF SeverityOf, THRESHOLDS, Agent!Smaller
<1>2. CASE s = "accel"
  BY <1>2 DEF SeverityOf, THRESHOLDS, Agent!Smaller
<1>3. CASE s = "gyro"
  BY <1>3 DEF SeverityOf, THRESHOLDS, Agent!Smaller
<1>4. CASE s = "position"
  BY <1>4 DEF SeverityOf, THRESHOLDS, Agent!Smaller
<1> QED BY <1>1, <1>2, <1>3, <1>4 DEF Signals

\* The severity of a reading is that of one of its values, and no less than that
\* of any of them.
LEMMA SeverityIs ==
  ASSUME NEW v \in Reading
  PROVE  LET severity == Agent!ComputeThresholdSeverity(v)
         IN  /\ severity = 0 \/ \E s \in Signals : v[s] # Null /\ severity = SeverityOf(s, v[s])
             /\ \A s \in Signals : v[s] # Null => SeverityOf(s, v[s]) <= severity
<1> DEFINE K == Agent!Known(v)
           f == [s \in K |-> SeverityOf(s, v[s])]
           T == {0} \cup {f[s] : s \in K}
<1>1. K = {s \in Signals : v[s] # Null} /\ \A s \in K : v[s] \in Nat
  BY DEF Agent!Known, Reading
<1>2. Agent!ComputeThresholdSeverity(v) = Agent!LargestOf({0} \cup {SeverityOf(s, v[s]) : s \in K})
  BY DEF Agent!ComputeThresholdSeverity, SeverityOf, Agent!Full
<1> HIDE DEF K
<1>3. {f[s] : s \in K} = {SeverityOf(s, v[s]) : s \in K}
  OBVIOUS
<1>4. f \in [K -> Int] /\ K \in SUBSET Signals
  <2>1. \A s \in K : SeverityOf(s, v[s]) \in Int
    BY <1>1, SeverityBounds
  <2> QED BY <1>1, <2>1
<1> HIDE DEF f
<1>5. Agent!LargestOf(T) \in T /\ \A n \in T : n <= Agent!LargestOf(T)
  BY <1>4, LargestIs
<1>6. \A s \in K : f[s] = SeverityOf(s, v[s])
  BY DEF f
<1> QED BY <1>1, <1>2, <1>3, <1>5, <1>6

\* The breach of a reading, likewise.
LEMMA BreachIs ==
  ASSUME NEW v \in Reading
  PROVE  LET breach == Agent!ComputeThresholdBreach(v)
         IN  /\ breach \in 0..2
             /\ breach < 2 => \A s \in Signals : v[s] # Null => v[s] < THRESHOLDS[s].critical
<1> DEFINE K == Agent!Known(v)
           f == [s \in K |-> BreachOf(s, v[s])]
           T == {0} \cup {f[s] : s \in K}
<1>1. K = {s \in Signals : v[s] # Null} /\ \A s \in K : v[s] \in Nat
  BY DEF Agent!Known, Reading
<1>2. Agent!ComputeThresholdBreach(v) = Agent!LargestOf({0} \cup {BreachOf(s, v[s]) : s \in K})
  BY DEF Agent!ComputeThresholdBreach, BreachOf
<1> HIDE DEF K
<1>3. {f[s] : s \in K} = {BreachOf(s, v[s]) : s \in K}
  OBVIOUS
<1>4. \A s \in K : BreachOf(s, v[s]) \in 0..2
  BY DEF BreachOf
<1>5. f \in [K -> Int] /\ K \in SUBSET Signals
  BY <1>1, <1>4
<1>6. \A s \in K : f[s] = BreachOf(s, v[s])
  OBVIOUS
<1> HIDE DEF f
<1>7. Agent!LargestOf(T) \in T /\ \A n \in T : n <= Agent!LargestOf(T)
  BY <1>5, LargestIs
<1> DEFINE breach == Agent!ComputeThresholdBreach(v)
<1>8. breach \in T /\ \A n \in T : n <= breach
  BY <1>2, <1>3, <1>7
<1> HIDE DEF breach
<1>9. breach \in 0..2
  BY <1>4, <1>6, <1>8
<1>10. ASSUME breach < 2, NEW s \in Signals, v[s] # Null
       PROVE  v[s] < THRESHOLDS[s].critical
  <2>1. BreachOf(s, v[s]) <= breach /\ v[s] \in Nat /\ s \in K
    BY <1>1, <1>6, <1>8, <1>10
  <2>2. BreachOf(s, v[s]) # 2
    BY <1>9, <1>10, <2>1
  <2>3. ~(v[s] >= THRESHOLDS[s].critical)
    BY <2>2 DEF BreachOf
  <2>4. THRESHOLDS[s].critical \in Nat
    BY DEF THRESHOLDS, Signals
  <2> QED BY <2>1, <2>3, <2>4
<1> QED BY <1>9, <1>10 DEF breach

\* The weighted sum of z-scores is a risk; of one z-score alone and a breach
\* below the critical one, it is less than three quarters of Full.
LEMMA CompositeBounds ==
  ASSUME NEW z \in [Signals -> Nat], NEW breach \in 0..2
  PROVE  LET risk == Agent!ComputeCompositeRisk(z, breach)
         IN  /\ risk \in Nat /\ risk <= 2400
             /\ /\ \A s, t \in Signals : z[s] > 0 /\ z[t] > 0 => s = t
                /\ \A s \in Signals : z[s] <= 50
                /\ breach < 2
                => risk < 1800
<1> DEFINE sum == 35 * z["position"] + 25 * z["accel"] + 15 * z["gyro"]
                  + 15 * z["temperature"] + 40 * breach
<1>1. Agent!ComputeCompositeRisk(z, breach) = Agent!Smaller(2400, sum)
  BY DEF Agent!ComputeCompositeRisk, WEIGHTS, Agent!Full
<1>2. /\ z["position"] \in Nat /\ z["accel"] \in Nat /\ z["gyro"] \in Nat
      /\ z["temperature"] \in Nat
  BY DEF Signals
<1>3. sum \in Nat
  BY <1>2
<1>4. ASSUME \A s, t \in Signals : z[s] > 0 /\ z[t] > 0 => s = t,
             \A s \in Signals : z[s] <= 50, breach < 2
      PROVE  sum < 1800
  <2>1. /\ z["position"] <= 50 /\ z["accel"] <= 50 /\ z["gyro"] <= 50
        /\ z["temperature"] <= 50
    BY <1>4 DEF Signals
  <2>2. /\ ~(z["position"] > 0 /\ z["accel"] > 0) /\ ~(z["position"] > 0 /\ z["gyro"] > 0)
        /\ ~(z["position"] > 0 /\ z["temperature"] > 0) /\ ~(z["accel"] > 0 /\ z["gyro"] > 0)
        /\ ~(z["accel"] > 0 /\ z["temperature"] > 0) /\ ~(z["gyro"] > 0 /\ z["temperature"] > 0)
    BY <1>4 DEF Signals
  <2> DEFINE p == z["position"]
             a == z["accel"]
             g == z["gyro"]
             t == z["temperature"]
  <2>3. /\ ~(p > 0 /\ a > 0) /\ ~(p > 0 /\ g > 0) /\ ~(p > 0 /\ t > 0)
        /\ ~(a > 0 /\ g > 0) /\ ~(a > 0 /\ t > 0) /\ ~(g > 0 /\ t > 0)
    BY <2>2
  <2>4. p \in 0..50 /\ a \in 0..50 /\ g \in 0..50 /\ t \in 0..50 /\ breach \in 0..1
    BY <1>2, <1>4, <2>1
  <2>5. sum = 35 * p + 25 * a + 15 * g + 15 * t + 40 * breach
    OBVIOUS
  <2> HIDE DEF p, a, g, t, sum
  <2> QED BY <2>3, <2>4, <2>5
<1> HIDE DEF sum
<1> QED BY <1>1, <1>3, <1>4 DEF Agent!Smaller

\* What the risk score of a reading says, when the baselines cover it.
LEMMA AssessFacts ==
  ASSUME NEW b \in Baselines, NEW v \in Reading, Covered(b, v)
  PROVE  LET a == Agent!Assess(b, v)
         IN  /\ a.risk \in Nat /\ a.risk <= Agent!Full
             /\ a.state = Agent!DetermineRiskState(a.risk)
             /\ \A s \in Signals : a.z[s] \in Nat /\ a.z[s] * a.z[s] <= 32 * (Window + 1)
             /\ a.risk = Agent!Larger(Agent!ComputeCompositeRisk(a.z, a.breach),
                                      Agent!ComputeThresholdSeverity(v))
             /\ a.breach = Agent!ComputeThresholdBreach(v)
<1> DEFINE a == Agent!Assess(b, v)
           z == [s \in Signals |-> Agent!ComputeZScore(s, v[s], b[s])]
           breach == Agent!ComputeThresholdBreach(v)
           composite == Agent!ComputeCompositeRisk(z, breach)
           severity == Agent!ComputeThresholdSeverity(v)
           risk == Agent!Larger(composite, severity)
<1>1. /\ a.z = z /\ a.risk = risk /\ a.state = Agent!DetermineRiskState(risk)
      /\ a.breach = breach
  BY DEF Agent!Assess, Agent!Composite
<1>2. \A s \in Signals : z[s] = Agent!ComputeZScore(s, v[s], b[s])
  OBVIOUS
<1>3. z \in [Signals -> Nat] /\ \A s \in Signals : z[s] * z[s] <= 32 * (Window + 1)
  <2>1. ASSUME NEW s \in Signals
        PROVE  z[s] \in Nat /\ z[s] * z[s] <= 32 * (Window + 1)
    <3>1. v[s] \in Nat \cup {Null} /\ b[s] \in Baseline
      BY DEF Reading, Baselines
    <3>2. v[s] # Null => 2 * ((16 * v[s] - b[s].mean) * (16 * v[s] - b[s].mean))
                            <= (Window + 1) * b[s].variance
      BY DEF Covered
    <3> HIDE DEF z
    <3> QED BY <1>2, <3>1, <3>2, ZScoreBounded
  <2> QED BY <2>1
<1>4. breach \in 0..2
  BY BreachIs
<1> HIDE DEF z, breach, a
<1>5. composite \in Nat /\ composite <= 2400
  BY <1>3, <1>4, CompositeBounds
<1> HIDE DEF composite
<1>6. severity \in Nat /\ severity <= 2400
  <2>1. severity = 0 \/ \E s \in Signals : v[s] # Null /\ severity = SeverityOf(s, v[s])
    BY SeverityIs
  <2>2. \A s \in Signals : v[s] # Null => v[s] \in Nat
    BY DEF Reading
  <2> HIDE DEF severity
  <2> QED BY <2>1, <2>2, SeverityBounds
<1> HIDE DEF severity
<1>7. risk \in Nat /\ risk <= 2400
  BY <1>5, <1>6 DEF Agent!Larger
<1>8. Agent!Full = 2400
  BY DEF Agent!Full
<1>9. risk = Agent!Larger(Agent!ComputeCompositeRisk(z, breach), severity)
  BY DEF composite
<1> HIDE DEF risk
<1> QED BY <1>1, <1>3, <1>7, <1>8, <1>9 DEF a, breach, severity

\* A sustained degradation makes the score elevated, or critical.
LEMMA DegradationScores ==
  ASSUME NEW b \in Baselines, NEW v \in Reading, Covered(b, v), NEW s \in Signals,
         v[s] # Null, v[s] >= THRESHOLDS[s].warn
  PROVE  LET a == Agent!Assess(b, v)
         IN  /\ a.state # "nominal"
             /\ v[s] >= THRESHOLDS[s].critical => a.state = "critical"
<1> DEFINE a == Agent!Assess(b, v)
           composite == Agent!ComputeCompositeRisk(a.z, a.breach)
           severity == Agent!ComputeThresholdSeverity(v)
<1>1. /\ a.risk \in Nat /\ a.state = Agent!DetermineRiskState(a.risk)
      /\ a.risk = Agent!Larger(composite, severity)
      /\ a.z \in [Signals -> Nat] => composite \in Nat
      /\ \A t \in Signals : a.z[t] \in Nat
      /\ a.breach \in 0..2
  BY AssessFacts, BreachIs, CompositeBounds
<1>2. a.z \in [Signals -> Nat]
  <2>1. a.z = [t \in Signals |-> Agent!ComputeZScore(t, v[t], b[t])]
    BY DEF Agent!Assess
  <2>2. \A t \in Signals : a.z[t] \in Nat
    BY <1>1
  <2> HIDE DEF a
  <2> QED BY <2>1, <2>2
<1>3. v[s] \in Nat
  BY DEF Reading
<1>4. SeverityOf(s, v[s]) <= severity
  BY SeverityIs
<1>5. /\ SeverityOf(s, v[s]) \in Nat
      /\ SeverityOf(s, v[s]) >= 1200
      /\ v[s] >= THRESHOLDS[s].critical => SeverityOf(s, v[s]) >= 1800
  BY <1>3, SeverityBounds
<1>6. severity \in Nat
  <2>1. severity = 0 \/ \E t \in Signals : v[t] # Null /\ severity = SeverityOf(t, v[t])
    BY SeverityIs
  <2>2. \A t \in Signals : v[t] # Null => v[t] \in Nat
    BY DEF Reading
  <2> HIDE DEF severity
  <2> QED BY <2>1, <2>2, SeverityBounds
<1> HIDE DEF a, composite, severity
<1>7. a.risk >= severity
  BY <1>1, <1>2, <1>6 DEF Agent!Larger
<1>8. a.risk >= 1200 /\ (v[s] >= THRESHOLDS[s].critical => a.risk >= 1800)
  BY <1>1, <1>4, <1>5, <1>6, <1>7
<1>9. /\ a.risk >= 1200 => a.state # "nominal"
      /\ a.risk >= 1800 => a.state = "critical"
  BY <1>1 DEF Agent!DetermineRiskState, Agent!Full
<1> QED BY <1>8, <1>9 DEF a

\* With an EMA_WINDOW of at most 80, one deviation alone does not make the
\* score critical.
LEMMA OneSignalScores ==
  ASSUME NEW b \in Baselines, NEW v \in Reading, Covered(b, v), Window <= 80,
         LET a == Agent!Assess(b, v)
         IN  /\ \A s, t \in Signals : a.z[s] > 0 /\ a.z[t] > 0 => s = t
             /\ a.breach < 2
  PROVE  Agent!Assess(b, v).state # "critical"
<1> DEFINE a == Agent!Assess(b, v)
           composite == Agent!ComputeCompositeRisk(a.z, a.breach)
           severity == Agent!ComputeThresholdSeverity(v)
<1>1. /\ a.risk \in Nat /\ a.state = Agent!DetermineRiskState(a.risk)
      /\ a.risk = Agent!Larger(composite, severity)
      /\ \A s \in Signals : a.z[s] \in Nat /\ a.z[s] * a.z[s] <= 32 * (Window + 1)
      /\ a.breach = Agent!ComputeThresholdBreach(v)
  BY AssessFacts
<1>2. a.breach \in 0..2 /\ \A s \in Signals : v[s] # Null => v[s] < THRESHOLDS[s].critical
  BY <1>1, BreachIs
<1>3. a.z = [s \in Signals |-> Agent!ComputeZScore(s, v[s], b[s])]
  BY DEF Agent!Assess
<1>4. \A s, t \in Signals : a.z[s] > 0 /\ a.z[t] > 0 => s = t
  OBVIOUS
<1>5. a.breach < 2
  OBVIOUS
<1> HIDE DEF a
<1>6. a.z \in [Signals -> Nat]
  BY <1>1, <1>3
<1>7. ASSUME NEW s \in Signals PROVE a.z[s] <= 50
  <2> DEFINE n == a.z[s]
  <2>1. n \in Nat /\ n * n <= 32 * (Window + 1) /\ Window \in Nat
    BY <1>1, TelemetryAssumption DEF TelemetryAssumption
  <2> HIDE DEF n
  <2>2. n * n <= 2592
    BY <2>1
  <2>3. n > 50 => n * n >= 51 * 51
    BY <2>1
  <2>4. n <= 50
    BY <2>1, <2>2, <2>3
  <2> QED BY <2>4 DEF n
<1>8. composite \in Nat /\ composite < 1800
  BY <1>2, <1>4, <1>5, <1>6, <1>7, CompositeBounds
<1>9. severity \in Nat /\ severity < 1800
  <2>1. severity = 0 \/ \E s \in Signals : v[s] # Null /\ severity = SeverityOf(s, v[s])
    BY SeverityIs
  <2>2. ASSUME NEW s \in Signals, v[s] # Null
        PROVE  SeverityOf(s, v[s]) \in Nat /\ ~(SeverityOf(s, v[s]) >= 1800)
    <3>1. v[s] \in Nat /\ v[s] < THRESHOLDS[s].critical
      BY <1>2, <2>2 DEF Reading
    <3>2. ~(v[s] >= THRESHOLDS[s].critical)
      <4>1. THRESHOLDS[s].critical \in Nat
        BY DEF THRESHOLDS, Signals
      <4> QED BY <3>1, <4>1
    <3> QED BY <3>1, <3>2, SeverityBounds
  <2> HIDE DEF severity
  <2> QED BY <2>1, <2>2
<1> HIDE DEF composite, severity
<1>10. a.risk < 1800
  BY <1>1, <1>8, <1>9 DEF Agent!Larger
<1>11. a.state # "critical"
  BY <1>1, <1>10 DEF Agent!DetermineRiskState, Agent!Full
<1> QED BY <1>11 DEF a

-----------------------------------------------------------------------------
(* The exporter.                                                           *)

Last == stream[Len(stream)]

\* The next number, as the last event of this life and its answer leave it.
NextNumber ==
  IF Len(stream) = 0 THEN 0
  ELSE IF Last.life # life THEN 0
  ELSE IF Last.acked THEN Last.sequence + 1 ELSE Last.sequence

StreamType == Seq([life : Nat, sequence : Nat, acked : BOOLEAN])

\* The number in use is the next one, and no more numbers are used up than
\* samples were taken.
ExporterInv ==
  /\ ExporterTypeOK
  /\ samples \in 0..MaxSamples
  /\ stream \in StreamType
  /\ sequence = NextNumber
  /\ sequence + (IF ePc = "publish" THEN 1 ELSE 0) <= samples
  /\ ePc = "publish" => sample \in Reading
  /\ SequenceFollowsAnswers

\* What is read of the sensors is a reading, whatever is missing.
LEMMA ReadIsReading ==
  ASSUME NEW condition \in Conditions, NEW reading \in Read(condition)
  PROVE  /\ reading \in Reading /\ [reading EXCEPT !.position = 0] \in Reading
         /\ reading # Null /\ [reading EXCEPT !.position = 0] # Null
<1>1. condition \in [Signals -> Nat]
  BY TelemetryAssumption DEF TelemetryAssumption
<1>2. DOMAIN condition = Signals
  BY <1>1
<1>3. PICK lost : reading = [s \in Signals |-> IF s \in lost THEN Null ELSE condition[s]]
                  \/ reading = condition
  BY <1>2 DEF Read
<1>4. reading \in Reading
  BY <1>1, <1>3 DEF Reading
<1>5. [reading EXCEPT !.position = 0] \in Reading
  BY <1>4 DEF Reading
<1> QED BY <1>4, <1>5, TelemetryAssumption DEF TelemetryAssumption, Reading

\* An event is stored behind the others.
LEMMA StreamGrows ==
  ASSUME stream \in StreamType, NEW e \in [life : Nat, sequence : Nat, acked : BOOLEAN],
         stream' = Append(stream, e)
  PROVE  /\ stream' \in StreamType /\ Len(stream) \in Nat /\ Len(stream') = Len(stream) + 1
         /\ DOMAIN stream = 1..Len(stream) /\ DOMAIN stream' = 1..(Len(stream) + 1)
         /\ stream'[Len(stream) + 1] = e /\ \A k \in 1..Len(stream) : stream'[k] = stream[k]
BY DEF StreamType

\* The event that is stored has the number in use.
LEMMA StoredFollows ==
  ASSUME ExporterInv, NEW acked \in BOOLEAN, Stored(acked)
  PROVE  /\ stream' \in StreamType /\ Len(stream) \in Nat
         /\ Len(stream') = Len(stream) + 1
         /\ stream'[Len(stream')] = [life |-> life, sequence |-> sequence, acked |-> acked]
         /\ \A k \in DOMAIN stream' : stream'[k].life \in 1..life
         /\ SequenceFollowsAnswers'
<1> DEFINE e == [life |-> life, sequence |-> sequence, acked |-> acked]
<1>1. life \in Nat /\ life >= 1 /\ sequence \in Nat /\ stream \in StreamType
  BY ExporterAssumption DEF ExporterInv, ExporterTypeOK, ExporterAssumption
<1>2. stream' = Append(stream, e)
  BY DEF Stored
<1>3. e \in [life : Nat, sequence : Nat, acked : BOOLEAN]
  BY <1>1
<1>4. /\ stream' \in StreamType /\ Len(stream) \in Nat /\ Len(stream') = Len(stream) + 1
      /\ DOMAIN stream = 1..Len(stream) /\ DOMAIN stream' = 1..(Len(stream) + 1)
      /\ stream'[Len(stream) + 1] = e /\ \A k \in 1..Len(stream) : stream'[k] = stream[k]
  BY <1>1, <1>2, <1>3, StreamGrows
<1>5. e.life = life /\ e.sequence = sequence
  OBVIOUS
<1> HIDE DEF e
<1>6. ASSUME NEW k \in DOMAIN stream' PROVE stream'[k].life \in 1..life
  <2>1. CASE k \in 1..Len(stream)
    BY <1>4, <2>1 DEF ExporterInv, ExporterTypeOK
  <2>2. CASE k = Len(stream) + 1
    BY <1>1, <1>4, <1>5, <2>2
  <2> QED BY <1>4, <2>1, <2>2
<1>7. ASSUME NEW k \in DOMAIN stream'
      PROVE  stream'[k].sequence =
               IF k = 1 THEN 0
               ELSE IF stream'[k - 1].life # stream'[k].life THEN 0
               ELSE IF stream'[k - 1].acked THEN stream'[k - 1].sequence + 1
               ELSE stream'[k - 1].sequence
  <2>1. CASE k \in 1..Len(stream)
    <3>1. stream[k].sequence =
            IF k = 1 THEN 0
            ELSE IF stream[k - 1].life # stream[k].life THEN 0
            ELSE IF stream[k - 1].acked THEN stream[k - 1].sequence + 1
            ELSE stream[k - 1].sequence
      BY <1>4, <2>1 DEF ExporterInv, SequenceFollowsAnswers
    <3>2. stream'[k] = stream[k] /\ (k # 1 => stream'[k - 1] = stream[k - 1])
      BY <1>4, <2>1
    <3> QED BY <3>1, <3>2
  <2>2. CASE k = Len(stream) + 1
    <3>1. sequence = NextNumber
      BY DEF ExporterInv
    <3>2. stream'[k].sequence = sequence /\ stream'[k].life = life
      BY <1>4, <1>5, <2>2
    <3>3. Len(stream) # 0 => stream'[k - 1] = Last
      BY <1>4, <2>2 DEF Last
    <3> QED BY <1>4, <2>2, <3>1, <3>2, <3>3 DEF NextNumber
  <2> QED BY <1>4, <2>1, <2>2
<1>8. SequenceFollowsAnswers'
  <2>1. \A k \in DOMAIN stream' : k \in Nat /\ (k = 1 \/ k - 1 # 0)
    BY <1>4
  <2> QED BY <1>7, <2>1 DEF SequenceFollowsAnswers
<1> QED BY <1>4, <1>6, <1>8 DEF e

\* Nothing is stored: what is known of the stream stays.
LEMMA NotStored ==
  ASSUME ExporterInv, UNCHANGED stream
  PROVE  /\ stream' \in StreamType /\ SequenceFollowsAnswers'
         /\ \A k \in DOMAIN stream' : stream'[k].life \in 1..life
BY DEF ExporterInv, ExporterTypeOK, SequenceFollowsAnswers

\* Every step of the exporter keeps its invariant.
LEMMA SampleStep == ASSUME ExporterInv, Sample PROVE ExporterInv'
<1>1. /\ ePc = "sample" /\ samples < MaxSamples /\ samples' = samples + 1 /\ ePc' = "publish"
      /\ UNCHANGED <<once, shutdown, imu, sequence, life, stream>>
  BY DEF Sample
<1>2. sample' \in Reading /\ sample' # Null
  <2>1. PICK condition \in Conditions :
          \E reading \in Read(condition) : sample' \in {reading, [reading EXCEPT !.position = 0]}
    BY DEF Sample
  <2>2. PICK reading \in Read(condition) : sample' \in {reading, [reading EXCEPT !.position = 0]}
    BY <2>1
  <2> QED BY <2>2, ReadIsReading
<1>3. samples' \in 0..MaxSamples /\ sequence + 1 <= samples'
  BY <1>1, ExporterAssumption DEF ExporterInv, ExporterTypeOK, ExporterAssumption
<1>4. NextNumber' = NextNumber
  BY <1>1 DEF NextNumber, Last
<1>5. ExporterTypeOK'
  BY <1>1, <1>2 DEF ExporterInv, ExporterTypeOK
<1> QED BY <1>1, <1>2, <1>3, <1>4, <1>5, NotStored DEF ExporterInv

LEMMA PublishStep == ASSUME ExporterInv, Publish PROVE ExporterInv'
<1>1. /\ ePc = "publish" /\ sequence' = sequence + 1 /\ sample' = Null /\ Stored(TRUE)
      /\ ePc' \in {"wait", "closed"}
      /\ UNCHANGED <<once, shutdown, imu, life, samples>>
  BY DEF Publish, AfterAttempt
<1>2. /\ stream' \in StreamType /\ Len(stream) \in Nat /\ Len(stream') = Len(stream) + 1
      /\ stream'[Len(stream')] = [life |-> life, sequence |-> sequence, acked |-> TRUE]
      /\ \A k \in DOMAIN stream' : stream'[k].life \in 1..life
      /\ SequenceFollowsAnswers'
  BY <1>1, StoredFollows
<1>3. sequence \in Nat /\ samples \in Nat /\ samples <= MaxSamples /\ sequence + 1 <= samples
      /\ MaxSamples \in Nat
  BY <1>1, ExporterAssumption DEF ExporterInv, ExporterTypeOK, ExporterAssumption
<1>4. NextNumber' = sequence + 1
  BY <1>1, <1>2 DEF NextNumber, Last
<1>5. sequence' \in 0..MaxSamples
  BY <1>1, <1>3
<1>6. ExporterTypeOK'
  BY <1>1, <1>2, <1>5 DEF ExporterInv, ExporterTypeOK
<1> QED BY <1>1, <1>2, <1>3, <1>4, <1>6 DEF ExporterInv

LEMMA PublishFailsStep == ASSUME ExporterInv, PublishFails PROVE ExporterInv'
<1>1. /\ ePc = "publish" /\ sequence' = sequence /\ sample' = Null
      /\ Stored(FALSE) \/ UNCHANGED stream
      /\ ePc' \in {"wait", "closed"}
      /\ UNCHANGED <<once, shutdown, imu, life, samples>>
  BY DEF PublishFails, NumberAfterFailure, AfterAttempt
<1>2. /\ stream' \in StreamType
      /\ \A k \in DOMAIN stream' : stream'[k].life \in 1..life
      /\ SequenceFollowsAnswers'
  BY <1>1, StoredFollows, NotStored
<1>3. NextNumber' = sequence
  <2>1. CASE Stored(FALSE)
    <3>1. /\ Len(stream) \in Nat /\ Len(stream') = Len(stream) + 1
          /\ stream'[Len(stream')] = [life |-> life, sequence |-> sequence, acked |-> FALSE]
      BY <2>1, StoredFollows
    <3> QED BY <1>1, <3>1 DEF NextNumber, Last
  <2>2. CASE UNCHANGED stream
    BY <1>1, <2>2 DEF NextNumber, Last, ExporterInv
  <2> QED BY <1>1, <2>1, <2>2
<1>4. sequence \in Nat /\ samples \in Nat /\ sequence + 1 <= samples
  BY <1>1, ExporterAssumption DEF ExporterInv, ExporterTypeOK, ExporterAssumption
<1>5. ExporterTypeOK'
  BY <1>1, <1>2 DEF ExporterInv, ExporterTypeOK
<1>6. sequence' + (IF ePc' = "publish" THEN 1 ELSE 0) <= samples'
  BY <1>1, <1>4
<1> QED BY <1>1, <1>2, <1>3, <1>5, <1>6 DEF ExporterInv

LEMMA CrashStep == ASSUME ExporterInv, Crash PROVE ExporterInv'
<1>1. /\ life < MaxLives /\ life' = life + 1 /\ sequence' = 0 /\ sample' = Null
      /\ ePc' = "sample" /\ shutdown' = FALSE /\ imu' \in BOOLEAN
      /\ Stored(FALSE) \/ UNCHANGED stream
      /\ UNCHANGED <<once, samples>>
  BY DEF Crash
<1>2. /\ stream' \in StreamType
      /\ \A k \in DOMAIN stream' : stream'[k].life \in 1..life
      /\ SequenceFollowsAnswers'
  BY <1>1, StoredFollows, NotStored
<1>3. life \in Nat /\ MaxLives \in Nat /\ samples \in Nat /\ life >= 1 /\ MaxSamples \in Nat
  BY ExporterAssumption DEF ExporterInv, ExporterTypeOK, ExporterAssumption
<1>4. Len(stream') # 0 => Last'.life \in 1..life
  <2>1. Len(stream') \in Nat /\ DOMAIN stream' = 1..Len(stream')
    BY <1>2 DEF StreamType
  <2> QED BY <1>2, <2>1 DEF Last
<1>5. NextNumber' = 0
  BY <1>1, <1>3, <1>4 DEF NextNumber
<1>6. life' \in 1..MaxLives /\ \A k \in DOMAIN stream' : stream'[k].life \in 1..life'
  BY <1>1, <1>2, <1>3
<1>7. ExporterTypeOK'
  <2>1. sequence' \in 0..MaxSamples
    BY <1>1, <1>3
  <2>2. once' \in BOOLEAN /\ shutdown' \in BOOLEAN /\ imu' \in BOOLEAN
    BY <1>1 DEF ExporterInv, ExporterTypeOK
  <2>3. ePc' \in {"sample", "publish", "wait", "closed"} /\ (sample' # Null <=> ePc' = "publish")
    BY <1>1
  <2> QED BY <1>6, <2>1, <2>2, <2>3 DEF ExporterTypeOK
<1>8. sequence' + (IF ePc' = "publish" THEN 1 ELSE 0) <= samples'
  BY <1>1, <1>3
<1> QED BY <1>1, <1>2, <1>5, <1>7, <1>8 DEF ExporterInv

\* The other steps store nothing and use up no number.
LEMMA QuietStep ==
  ASSUME ExporterInv, SampleFails \/ Wait \/ Signal \/ UNCHANGED exporter
  PROVE  ExporterInv'
<1>1. UNCHANGED <<once, imu, sequence, sample, life, samples, stream>>
  BY DEF SampleFails, Wait, Signal, exporter
<1>2. /\ ePc' = "publish" <=> ePc = "publish"
      /\ ePc' \in {"sample", "publish", "wait", "closed"} /\ shutdown' \in BOOLEAN
  BY DEF ExporterInv, ExporterTypeOK, SampleFails, Wait, Signal, exporter, AfterAttempt, AfterWait
<1>3. ExporterTypeOK'
  BY <1>1, <1>2 DEF ExporterInv, ExporterTypeOK
<1>4. NextNumber' = NextNumber
  BY <1>1 DEF NextNumber, Last
<1> QED BY <1>1, <1>2, <1>3, <1>4, NotStored DEF ExporterInv

-----------------------------------------------------------------------------
(* The simulated robots and the two assessments.                           *)

\* The tool's copy of the arithmetic computes what the agent's does.
LEMMA SameArithmetic ==
  ASSUME NEW b, NEW v
  PROVE  Tool!Folded(b, v) = Agent!Folded(b, v) /\ Tool!Assess(b, v) = Agent!Assess(b, v)
<1>1. ToolThresholds = THRESHOLDS /\ ToolWeights = WEIGHTS
  BY DEF ToolThresholds, THRESHOLDS, ToolWeights, WEIGHTS
<1>2. Tool!Folded(b, v) = Agent!Folded(b, v)
  BY DEF Tool!Folded, Tool!FirstBaselines, Tool!NextBaselines, Tool!InitBaselines,
         Tool!UpdateBaselines, Tool!Square, Tool!Scale,
         Agent!Folded, Agent!FirstBaselines, Agent!NextBaselines, Agent!InitBaselines,
         Agent!UpdateBaselines, Agent!Square, Agent!Scale
<1>3. \A s, n, p : Tool!ComputeZScore(s, n, p) = Agent!ComputeZScore(s, n, p)
  BY DEF Tool!ComputeZScore, Tool!Root, Tool!Square, Tool!Larger, Tool!Scale,
         Agent!ComputeZScore, Agent!Root, Agent!Square, Agent!Larger, Agent!Scale
<1>4. Tool!ComputeThresholdBreach(v) = Agent!ComputeThresholdBreach(v)
  BY <1>1 DEF Tool!ComputeThresholdBreach, Tool!LargestOf, Tool!Known,
              Agent!ComputeThresholdBreach, Agent!LargestOf, Agent!Known
<1>5. Tool!ComputeThresholdSeverity(v) = Agent!ComputeThresholdSeverity(v)
  BY <1>1 DEF Tool!ComputeThresholdSeverity, Tool!LargestOf, Tool!Known, Tool!Smaller, Tool!Full,
              Agent!ComputeThresholdSeverity, Agent!LargestOf, Agent!Known, Agent!Smaller,
              Agent!Full
<1>6. \A z, n : Tool!ComputeCompositeRisk(z, n) = Agent!ComputeCompositeRisk(z, n)
  BY <1>1 DEF Tool!ComputeCompositeRisk, Tool!Smaller, Tool!Full,
              Agent!ComputeCompositeRisk, Agent!Smaller, Agent!Full
<1>7. \A r : Tool!DetermineRiskState(r) = Agent!DetermineRiskState(r)
  BY DEF Tool!DetermineRiskState, Tool!Full, Agent!DetermineRiskState, Agent!Full
<1>8. \A z : Tool!GetContributingSignals(z) = Agent!GetContributingSignals(z)
  BY DEF Tool!GetContributingSignals, Agent!GetContributingSignals
<1>9. \A m, n : Tool!Larger(m, n) = Agent!Larger(m, n)
  BY DEF Tool!Larger, Agent!Larger
<1>10. Tool!Assess(b, v) = Agent!Assess(b, v)
  BY <1>3, <1>4, <1>5, <1>6, <1>7, <1>8, <1>9
  DEF Tool!Assess, Tool!Composite, Agent!Assess, Agent!Composite
<1> QED BY <1>2, <1>10

\* A simulated robot reports numbers.
LEMMA GeneratedIsReading ==
  ASSUME NEW name \in ScenarioNames, NEW t \in Nat, NEW n \in Nat,
         NEW d \in [Signals -> {-1, 0, 1}]
  PROVE  Generate(name, t, n, d) \in Reading
<1> DEFINE percent == IF t < OnsetTick THEN 0 ELSE Progress(t, n)
           noise == IF t < OnsetTick THEN Noise ELSE RampNoise(name, percent)
           to == Degraded[name]
           value(s) == Healthy[s] + ((to[s] - Healthy[s]) * percent) \div 100 + noise[s] * d[s]
<1>1. \A a \in Int, b \in Nat \ {0} : a \div b \in Int
  OBVIOUS
<1>2. percent \in Int
  <2>1. OnsetTick \in Nat
    BY TelemetryAssumption DEF TelemetryAssumption
  <2>2. Most(n - OnsetTick - 1, 1) \in Nat \ {0} /\ (t - OnsetTick) * 100 \in Int
    BY <2>1 DEF Most
  <2>3. Progress(t, n) \in Int
    BY <1>1, <2>2 DEF Progress
  <2> QED BY <2>3
<1> HIDE DEF percent
<1>3. \A s \in Signals : noise[s] \in Int
  <2>1. \A s \in Signals : Noise[s] \in Int
    BY DEF Noise, Signals
  <2>2. \A s \in Signals : RampNoise(name, percent)[s] \in Int
    <3>1. CASE name = "joint_3_degradation"
      <4>1. ASSUME NEW s \in Signals PROVE RampNoise(name, percent)[s] \in Int
        <5>1. RampNoise(name, percent)[s] =
                ((IF s = "temperature" THEN 2 ELSE Noise[s]) * (200 + percent)) \div 200
          BY <3>1 DEF RampNoise, Noise, Signals
        <5>2. (IF s = "temperature" THEN 2 ELSE Noise[s]) * (200 + percent) \in Int
          BY <1>2, <2>1
        <5> QED BY <1>1, <5>1, <5>2
      <4> QED BY <4>1
    <3>2. CASE name = "thermal_runaway"
      BY <2>1, <3>2 DEF RampNoise, Noise, Signals
    <3>3. CASE name \in {"healthy", "vibration_anomaly"}
      BY <2>1, <3>3 DEF RampNoise
    <3> QED BY <3>1, <3>2, <3>3 DEF ScenarioNames
  <2> QED BY <2>1, <2>2
<1> HIDE DEF noise
<1>4. \A s \in Signals : Healthy[s] \in Int /\ to[s] \in Int
  <2>0. Healthy \in [Signals -> Int]
    BY DEF Healthy, Signals
  <2>1. \A s \in Signals : Healthy[s] \in Int
    BY <2>0
  <2>2. CASE name = "healthy"
    BY <2>1, <2>2 DEF Degraded
  <2>3. ASSUME NEW f \in [Signals -> Int], NEW r, NEW m \in Int
        PROVE  [f EXCEPT ![r] = m] \in [Signals -> Int]
    OBVIOUS
  <2>4. CASE name = "joint_3_degradation"
    <3> DEFINE h == [Healthy EXCEPT !.position = 350]
    <3>1. h \in [Signals -> Int]
      BY <2>0, <2>3
    <3>2. to = [h EXCEPT !.temperature = 104]
      BY <2>4 DEF Degraded
    <3> HIDE DEF h, to
    <3>3. to \in [Signals -> Int]
      BY <2>3, <3>1, <3>2
    <3> QED BY <2>1, <3>3
  <2>5. CASE name = "vibration_anomaly"
    <3> DEFINE h == [Healthy EXCEPT !.accel = 135]
               g == [h EXCEPT !.gyro = 120]
    <3>1. h \in [Signals -> Int]
      BY <2>0, <2>3
    <3> HIDE DEF h
    <3>2. g \in [Signals -> Int]
      BY <2>3, <3>1
    <3>3. to = [g EXCEPT !.position = 50]
      BY <2>5 DEF Degraded, g, h
    <3> HIDE DEF g, to
    <3>4. to \in [Signals -> Int]
      BY <2>3, <3>2, <3>3
    <3> QED BY <2>1, <3>4
  <2>6. CASE name = "thermal_runaway"
    BY <2>6 DEF Degraded, Healthy, Signals
  <2> QED BY <2>1, <2>2, <2>4, <2>5, <2>6 DEF ScenarioNames
<1> HIDE DEF to
<1>5. ASSUME NEW s \in Signals PROVE value(s) \in Int
  <2>1. (to[s] - Healthy[s]) * percent \in Int
    BY <1>2, <1>4
  <2>2. ((to[s] - Healthy[s]) * percent) \div 100 \in Int
    BY <1>1, <2>1
  <2>3. noise[s] * d[s] \in Int
    BY <1>3
  <2> QED BY <1>4, <2>2, <2>3
<1>6. Generate(name, t, n, d) =
        [s \in Signals |-> IF value(s) < 0 THEN -value(s) ELSE value(s)]
  <2>1. DOMAIN Healthy = Signals
    BY DEF Healthy, Signals
  <2>2. Generate(name, t, n, d) =
          [s \in DOMAIN Healthy |-> IF value(s) < 0 THEN -value(s) ELSE value(s)]
    BY DEF Generate, percent, noise, to
  <2> QED BY <2>1, <2>2
<1> HIDE DEF value
<1>7. \A s \in Signals : (IF value(s) < 0 THEN -value(s) ELSE value(s)) \in Nat
  BY <1>5
<1> QED BY <1>6, <1>7 DEF Reading

\* At the last tick of a run that goes on after the onset, a fault is at the end
\* of its ramp: whatever the noise, one of its signals is beyond a threshold.
LEMMA FaultAtItsEnd ==
  ASSUME NEW name \in ScenarioNames, NEW n \in Nat, n > OnsetTick + 1,
         NEW d \in [Signals -> {-1, 0, 1}], Target(name) # "nominal"
  PROVE  LET r == Generate(name, n - 1, n, d)
         IN  \E s \in Signals :
               /\ r[s] \in Nat /\ r[s] >= THRESHOLDS[s].warn
               /\ Target(name) = "critical" => r[s] >= THRESHOLDS[s].critical
<1>1. OnsetTick \in Nat
  BY TelemetryAssumption DEF TelemetryAssumption
<1>2. Progress(n - 1, n) = 100
  <2> DEFINE m == n - OnsetTick - 1
  <2>1. m \in Nat \ {0}
    BY <1>1
  <2>2. Progress(n - 1, n) = (m * 100) \div m
    <3>1. n - 1 - OnsetTick = m /\ Most(m, 1) = m
      BY <1>1, <2>1 DEF Most
    <3> QED BY <3>1 DEF Progress
  <2> HIDE DEF m
  <2>3. (m * 100) \div m = 100
    BY <2>1
  <2> QED BY <2>2, <2>3
<1> DEFINE noise == RampNoise(name, 100)
           to == Degraded[name]
           value(s) == Healthy[s] + ((to[s] - Healthy[s]) * 100) \div 100 + noise[s] * d[s]
           r == Generate(name, n - 1, n, d)
<1>3. ASSUME NEW s \in Signals
      PROVE  r[s] = IF value(s) < 0 THEN -value(s) ELSE value(s)
  <2>1. ~ (n - 1 < OnsetTick)
    BY <1>1
  <2>2. DOMAIN Healthy = Signals
    BY DEF Healthy, Signals
  <2>3. r = [t \in DOMAIN Healthy |-> IF value(t) < 0 THEN -value(t) ELSE value(t)]
    BY <1>2, <2>1 DEF Generate
  <2> HIDE DEF r, value
  <2> QED BY <2>2, <2>3
<1> HIDE DEF r
<1>4. ASSUME name = "joint_3_degradation" PROVE r["position"] \in Nat /\ r["position"] >= 250
  <2>1. to["position"] = 350 /\ Healthy["position"] = 10
    BY <1>4 DEF Degraded, Healthy
  <2>2. noise["position"] = 7
    BY <1>4 DEF RampNoise, Noise
  <2>3. d["position"] \in {-1, 0, 1} /\ "position" \in Signals
    BY DEF Signals
  <2>4. value("position") \in Int /\ value("position") >= 343
    BY <2>1, <2>2, <2>3
  <2> HIDE DEF value
  <2> QED BY <1>3, <2>3, <2>4
<1>5. ASSUME name = "vibration_anomaly" PROVE r["accel"] \in Nat /\ r["accel"] >= 120
  <2>1. to["accel"] = 135 /\ Healthy["accel"] = 98
    BY <1>5 DEF Degraded, Healthy
  <2>2. noise["accel"] = 3
    BY <1>5 DEF RampNoise, Noise
  <2>3. d["accel"] \in {-1, 0, 1} /\ "accel" \in Signals
    BY DEF Signals
  <2>4. value("accel") \in Int /\ value("accel") >= 132
    BY <2>1, <2>2, <2>3
  <2> HIDE DEF value
  <2> QED BY <1>3, <2>3, <2>4
<1>6. ASSUME name = "thermal_runaway" PROVE r["temperature"] \in Nat /\ r["temperature"] >= 100
  <2>1. to["temperature"] = 110 /\ Healthy["temperature"] = 76
    BY <1>6 DEF Degraded, Healthy
  <2>2. noise["temperature"] = 1
    BY <1>6 DEF RampNoise, Noise
  <2>3. d["temperature"] \in {-1, 0, 1} /\ "temperature" \in Signals
    BY DEF Signals
  <2>4. value("temperature") \in Int /\ value("temperature") >= 109
    BY <2>1, <2>2, <2>3
  <2> HIDE DEF value
  <2> QED BY <1>3, <2>3, <2>4
<1>7. /\ THRESHOLDS["position"].warn = 100 /\ THRESHOLDS["position"].critical = 250
      /\ THRESHOLDS["accel"].warn = 120 /\ THRESHOLDS["temperature"].warn = 100
      /\ {"position", "accel", "temperature"} \subseteq Signals
  BY DEF THRESHOLDS, Signals
<1>8. CASE name = "joint_3_degradation"
  BY <1>4, <1>7, <1>8 DEF r
<1>9. CASE name \in {"vibration_anomaly", "thermal_runaway"}
  <2>1. Target(name) # "critical"
    BY <1>9 DEF Target
  <2> QED BY <1>5, <1>6, <1>7, <1>9, <2>1 DEF r
<1>10. name # "healthy"
  BY DEF Target
<1> QED BY <1>8, <1>9, <1>10 DEF ScenarioNames

\* The last score is that of the last reading and of the baselines it is folded
\* into; the tool has both, too.
AgentInv ==
  /\ source \in ScenarioNames \cup {"reachy-exporter"}
  /\ total \in Nat /\ tick \in Nat
  /\ baselines = Null \/ baselines \in Baselines
  /\ score # Null => /\ values \in Reading /\ baselines \in Baselines
                     /\ Covered(baselines, values)
                     /\ score = Agent!Assess(baselines, values)
  /\ source \in ScenarioNames => toolBaselines = baselines /\ toolScore = score

TelemetryInv == ExporterInv /\ AgentInv

\* The agent assesses a reading.
LEMMA AssessesStep ==
  ASSUME baselines = Null \/ baselines \in Baselines, tick \in Nat,
         NEW reading \in Reading, Assesses(reading)
  PROVE  /\ tick' \in Nat /\ values' \in Reading /\ baselines' \in Baselines
         /\ Covered(baselines', values') /\ score' = Agent!Assess(baselines', values')
<1>1. /\ tick' = tick + 1 /\ values' = reading /\ baselines' = Agent!Folded(baselines, reading)
      /\ score' = Agent!Assess(baselines', reading)
  BY DEF Assesses
<1>2. Agent!Folded(baselines, reading) \in Baselines
      /\ Covered(Agent!Folded(baselines, reading), reading)
  BY FoldedCovers
<1> QED BY <1>1, <1>2

LEMMA TelemetryInit == ASSUME Init PROVE TelemetryInv
<1>1. /\ sequence = 0 /\ sample = Null /\ life = 1 /\ samples = 0 /\ stream = <<>>
      /\ ePc \in {"sample", "closed"} /\ once \in BOOLEAN /\ shutdown = FALSE /\ imu \in BOOLEAN
      /\ total \in Nat
  <2>1. CASE source = "reachy-exporter"
    <3>1. ExporterInit /\ total = 0
      BY <2>1 DEF Init
    <3> QED BY <3>1 DEF ExporterInit
  <2>2. CASE source # "reachy-exporter"
    <3>1. /\ sequence = 0 /\ sample = Null /\ life = 1 /\ samples = 0 /\ stream = <<>>
          /\ ePc = "closed" /\ once = FALSE /\ shutdown = FALSE /\ imu = FALSE /\ total \in Bursts
      BY <2>2 DEF Init
    <3>2. total \in Nat
      BY <3>1, TelemetryAssumption DEF TelemetryAssumption
    <3> QED BY <3>1, <3>2
  <2> QED BY <2>1, <2>2
<1>2. ExporterTypeOK /\ samples \in 0..MaxSamples
  <2>1. MaxSamples \in Nat /\ MaxLives \in Nat \ {0}
    BY ExporterAssumption DEF ExporterAssumption
  <2>2. sequence \in 0..MaxSamples /\ samples \in 0..MaxSamples /\ life \in 1..MaxLives
    BY <1>1, <2>1
  <2>3. ePc \in {"sample", "publish", "wait", "closed"} /\ (sample # Null <=> ePc = "publish")
    BY <1>1
  <2>4. once \in BOOLEAN /\ shutdown \in BOOLEAN /\ imu \in BOOLEAN
    BY <1>1
  <2>5. \A k \in DOMAIN stream : stream[k].life \in 1..life
    BY <1>1
  <2> QED BY <2>2, <2>3, <2>4, <2>5 DEF ExporterTypeOK
<1>3. stream \in StreamType /\ Len(stream) = 0
  BY <1>1 DEF StreamType
<1>4. ExporterInv
  BY <1>1, <1>2, <1>3 DEF ExporterInv, NextNumber, SequenceFollowsAnswers
<1>5. /\ tick = 0 /\ values = Null /\ baselines = Null /\ score = Null
      /\ toolBaselines = Null /\ toolScore = Null
      /\ source \in ScenarioNames \cup {"reachy-exporter"}
  BY DEF Init
<1>6. AgentInv
  BY <1>1, <1>5 DEF AgentInv
<1> QED BY <1>4, <1>6 DEF TelemetryInv

LEMMA PlayTickStep == ASSUME TelemetryInv, PlayTick PROVE TelemetryInv'
<1>1. PICK d \in Deviations :
        /\ Assesses(Generate(source, tick, total, d))
        /\ Simulates(Generate(source, tick, total, d))
  BY DEF PlayTick
<1>2. source \in ScenarioNames /\ UNCHANGED <<exporter, run>>
  BY DEF PlayTick
<1> DEFINE reading == Generate(source, tick, total, d)
<1>3. d \in [Signals -> {-1, 0, 1}]
  BY DEF Deviations
<1>4. reading \in Reading
  BY <1>2, <1>3, GeneratedIsReading DEF TelemetryInv, AgentInv
<1> HIDE DEF reading
<1>5. Assesses(reading) /\ Simulates(reading)
  BY <1>1 DEF reading
<1>6. /\ tick' \in Nat /\ values' \in Reading /\ baselines' \in Baselines
      /\ Covered(baselines', values') /\ score' = Agent!Assess(baselines', values')
  BY <1>4, <1>5, AssessesStep DEF TelemetryInv, AgentInv
<1>7. toolBaselines' = baselines' /\ toolScore' = score'
  BY <1>2, <1>5, SameArithmetic DEF TelemetryInv, AgentInv, Assesses, Simulates
<1>8. source' = source /\ total' = total
  BY <1>2 DEF run
<1>9. AgentInv'
  BY <1>6, <1>7, <1>8 DEF TelemetryInv, AgentInv
<1>10. ExporterInv'
  BY <1>2, QuietStep DEF TelemetryInv
<1> QED BY <1>9, <1>10 DEF TelemetryInv

LEMMA ExporterStepStep == ASSUME TelemetryInv, ExporterStep PROVE TelemetryInv'
<1>1. /\ source = "reachy-exporter" /\ UNCHANGED <<run, tool>>
      /\ Round \/ Signal \/ Crash
      /\ IF stream' = stream THEN UNCHANGED agent ELSE Assesses(sample)
  BY DEF ExporterStep
<1>2. ExporterInv'
  BY <1>1, SampleStep, PublishStep, PublishFailsStep, CrashStep, QuietStep
  DEF TelemetryInv, Round
<1>3. source' = source /\ total' = total /\ source \notin ScenarioNames
  BY <1>1 DEF run, ScenarioNames
<1>4. CASE stream' = stream
  <2>1. UNCHANGED <<tick, values, baselines, score>>
    BY <1>1, <1>4 DEF agent
  <2> QED BY <1>2, <1>3, <2>1 DEF TelemetryInv, AgentInv
<1>5. CASE stream' # stream
  <2>1. ePc = "publish"
    BY <1>1, <1>5 DEF Round, Sample, SampleFails, Publish, PublishFails, Wait, Signal, Crash
  <2>2. sample \in Reading /\ Assesses(sample)
    BY <1>1, <1>5, <2>1 DEF TelemetryInv, ExporterInv
  <2>3. /\ tick' \in Nat /\ values' \in Reading /\ baselines' \in Baselines
        /\ Covered(baselines', values') /\ score' = Agent!Assess(baselines', values')
    BY <2>2, AssessesStep DEF TelemetryInv, AgentInv
  <2>4. AgentInv'
    BY <1>3, <2>3 DEF TelemetryInv, AgentInv
  <2> QED BY <1>2, <2>4 DEF TelemetryInv
<1> QED BY <1>4, <1>5

LEMMA TelemetryInvariant == Spec => []TelemetryInv
<1>1. Init => TelemetryInv
  BY TelemetryInit
<1>2. ASSUME TelemetryInv, UNCHANGED vars PROVE TelemetryInv'
  <2>1. UNCHANGED exporter /\ UNCHANGED <<run, agent, tool>>
    BY <1>2 DEF vars
  <2>2. ExporterInv'
    BY <1>2, <2>1, QuietStep DEF TelemetryInv
  <2>3. AgentInv'
    BY <1>2, <2>1 DEF TelemetryInv, AgentInv, run, agent, tool
  <2> QED BY <2>2, <2>3 DEF TelemetryInv
<1>3. TelemetryInv /\ [Next]_vars => TelemetryInv'
  BY <1>2, PlayTickStep, ExporterStepStep DEF Next
<1> QED BY <1>1, <1>3, PTL DEF Spec

\* The exporter's variables are well typed, and a risk is a number from 0 to 1.
THEOREM TelemetryTypeCorrect == Spec => []TypeOK
<1>1. ASSUME AgentInv, score # Null
      PROVE  /\ score.risk \in 0 .. Agent!Full
             /\ score.state \in {"nominal", "elevated", "critical"}
  <2>1. /\ values \in Reading /\ baselines \in Baselines /\ Covered(baselines, values)
        /\ score = Agent!Assess(baselines, values)
    BY <1>1 DEF AgentInv
  <2>2. /\ score.risk \in Nat /\ score.risk <= Agent!Full
        /\ score.state = Agent!DetermineRiskState(score.risk)
    BY <2>1, AssessFacts
  <2>3. Agent!Full \in Nat
    BY DEF Agent!Full
  <2>4. score.state \in {"nominal", "elevated", "critical"}
    BY <2>2 DEF Agent!DetermineRiskState
  <2> QED BY <2>2, <2>3, <2>4
<1>2. TelemetryInv => TypeOK
  BY <1>1 DEF TelemetryInv, ExporterInv, TypeOK
<1> QED BY <1>2, TelemetryInvariant, PTL

\* In one life of the exporter the next event has the next number exactly if
\* this one was acknowledged, whatever fails and whenever it crashes.
THEOREM NumbersFollowAnswers == Spec => []SequenceFollowsAnswers
<1>1. TelemetryInv => SequenceFollowsAnswers
  BY DEF TelemetryInv, ExporterInv
<1> QED BY <1>1, TelemetryInvariant, PTL

\* No deviation exceeds 1 / sqrt(alpha) standard deviations, for every
\* EMA_WINDOW and every sequence of readings.
THEOREM DeviationsBounded == Spec => []ZScoresBounded
<1>1. ASSUME AgentInv, score # Null, NEW s \in Signals
      PROVE  Agent!Square(score.z[s]) <= 32 * (Window + 1)
  <2>1. /\ values \in Reading /\ baselines \in Baselines /\ Covered(baselines, values)
        /\ score = Agent!Assess(baselines, values)
    BY <1>1 DEF AgentInv
  <2>2. score.z[s] * score.z[s] <= 32 * (Window + 1)
    BY <2>1, AssessFacts
  <2> QED BY <2>2 DEF Agent!Square
<1>2. TelemetryInv => ZScoresBounded
  BY <1>1 DEF TelemetryInv, ZScoresBounded
<1> QED BY <1>2, TelemetryInvariant, PTL

\* A reading above a threshold is never scored as nominal, above a critical one
\* always as critical, however long the baselines had to get used to it.
THEOREM DegradationNeverHidden == Spec => []DegradationSeen
<1>1. ASSUME AgentInv, score # Null, NEW s \in Signals, values[s] # Null,
             values[s] >= THRESHOLDS[s].warn
      PROVE  /\ score.state # "nominal"
             /\ values[s] >= THRESHOLDS[s].critical => score.state = "critical"
  <2>1. /\ values \in Reading /\ baselines \in Baselines /\ Covered(baselines, values)
        /\ score = Agent!Assess(baselines, values)
    BY <1>1 DEF AgentInv
  <2> QED BY <1>1, <2>1, DegradationScores
<1>2. TelemetryInv => DegradationSeen
  BY <1>1 DEF TelemetryInv, DegradationSeen
<1> QED BY <1>2, TelemetryInvariant, PTL

\* With any EMA_WINDOW up to 80 (the configured one is 60), one signal alone
\* never makes a robot critical below its critical threshold.
THEOREM OneSignalIsNotEnough ==
  ASSUME Window <= 80
  PROVE  Spec => []OneSignalNotCritical
<1>1. ASSUME AgentInv, score # Null, score.breach < 2,
             \A s, t \in Signals : score.z[s] > 0 /\ score.z[t] > 0 => s = t
      PROVE  score.state # "critical"
  <2>1. /\ values \in Reading /\ baselines \in Baselines /\ Covered(baselines, values)
        /\ score = Agent!Assess(baselines, values)
    BY <1>1 DEF AgentInv
  <2> QED BY <1>1, <2>1, OneSignalScores
<1>2. TelemetryInv => OneSignalNotCritical
  BY <1>1 DEF TelemetryInv, OneSignalNotCritical
<1> QED BY <1>2, TelemetryInvariant, PTL

\* The offline tool finds the risk the agent finds, at every tick of every run.
THEOREM ToolIsFaithful == Spec => []ToolAgrees
<1>1. TelemetryInv => ToolAgrees
  BY DEF TelemetryInv, AgentInv, ToolAgrees
<1> QED BY <1>1, TelemetryInvariant, PTL

-----------------------------------------------------------------------------
(* What a scenario ends with.                                              *)

\* The last score of a simulated robot is that of the last tick's reading.
PlayedInv ==
  source \in ScenarioNames /\ tick > 0 =>
    /\ \E d \in [Signals -> {-1, 0, 1}] : values = Generate(source, tick - 1, total, d)
    /\ values \in Reading /\ baselines \in Baselines /\ Covered(baselines, values)
    /\ score = Agent!Assess(baselines, values)

\* A run only plays one of Bursts.
RunInv == source \in ScenarioNames => total \in Bursts

LEMMA PlayedInvariant == Spec => [](PlayedInv /\ RunInv)
<1> DEFINE Inv == PlayedInv /\ RunInv
<1>1. Init => Inv
  BY DEF Init, PlayedInv, RunInv, ScenarioNames
<1>2. ASSUME TelemetryInv, Inv, PlayTick PROVE Inv'
  <2>1. PICK d \in Deviations : Assesses(Generate(source, tick, total, d))
    BY <1>2 DEF PlayTick
  <2>2. source \in ScenarioNames /\ source' = source /\ total' = total
    BY <1>2 DEF PlayTick, run
  <2>3. tick \in Nat /\ total \in Nat /\ (baselines = Null \/ baselines \in Baselines)
    BY <1>2 DEF TelemetryInv, AgentInv
  <2>4. d \in [Signals -> {-1, 0, 1}]
    BY DEF Deviations
  <2> DEFINE reading == Generate(source, tick, total, d)
  <2>5. reading \in Reading
    BY <2>2, <2>3, <2>4, GeneratedIsReading
  <2>6. tick' - 1 = tick /\ values' = reading
    BY <2>1, <2>3 DEF Assesses
  <2>7. values' = Generate(source', tick' - 1, total', d)
    BY <2>2, <2>6
  <2> HIDE DEF reading
  <2>8. Assesses(reading)
    BY <2>1 DEF reading
  <2>9. /\ values' \in Reading /\ baselines' \in Baselines
        /\ Covered(baselines', values') /\ score' = Agent!Assess(baselines', values')
    BY <2>3, <2>5, <2>8, AssessesStep
  <2>10. PlayedInv'
    BY <2>4, <2>7, <2>9 DEF PlayedInv
  <2> QED BY <1>2, <2>2, <2>10 DEF RunInv
<1>3. ASSUME Inv, ExporterStep PROVE Inv'
  <2>1. source' = source /\ source \notin ScenarioNames
    BY <1>3 DEF ExporterStep, run, ScenarioNames
  <2> QED BY <2>1 DEF PlayedInv, RunInv
<1>4. ASSUME Inv, UNCHANGED vars PROVE Inv'
  <2>1. UNCHANGED <<run, agent>>
    BY <1>4 DEF vars
  <2> QED BY <1>4, <2>1 DEF PlayedInv, RunInv, run, agent
<1>5. TelemetryInv /\ Inv /\ [Next]_vars => Inv'
  BY <1>2, <1>3, <1>4 DEF Next
<1> HIDE DEF Inv
<1>6. Spec => []Inv
  BY <1>1, <1>5, TelemetryInvariant, PTL DEF Spec
<1> QED BY <1>6 DEF Inv

\* A fault that is played to its end is not assessed as nominal, and a degraded
\* joint is assessed as critical: TargetReached but for "not more than".
FaultShows ==
  source \in ScenarioNames /\ tick = total =>
    /\ Target(source) # "nominal" => score.state # "nominal"
    /\ Target(source) = "critical" => score.state = "critical"

\* For every onset, every burst that goes on after the onset, every EMA_WINDOW and
\* every noise within one standard deviation, a simulated fault ends in a risk
\* that is not nominal, and a degraded joint in a critical one.  A burst that ends
\* with its onset has not begun to ramp, and shows no fault.
THEOREM FaultsAreShown ==
  ASSUME \A n \in Bursts : n > OnsetTick + 1
  PROVE  Spec => []FaultShows
<1>1. ASSUME PlayedInv, RunInv, source \in ScenarioNames, tick = total
      PROVE  /\ Target(source) # "nominal" => score.state # "nominal"
             /\ Target(source) = "critical" => score.state = "critical"
  <2>1. total \in Nat /\ total > OnsetTick + 1 /\ OnsetTick \in Nat
    BY <1>1, TelemetryAssumption DEF RunInv, TelemetryAssumption
  <2>2. tick > 0
    BY <1>1, <2>1
  <2>3. PICK d \in [Signals -> {-1, 0, 1}] : values = Generate(source, total - 1, total, d)
    BY <1>1, <2>2 DEF PlayedInv
  <2>4. /\ values \in Reading /\ baselines \in Baselines /\ Covered(baselines, values)
        /\ score = Agent!Assess(baselines, values)
    BY <1>1, <2>2 DEF PlayedInv
  <2>5. ASSUME NEW s \in Signals, values[s] \in Nat, values[s] >= THRESHOLDS[s].warn
        PROVE  /\ score.state # "nominal"
               /\ values[s] >= THRESHOLDS[s].critical => score.state = "critical"
    <3>1. values[s] # Null
      BY <2>5, TelemetryAssumption DEF TelemetryAssumption
    <3> QED BY <2>4, <2>5, <3>1, DegradationScores
  <2>6. CASE Target(source) = "nominal"
    BY <2>6
  <2>7. CASE Target(source) # "nominal"
    <3>1. PICK s \in Signals :
            /\ values[s] \in Nat /\ values[s] >= THRESHOLDS[s].warn
            /\ Target(source) = "critical" => values[s] >= THRESHOLDS[s].critical
      BY <1>1, <2>1, <2>3, <2>7, FaultAtItsEnd
    <3> QED BY <2>5, <3>1
  <2> QED BY <2>6, <2>7
<1>2. PlayedInv /\ RunInv => FaultShows
  BY <1>1 DEF FaultShows
<1> QED BY <1>2, PlayedInvariant, PTL
=============================================================================
