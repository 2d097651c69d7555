--------------------------- MODULE AssetStateProofs ---------------------------
(***************************************************************************)
(* Proofs about AssetState, for any assets, batches, retries and timing:   *)
(* the baselines are folded in stream order and back every risk event, if  *)
(* reads are current and nobody resets them; an item is complete if nobody *)
(* resets it; and the calls of Bedrock, how often a reading counts, and    *)
(* the steps a batch may take are bounded whatever happens.                *)
(***************************************************************************)
EXTENDS AssetState, FiniteSetTheorems, TLAPS

\* The readings folded into the stored baselines, in order; and which they are.
Folded(a) == IF row[a] = None \/ row[a].readings = None THEN <<>> ELSE row[a].readings
Seen(a) == {Folded(a)[j] : j \in DOMAIN Folded(a)}

\* The first record of the batch that may still be processed again: while there
\* are retries left that is the first one; after that no record is.
Low(l) == IF l.tries < MaxRetries THEN l.from + 1 ELSE l.at

\* A lane, and where a consumer that is at pc is in its batch; within are the
\* places within a record.
LaneInv(l) ==
  /\ l.from <= l.to /\ l.tries <= MaxRetries
  /\ Busy(l) => l.from + 1 <= l.at /\ l.at <= l.to + 1

Placed(l, pc, within) ==
  /\ pc = "idle" <=> ~Busy(l)
  /\ pc \in within => l.at <= l.to

\* The baselines have seen nothing that is yet to be fetched; while there are
\* retries left they have seen all that this attempt is past; and whatever may
\* still be processed was seen before, if something after it was.
Caught(l, seen) ==
  /\ \A y \in seen : y <= l.to
  /\ Busy(l) =>
       /\ l.tries < MaxRetries => \A x \in l.from + 1 .. l.at - 1 : x \in seen
       /\ \A x \in Low(l) .. l.to : \A y \in seen : x < y => x \in seen

InRecord == {"thrown", "put", "emit"}

SignalInv(a) ==
  /\ LaneInv(sLane[a]) /\ Placed(sLane[a], sPc[a], InRecord)
  /\ Caught(sLane[a], Seen(a))
  /\ Folded(a) \in Seq(Nat) /\ InOrderUpToReplay(Folded(a))
  /\ sPc[a] = "put" => sState[a] # None /\ sState[a].readings = Append(Folded(a), sLane[a].at)
  /\ sPc[a] = "emit" => sLane[a].at \in Seen(a)
  /\ \A k \in DOMAIN risks[a] : k > Len(Backlog) => risks[a][k].reading \in Seen(a)

BaselinesInv == TypeOK /\ replica = row /\ \A a \in Assets : SignalInv(a)

\* The calls of Bedrock for one risk event.
CallsFor(a, k) == {c \in DOMAIN calls[a] : calls[a][c].risk = k}

\* Each attempt that is past a record has called Bedrock for it at most once, and
\* the present one too when the agent is past the call.
Spent(l, k) ==
  IF k <= l.from THEN MaxRetries + 1
  ELSE IF ~Busy(l) \/ k > l.to THEN 0
  ELSE IF k < l.at THEN l.tries + 1 ELSE l.tries

Within == {"check", "bedrock", "stamp", "emit"}
Called == {"bedrock", "stamp", "emit"}

CallsInv(a) ==
  /\ LaneInv(dLane[a]) /\ Placed(dLane[a], dPc[a], Within)
  /\ \A k \in Nat : Cardinality(CallsFor(a, k)) <=
       (IF k = dLane[a].at /\ dPc[a] \in Called THEN Spent(dLane[a], k) + 1 ELSE Spent(dLane[a], k))

\* Each attempt that is past a reading has folded it into an item at most once, and
\* the present one too when it has built the item to put: so every copy of the item
\* that is stored, may be read or is about to be put has it at most that often.
FoldsAt(a, k) ==
  IF k = sLane[a].at /\ sPc[a] \in {"put", "emit"} THEN Spent(sLane[a], k) + 1
  ELSE Spent(sLane[a], k)

Copies(a) == {row[a], replica[a], sState[a]}

FoldsInv(a) ==
  /\ LaneInv(sLane[a]) /\ Placed(sLane[a], sPc[a], InRecord)
  /\ \A k \in Nat : \A item \in Copies(a) : Cardinality(Places(item, k)) <= FoldsAt(a, k)

\* An item that exists has baselines, and one exists as soon as there is a risk
\* event for the Diagnosis Agent to consume.
CompleteInv(a) ==
  /\ \A item \in Visible(a) : item # None => item.readings # None
  /\ sPc[a] = "put" => sState[a] # None /\ sState[a].readings # None
  /\ sPc[a] = "emit" => row[a] # None
  /\ risks[a] # <<>> => row[a] # None
  /\ LaneInv(dLane[a]) /\ Placed(dLane[a], dPc[a], Within)
  /\ dLane[a].to <= Len(risks[a])

-----------------------------------------------------------------------------
(* Lanes.                                                                  *)

\* What becomes of a lane.
LEMMA LaneTypes ==
  ASSUME NEW l \in LaneType
  PROVE  /\ \A n \in Nat : Fetch(l, n) \in LaneType
         /\ Advance(l) \in LaneType /\ Checkpointed(l) \in LaneType
         /\ \A m \in AfterFailure(l, MaxRetries) : m \in LaneType
<1>0. /\ l.from + 1 \in Nat /\ l.at + 1 \in Nat /\ l.tries + 1 \in Nat /\ 0 \in Nat
      /\ \A t, x, y \in Nat : [l EXCEPT !.to = t, !.at = x, !.tries = y] \in LaneType
      /\ \A x, y \in Nat : [l EXCEPT !.at = x, !.tries = y] \in LaneType
  <2>1. l.from + 1 \in Nat /\ l.at + 1 \in Nat /\ l.tries + 1 \in Nat /\ 0 \in Nat
    BY DEF LaneType
  <2>2. \A t, x, y \in Nat : [l EXCEPT !.to = t, !.at = x, !.tries = y] \in LaneType
    BY Zenon DEF LaneType
  <2>3. \A x, y \in Nat : [l EXCEPT !.at = x, !.tries = y] \in LaneType
    BY Zenon DEF LaneType
  <2> QED BY <2>1, <2>2, <2>3
<1>1. \A n \in Nat : Fetch(l, n) \in LaneType
  BY <1>0 DEF Fetch
<1>2. Advance(l) \in LaneType
  BY DEF Advance, LaneType
<1>3. Checkpointed(l) \in LaneType
  BY DEF Checkpointed, LaneType
<1>4. [l EXCEPT !.at = l.from + 1, !.tries = @ + 1] \in LaneType
  BY <1>0
<1>5. \A m \in AfterFailure(l, MaxRetries) : m \in LaneType
  BY <1>2, <1>3, <1>4 DEF AfterFailure
<1> QED BY <1>1, <1>2, <1>3, <1>5

\* The fields of a lane afterwards.
LEMMA LaneFields ==
  ASSUME NEW l \in LaneType
  PROVE  /\ \A n \in Nat : LET m == Fetch(l, n)
              IN  m.from = l.from /\ m.to = n /\ m.at = l.from + 1 /\ m.tries = 0
         /\ LET m == Advance(l)
            IN  m.from = l.from /\ m.to = l.to /\ m.at = l.at + 1 /\ m.tries = l.tries
         /\ LET m == Checkpointed(l)
            IN  m.from = l.to /\ m.to = l.to /\ m.at = 0 /\ m.tries = 0
         /\ \A m \in AfterFailure(l, MaxRetries) :
              \/ /\ l.tries < MaxRetries
                 /\ m.from = l.from /\ m.to = l.to /\ m.at = l.from + 1 /\ m.tries = l.tries + 1
              \/ ~(l.tries < MaxRetries) /\ m = Checkpointed(l)
              \/ ~(l.tries < MaxRetries) /\ m = Advance(l) /\ l.at < l.to
<1>1. \A n \in Nat : LET m == Fetch(l, n)
                     IN  m.from = l.from /\ m.to = n /\ m.at = l.from + 1 /\ m.tries = 0
  BY DEF Fetch, LaneType
<1>2. LET m == Advance(l)
      IN  m.from = l.from /\ m.to = l.to /\ m.at = l.at + 1 /\ m.tries = l.tries
  BY DEF Advance, LaneType
<1>3. LET m == Checkpointed(l)
      IN  m.from = l.to /\ m.to = l.to /\ m.at = 0 /\ m.tries = 0
  BY DEF Checkpointed
<1>4. LET m == [l EXCEPT !.at = l.from + 1, !.tries = @ + 1]
      IN  m.from = l.from /\ m.to = l.to /\ m.at = l.from + 1 /\ m.tries = l.tries + 1
  BY DEF LaneType
<1>5. ASSUME NEW m \in AfterFailure(l, MaxRetries)
      PROVE  \/ /\ l.tries < MaxRetries
                /\ m.from = l.from /\ m.to = l.to /\ m.at = l.from + 1 /\ m.tries = l.tries + 1
             \/ ~(l.tries < MaxRetries) /\ m = Checkpointed(l)
             \/ ~(l.tries < MaxRetries) /\ m = Advance(l) /\ l.at < l.to
  <2>1. CASE l.tries < MaxRetries
    BY <1>4, <2>1 DEF AfterFailure
  <2>2. CASE ~(l.tries < MaxRetries)
    BY <2>2 DEF AfterFailure
  <2> QED BY <2>1, <2>2
<1> QED BY <1>1, <1>2, <1>3, <1>5

-----------------------------------------------------------------------------
(* Types.                                                                  *)

\* A put of an item keeps the types of the table and of its copy.
LEMMA StoreType ==
  ASSUME TypeOK, NEW a \in Assets, NEW item \in Item \cup {None}, Store(a, item)
  PROVE  row' \in [Assets -> Item \cup {None}] /\ replica' \in [Assets -> Item \cup {None}]
BY DEF TypeOK, Store

\* The constants are numbers.
LEMMA Numbers ==
  /\ MaxRetries \in Nat /\ MaxReadings \in Nat /\ MaxBatch \in Nat /\ MaxClock \in Nat
  /\ Debounce \in Nat /\ None \notin Nat /\ Backlog \in Seq(RiskStates)
BY AssetStateAssumption DEF AssetStateAssumption

\* The items the Signal Agent reads and puts are items.
LEMMA ItemTypes ==
  /\ \A n \in Nat : [readings |-> <<n>>, diagnosedAt |-> None] \in Item
  /\ \A item \in Item, n \in Nat : item.readings # None =>
       [item EXCEPT !.readings = Append(@, n)] \in Item
  /\ \A t \in Nat : [readings |-> None, diagnosedAt |-> t] \in Item
  /\ \A item \in Item, t \in Nat : [item EXCEPT !.diagnosedAt = t] \in Item
<1>1. \A item \in Item : item.readings # None => item.readings \in Seq(Nat)
  BY DEF Item
<1>2. ASSUME NEW item \in Item, NEW n \in Nat, item.readings # None
      PROVE  [item EXCEPT !.readings = Append(@, n)] \in Item
  <2>1. Append(item.readings, n) \in Seq(Nat)
    BY <1>1, <1>2
  <2> QED BY <2>1 DEF Item
<1>3. \A n \in Nat : [readings |-> <<n>>, diagnosedAt |-> None] \in Item
  BY DEF Item
<1>4. \A t \in Nat : [readings |-> None, diagnosedAt |-> t] \in Item
  BY DEF Item
<1>5. \A item \in Item, t \in Nat : [item EXCEPT !.diagnosedAt = t] \in Item
  BY DEF Item
<1> QED BY <1>2, <1>3, <1>4, <1>5

\* The locals in use are set.
LocalsSet ==
  \A a \in Assets : /\ sPc[a] \in {"put", "emit"} => sState[a] \in Item /\ sRisk[a] \in RiskStates
                    /\ dPc[a] \in {"stamp", "emit"} => dStamp[a] \in Nat

LEMMA AppendType ==
  ASSUME NEW S, NEW s \in Seq(S), NEW e \in S
  PROVE  Append(s, e) \in Seq(S)
OBVIOUS

LEMMA SignalType ==
  ASSUME TypeOK, LocalsSet, NEW a \in Assets, SFetch(a) \/ SWork(a) \/ SFail(a)
  PROVE  TypeOK'
<1>1. sLane[a] \in LaneType /\ sLane[a].at \in Nat /\ sLane[a].from \in Nat
  BY DEF TypeOK, LaneType
<1>2. CASE SFetch(a)
  <2>1. PICK n \in 1..MaxBatch : sLane' = [sLane EXCEPT ![a] = Fetch(@, @.from + n)]
    BY <1>2 DEF SFetch
  <2>2. sLane' \in [Assets -> LaneType]
    <3>1. n \in Nat /\ sLane[a].from + n \in Nat
      BY <1>1, Numbers
    <3>2. Fetch(sLane[a], sLane[a].from + n) \in LaneType
      BY <1>1, <3>1, LaneTypes
    <3> QED BY <2>1, <3>2 DEF TypeOK
  <2> QED BY <1>2, <2>2 DEF SFetch, TypeOK, diagnosis
<1>3. CASE SLoad(a)
  <2>1. PICK item \in Visible(a) :
          \/ item # None /\ item.readings = None /\ sPc' = [sPc EXCEPT ![a] = "thrown"]
             /\ UNCHANGED <<sState, sRisk>>
          \/ /\ item # None => item.readings # None
             /\ sState' = [sState EXCEPT ![a] =
                  IF item = None
                    THEN [readings |-> <<sLane[a].at>>, diagnosedAt |-> None]
                    ELSE [item EXCEPT !.readings = Append(@, sLane[a].at)]]
             /\ \E r \in RiskStates : sRisk' = [sRisk EXCEPT ![a] = r]
             /\ sPc' = [sPc EXCEPT ![a] = "put"]
    BY <1>3 DEF SLoad
  <2>2. item \in Item \cup {None}
    BY DEF TypeOK, Visible
  <2>3. /\ sState' \in [Assets -> Item \cup {None}]
        /\ sRisk' \in [Assets -> RiskStates \cup {None}]
        /\ sPc' \in [Assets -> {"idle", "load", "thrown", "put", "emit"}]
    <3> DEFINE new == IF item = None THEN [readings |-> <<sLane[a].at>>, diagnosedAt |-> None]
                      ELSE [item EXCEPT !.readings = Append(@, sLane[a].at)]
    <3>1. CASE item # None /\ item.readings = None
      BY <2>1, <3>1 DEF TypeOK
    <3>2. CASE item # None => item.readings # None
      <4>1. new \in Item
        BY <1>1, <2>2, <3>2, ItemTypes
      <4> HIDE DEF new
      <4>2. /\ sState' = [sState EXCEPT ![a] = new] /\ sPc' = [sPc EXCEPT ![a] = "put"]
            /\ \E r \in RiskStates : sRisk' = [sRisk EXCEPT ![a] = r]
        BY <2>1, <3>2 DEF new
      <4> QED BY <4>1, <4>2 DEF TypeOK
    <3> QED BY <3>1, <3>2
  <2> QED BY <1>3, <2>3 DEF SLoad, TypeOK, diagnosis
<1>4. CASE SPut(a)
  <2>1. row' \in [Assets -> Item \cup {None}] /\ replica' \in [Assets -> Item \cup {None}]
    BY <1>4, StoreType DEF SPut, TypeOK
  <2> QED BY <1>4, <2>1 DEF SPut, TypeOK, diagnosis
<1>5. CASE SEmit(a)
  <2>1. sLane' \in [Assets -> LaneType]
    BY <1>1, <1>5, LaneTypes DEF SEmit, TypeOK
  <2>2. risks' \in [Assets -> Seq([reading : Nat, state : RiskStates])]
    <3>1. CASE UNCHANGED risks
      BY <3>1 DEF TypeOK
    <3>2. CASE risks' = [risks EXCEPT ![a] =
                 Append(@, [reading |-> sLane[a].at, state |-> sRisk[a]])]
      <4>1. sRisk[a] \in RiskStates
        BY <1>5 DEF SEmit, LocalsSet
      <4>2. Append(risks[a], [reading |-> sLane[a].at, state |-> sRisk[a]])
              \in Seq([reading : Nat, state : RiskStates])
        <5>1. [reading |-> sLane[a].at, state |-> sRisk[a]] \in [reading : Nat, state : RiskStates]
          BY <1>1, <4>1
        <5>2. risks[a] \in Seq([reading : Nat, state : RiskStates])
          BY DEF TypeOK
        <5> QED BY <5>1, <5>2, AppendType
      <4> QED BY <3>2, <4>2 DEF TypeOK
    <3> QED BY <1>5, <3>1, <3>2 DEF SEmit
  <2> QED BY <1>5, <2>1, <2>2 DEF SEmit, TypeOK, diagnosis
<1>6. CASE SCommit(a)
  <2>1. sLane' \in [Assets -> LaneType]
    BY <1>1, <1>6, LaneTypes DEF SCommit, TypeOK
  <2> QED BY <1>6, <2>1 DEF SCommit, TypeOK, diagnosis
<1>7. CASE SFail(a)
  <2>1. PICK l \in AfterFailure(sLane[a], MaxRetries) :
          /\ sLane' = [sLane EXCEPT ![a] = l]
          /\ sPc' = [sPc EXCEPT ![a] = IF Busy(l) THEN "load" ELSE "idle"]
    BY <1>7 DEF SFail
  <2>2. sLane' \in [Assets -> LaneType]
    BY <1>1, <2>1, LaneTypes DEF TypeOK
  <2>3. sPc' \in [Assets -> {"idle", "load", "thrown", "put", "emit"}]
    BY <2>1 DEF TypeOK
  <2> QED BY <1>7, <2>2, <2>3 DEF SFail, TypeOK, diagnosis
<1> QED BY <1>2, <1>3, <1>4, <1>5, <1>6, <1>7 DEF SWork

\* The Diagnosis Agent leaves a record.
LEMMA LeaveType ==
  ASSUME TypeOK, NEW a \in Assets, DLeave(a)
  PROVE  /\ dLane' \in [Assets -> LaneType]
         /\ dPc' \in [Assets -> {"idle", "load", "check", "bedrock", "stamp", "emit"}]
         /\ dState' \in [Assets -> Item \cup {None}] /\ dStamp' \in [Assets -> Nat \cup {None}]
BY LaneTypes DEF DLeave, TypeOK

LEMMA DiagnosisType ==
  ASSUME TypeOK, LocalsSet, NEW a \in Assets, DFetch(a) \/ DWork(a) \/ DFail(a)
  PROVE  TypeOK'
<1>1. /\ dLane[a] \in LaneType /\ dLane[a].at \in Nat /\ dLane[a].from \in Nat
      /\ clock \in Nat
  BY DEF TypeOK, LaneType
<1>2. CASE DFetch(a)
  <2>1. PICK n \in 1..MaxBatch : dLane' = [dLane EXCEPT ![a] = Fetch(@, @.from + n)]
    BY <1>2 DEF DFetch
  <2>2. dLane' \in [Assets -> LaneType]
    <3>1. n \in Nat /\ dLane[a].from + n \in Nat
      BY <1>1, Numbers
    <3>2. Fetch(dLane[a], dLane[a].from + n) \in LaneType
      BY <1>1, <3>1, LaneTypes
    <3> QED BY <2>1, <3>2 DEF TypeOK
  <2> QED BY <1>2, <2>2 DEF DFetch, TypeOK, signal
<1>3. CASE DSkipNominal(a)
  BY <1>3, LeaveType DEF DSkipNominal, TypeOK, signal
<1>4. CASE DLoad(a)
  BY <1>4 DEF DLoad, Visible, TypeOK, signal
<1>5. CASE DSkipDebounced(a)
  BY <1>5, LeaveType DEF DSkipDebounced, TypeOK, signal
<1>6. CASE DCallBedrock(a)
  <2>1. Append(calls[a], [risk |-> dLane[a].at, time |-> clock]) \in Seq([risk : Nat, time : Nat])
    <3>1. [risk |-> dLane[a].at, time |-> clock] \in [risk : Nat, time : Nat]
      BY <1>1
    <3>2. calls[a] \in Seq([risk : Nat, time : Nat])
      BY DEF TypeOK
    <3> QED BY <3>1, <3>2, AppendType
  <2>2. calls' \in [Assets -> Seq([risk : Nat, time : Nat])]
    BY <1>6, <2>1 DEF DCallBedrock, TypeOK
  <2> QED BY <1>6, <2>2 DEF DCallBedrock, TypeOK, signal
<1>7. CASE DAnswer(a)
  BY <1>7 DEF DAnswer, TypeOK, signal
<1>8. CASE DNoAnswer(a)
  <2>1. dlq' \subseteq Assets \X Nat
    BY <1>1, <1>8 DEF DNoAnswer, TypeOK
  <2> QED BY <1>8, <2>1, LeaveType DEF DNoAnswer, TypeOK, signal
<1>9. CASE DUpdateTimestamp(a)
  <2> DEFINE new == IF row[a] = None THEN [readings |-> None, diagnosedAt |-> dStamp[a]]
                    ELSE [row[a] EXCEPT !.diagnosedAt = dStamp[a]]
  <2>1. dStamp[a] \in Nat /\ row[a] \in Item \cup {None}
    BY <1>9 DEF DUpdateTimestamp, LocalsSet, TypeOK
  <2>2. new \in Item
    BY <2>1, ItemTypes
  <2>3. Store(a, new)
    BY <1>9 DEF DUpdateTimestamp
  <2> HIDE DEF new
  <2>4. row' \in [Assets -> Item \cup {None}] /\ replica' \in [Assets -> Item \cup {None}]
    BY <2>2, <2>3, StoreType
  <2> QED BY <1>9, <2>4 DEF DUpdateTimestamp, TypeOK, signal
<1>10. CASE DEmit(a)
  <2>1. diagnoses' \in [Assets -> Seq([risk : Nat, time : Nat])]
    <3>1. [risk |-> dLane[a].at, time |-> dStamp[a]] \in [risk : Nat, time : Nat]
      BY <1>1, <1>10 DEF DEmit, LocalsSet
    <3>2. Append(diagnoses[a], [risk |-> dLane[a].at, time |-> dStamp[a]])
            \in Seq([risk : Nat, time : Nat])
      BY <3>1, AppendType DEF TypeOK
    <3> QED BY <1>10, <3>2 DEF DEmit, TypeOK
  <2> QED BY <1>10, <2>1, LeaveType DEF DEmit, TypeOK, signal
<1>11. CASE DCommit(a)
  <2>1. dLane' \in [Assets -> LaneType]
    BY <1>1, <1>11, LaneTypes DEF DCommit, TypeOK
  <2> QED BY <1>11, <2>1 DEF DCommit, TypeOK, signal
<1>12. CASE DFail(a)
  <2>1. PICK l \in AfterFailure(dLane[a], MaxRetries) :
          /\ dLane' = [dLane EXCEPT ![a] = l]
          /\ dPc' = [dPc EXCEPT ![a] = IF Busy(l) THEN "load" ELSE "idle"]
    BY <1>12 DEF DFail
  <2>2. dLane' \in [Assets -> LaneType]
    BY <1>1, <2>1, LaneTypes DEF TypeOK
  <2>3. dPc' \in [Assets -> {"idle", "load", "check", "bedrock", "stamp", "emit"}]
    BY <2>1 DEF TypeOK
  <2> QED BY <1>12, <2>2, <2>3 DEF DFail, TypeOK, signal
<1> QED BY <1>2, <1>3, <1>4, <1>5, <1>6, <1>7, <1>8, <1>9, <1>10, <1>11, <1>12 DEF DWork

LEMMA OutsideType ==
  ASSUME TypeOK, NEW a \in Assets, ResetBaseline(a) \/ Replicate(a)
  PROVE  TypeOK'
<1>1. CASE ResetBaseline(a)
  <2>1. row' \in [Assets -> Item \cup {None}] /\ replica' \in [Assets -> Item \cup {None}]
    BY <1>1, StoreType DEF ResetBaseline
  <2> QED BY <1>1, <2>1 DEF ResetBaseline, TypeOK, signal, diagnosis
<1>2. CASE Replicate(a)
  BY <1>2 DEF Replicate, TypeOK, signal, diagnosis
<1> QED BY <1>1, <1>2

\* The agents set their locals before they use them.
LEMMA LocalsStep == ASSUME TypeOK, LocalsSet, [Next]_vars PROVE LocalsSet'
<1>1. SUFFICES ASSUME NEW b \in Assets
               PROVE  /\ sPc'[b] \in {"put", "emit"} => sState'[b] \in Item /\ sRisk'[b] \in RiskStates
                      /\ dPc'[b] \in {"stamp", "emit"} => dStamp'[b] \in Nat
  BY DEF LocalsSet
<1>2. ASSUME NEW a \in Assets, SFetch(a) \/ SWork(a) \/ SFail(a)
      PROVE  /\ sPc'[b] \in {"put", "emit"} => sState'[b] \in Item /\ sRisk'[b] \in RiskStates
             /\ UNCHANGED <<dPc, dStamp>>
  <2>1. CASE SLoad(a)
    <3>1. sPc'[a] = "put" => sState'[a] \in Item /\ sRisk'[a] \in RiskStates
      <4>1. PICK item \in Visible(a) :
              \/ item # None /\ item.readings = None /\ sPc' = [sPc EXCEPT ![a] = "thrown"]
              \/ /\ item # None => item.readings # None
                 /\ sState' = [sState EXCEPT ![a] =
                      IF item = None
                        THEN [readings |-> <<sLane[a].at>>, diagnosedAt |-> None]
                        ELSE [item EXCEPT !.readings = Append(@, sLane[a].at)]]
                 /\ \E r \in RiskStates : sRisk' = [sRisk EXCEPT ![a] = r]
        BY <2>1 DEF SLoad
      <4>2. item \in Item \cup {None} /\ sLane[a].at \in Nat
        BY DEF TypeOK, Visible, LaneType
      <4>3. CASE item # None /\ item.readings = None /\ sPc' = [sPc EXCEPT ![a] = "thrown"]
        BY <4>3 DEF TypeOK
      <4>4. CASE /\ item # None => item.readings # None
                 /\ sState' = [sState EXCEPT ![a] =
                      IF item = None
                        THEN [readings |-> <<sLane[a].at>>, diagnosedAt |-> None]
                        ELSE [item EXCEPT !.readings = Append(@, sLane[a].at)]]
                 /\ \E r \in RiskStates : sRisk' = [sRisk EXCEPT ![a] = r]
        <5>1. sState'[a] \in Item
          BY <4>2, <4>4, ItemTypes DEF TypeOK
        <5>2. sRisk'[a] \in RiskStates
          BY <4>4 DEF TypeOK
        <5> QED BY <5>1, <5>2
      <4> QED BY <4>1, <4>3, <4>4
    <3>2. sPc'[a] # "emit"
      BY <2>1 DEF SLoad, TypeOK
    <3>3. b # a => sPc'[b] = sPc[b] /\ sState'[b] = sState[b] /\ sRisk'[b] = sRisk[b]
      BY <2>1 DEF SLoad, TypeOK
    <3> QED BY <2>1, <3>1, <3>2, <3>3 DEF SLoad, LocalsSet, diagnosis
  <2>2. CASE SPut(a)
    BY <2>2 DEF SPut, LocalsSet, TypeOK, diagnosis
  <2>3. CASE SFetch(a) \/ SEmit(a) \/ SCommit(a) \/ SFail(a)
    <3>1. sPc'[a] \notin {"put", "emit"}
      BY <2>3 DEF SFetch, SEmit, SCommit, SFail, TypeOK
    <3>2. b # a => sPc'[b] = sPc[b] /\ sState'[b] = sState[b] /\ sRisk'[b] = sRisk[b]
      BY <2>3 DEF SFetch, SEmit, SCommit, SFail, TypeOK
    <3>3. UNCHANGED <<dPc, dStamp>>
      BY <2>3 DEF SFetch, SEmit, SCommit, SFail, diagnosis
    <3> QED BY <3>1, <3>2, <3>3 DEF LocalsSet
  <2> QED BY <1>2, <2>1, <2>2, <2>3 DEF SWork
<1>3. ASSUME NEW a \in Assets, DFetch(a) \/ DWork(a) \/ DFail(a)
      PROVE  /\ dPc'[b] \in {"stamp", "emit"} => dStamp'[b] \in Nat
             /\ UNCHANGED <<sPc, sState, sRisk>>
  <2>1. CASE DAnswer(a)
    BY <2>1 DEF DAnswer, LocalsSet, TypeOK, signal
  <2>2. CASE DUpdateTimestamp(a)
    BY <2>2 DEF DUpdateTimestamp, LocalsSet, TypeOK, signal
  <2>3. CASE \/ DFetch(a) \/ DSkipNominal(a) \/ DLoad(a) \/ DSkipDebounced(a) \/ DCallBedrock(a)
             \/ DNoAnswer(a) \/ DEmit(a) \/ DCommit(a) \/ DFail(a)
    <3>1. dPc'[a] \notin {"stamp", "emit"}
      BY <2>3 DEF DFetch, DSkipNominal, DLoad, DSkipDebounced, DCallBedrock, DNoAnswer, DEmit,
                  DCommit, DFail, DLeave, TypeOK
    <3>2. b # a => dPc'[b] = dPc[b] /\ dStamp'[b] = dStamp[b]
      BY <2>3 DEF DFetch, DSkipNominal, DLoad, DSkipDebounced, DCallBedrock, DNoAnswer, DEmit,
                  DCommit, DFail, DLeave, TypeOK
    <3>3. UNCHANGED <<sPc, sState, sRisk>>
      BY <2>3 DEF DFetch, DSkipNominal, DLoad, DSkipDebounced, DCallBedrock, DNoAnswer, DEmit,
                  DCommit, DFail, signal
    <3> QED BY <3>1, <3>2, <3>3 DEF LocalsSet
  <2> QED BY <1>3, <2>1, <2>2, <2>3 DEF DWork
<1>4. ASSUME NEW a \in Assets, ResetBaseline(a) \/ Replicate(a)
      PROVE  UNCHANGED <<sPc, sState, sRisk, dPc, dStamp>>
  BY <1>4 DEF ResetBaseline, Replicate, signal, diagnosis
<1>5. Tick \/ UNCHANGED vars => UNCHANGED <<sPc, sState, sRisk, dPc, dStamp>>
  BY DEF Tick, vars, signal, diagnosis
<1> QED BY <1>2, <1>3, <1>4, <1>5 DEF Next, LocalsSet

LEMMA TypeStep == ASSUME TypeOK, LocalsSet, [Next]_vars PROVE TypeOK'
<1>1. ASSUME NEW a \in Assets,
             \/ SFetch(a) \/ SWork(a) \/ SFail(a)
             \/ DFetch(a) \/ DWork(a) \/ DFail(a)
             \/ ResetBaseline(a) \/ Replicate(a)
      PROVE  TypeOK'
  BY <1>1, SignalType, DiagnosisType, OutsideType
<1>2. CASE Tick \/ UNCHANGED vars
  <2>1. CASE Tick
    <3>1. clock' \in Nat
      BY <2>1 DEF Tick, TypeOK
    <3> QED BY <2>1, <3>1 DEF Tick, TypeOK, signal, diagnosis
  <2>2. CASE UNCHANGED vars
    BY <2>2 DEF vars, TypeOK, signal, diagnosis
  <2> QED BY <1>2, <2>1, <2>2
<1> QED BY <1>1, <1>2 DEF Next

LEMMA TypeInit == ASSUME Init PROVE TypeOK /\ LocalsSet
<1>1. NewLane \in LaneType
  BY DEF NewLane, LaneType
<1>2. [k \in DOMAIN Backlog |-> [reading |-> 0, state |-> Backlog[k]]]
        \in Seq([reading : Nat, state : RiskStates])
  <2>1. DOMAIN Backlog = 1 .. Len(Backlog) /\ Len(Backlog) \in Nat
        /\ \A k \in DOMAIN Backlog : Backlog[k] \in RiskStates
    BY Numbers
  <2> DEFINE R == [reading : Nat, state : RiskStates]
             e(k) == [reading |-> 0, state |-> Backlog[k]]
  <2>2. \A k \in 1 .. Len(Backlog) : e(k) \in R
    BY <2>1
  <2> HIDE DEF R, e
  <2>3. [k \in 1 .. Len(Backlog) |-> e(k)] \in Seq(R)
    BY <2>1, <2>2
  <2> QED BY <2>1, <2>3 DEF R, e
<1>3. TypeOK
  BY <1>1, <1>2 DEF Init, TypeOK
<1>4. LocalsSet
  BY DEF Init, LocalsSet
<1> QED BY <1>3, <1>4

-----------------------------------------------------------------------------
(* The calls of Bedrock.                                                   *)

\* How lanes go on.
LEMMA LaneSteps ==
  ASSUME NEW l \in LaneType, LaneInv(l)
  PROVE  /\ \A n \in Nat : n > l.from => LaneInv(Fetch(l, n)) /\ Busy(Fetch(l, n))
         /\ Busy(l) /\ l.at <= l.to => LaneInv(Advance(l)) /\ Busy(Advance(l))
         /\ LaneInv(Checkpointed(l)) /\ ~Busy(Checkpointed(l))
         /\ Busy(l) => \A m \in AfterFailure(l, MaxRetries) : LaneInv(m)
<1>1. l.from \in Nat /\ l.to \in Nat /\ l.at \in Nat /\ l.tries \in Nat /\ MaxRetries \in Nat
  BY Numbers DEF LaneType
<1>2. ASSUME NEW n \in Nat, n > l.from PROVE LaneInv(Fetch(l, n)) /\ Busy(Fetch(l, n))
  BY <1>1, <1>2, LaneFields DEF LaneInv, Busy
<1>3. ASSUME Busy(l), l.at <= l.to PROVE LaneInv(Advance(l)) /\ Busy(Advance(l))
  BY <1>1, <1>3, LaneFields DEF LaneInv, Busy
<1>4. LaneInv(Checkpointed(l)) /\ ~Busy(Checkpointed(l))
  BY <1>1, LaneFields DEF LaneInv, Busy
<1>5. ASSUME Busy(l), NEW m \in AfterFailure(l, MaxRetries) PROVE LaneInv(m)
  <2>1. CASE m = Checkpointed(l)
    BY <1>4, <2>1
  <2>2. CASE m = Advance(l) /\ l.at < l.to
    BY <1>1, <1>3, <1>5, <2>2
  <2>3. CASE /\ l.tries < MaxRetries
             /\ m.from = l.from /\ m.to = l.to /\ m.at = l.from + 1 /\ m.tries = l.tries + 1
    BY <1>1, <1>5, <2>3 DEF LaneInv, Busy
  <2> QED BY <1>5, <2>1, <2>2, <2>3, LaneFields
<1> QED BY <1>2, <1>3, <1>4, <1>5

\* What a lane may have spent on a record never shrinks, and an attempt that ends
\* within a record is counted for it.
LEMMA SpentGrows ==
  ASSUME NEW l \in LaneType, LaneInv(l), NEW k \in Nat
  PROVE  /\ Spent(l, k) \in Nat /\ Spent(l, k) <= MaxRetries + 1
         /\ \A n \in Nat : ~Busy(l) => Spent(l, k) <= Spent(Fetch(l, n), k)
         /\ Busy(l) => \A m \in {Advance(l), Checkpointed(l)} \cup AfterFailure(l, MaxRetries) :
                         /\ Spent(l, k) <= Spent(m, k)
                         /\ k = l.at /\ l.at <= l.to => Spent(l, k) + 1 <= Spent(m, k)
<1>1. /\ l.from \in Nat /\ l.to \in Nat /\ l.at \in Nat /\ l.tries \in Nat /\ MaxRetries \in Nat
      /\ l.tries <= MaxRetries /\ l.from <= l.to /\ (Busy(l) => l.from + 1 <= l.at)
  BY Numbers DEF LaneType, LaneInv
<1>2. Spent(l, k) \in Nat /\ Spent(l, k) <= MaxRetries + 1
  BY <1>1 DEF Spent
<1>3. ASSUME NEW n \in Nat, ~Busy(l) PROVE Spent(l, k) <= Spent(Fetch(l, n), k)
  BY <1>1, <1>3, LaneFields DEF Spent, Busy
<1>4. ASSUME Busy(l), NEW m \in {Advance(l), Checkpointed(l)} \cup AfterFailure(l, MaxRetries)
      PROVE  /\ Spent(l, k) <= Spent(m, k)
             /\ k = l.at /\ l.at <= l.to => Spent(l, k) + 1 <= Spent(m, k)
  <2>1. CASE m = Advance(l)
    BY <1>1, <1>4, <2>1, LaneFields DEF Spent, Busy
  <2>2. CASE m = Checkpointed(l)
    BY <1>1, <1>4, <2>2, LaneFields DEF Spent, Busy
  <2>3. CASE /\ l.tries < MaxRetries
             /\ m.from = l.from /\ m.to = l.to /\ m.at = l.from + 1 /\ m.tries = l.tries + 1
    BY <1>1, <1>4, <2>3 DEF Spent, Busy
  <2> QED BY <1>4, <2>1, <2>2, <2>3, LaneFields
<1> QED BY <1>2, <1>3, <1>4

\* Finitely many calls; one more is one more for its risk event.
LEMMA CallsFinite ==
  ASSUME TypeOK, NEW a \in Assets, NEW k \in Nat
  PROVE  IsFiniteSet(CallsFor(a, k)) /\ Cardinality(CallsFor(a, k)) \in Nat
<1>1. DOMAIN calls[a] = 1 .. Len(calls[a]) /\ Len(calls[a]) \in Nat
  BY DEF TypeOK
<1>2. IsFiniteSet(DOMAIN calls[a])
  BY <1>1, FS_Interval
<1>3. CallsFor(a, k) \subseteq DOMAIN calls[a]
  BY DEF CallsFor
<1>4. IsFiniteSet(CallsFor(a, k))
  BY <1>2, <1>3, FS_Subset
<1> QED BY <1>4, FS_CardinalityType

LEMMA OneCall ==
  ASSUME TypeOK, NEW a \in Assets, NEW call, calls'[a] = Append(calls[a], call), NEW k \in Nat
  PROVE  Cardinality(CallsFor(a, k)') <= Cardinality(CallsFor(a, k))
                                           + (IF call.risk = k THEN 1 ELSE 0)
<1> DEFINE s == calls[a]
           n == Len(s) + 1
<1>1. s \in Seq([risk : Nat, time : Nat]) /\ Len(s) \in Nat
  BY DEF TypeOK
<1>2. /\ DOMAIN Append(s, call) = DOMAIN s \cup {n} /\ n \notin DOMAIN s
      /\ \A c \in DOMAIN s : Append(s, call)[c] = s[c]
      /\ Append(s, call)[n] = call
  BY <1>1
<1>3. CallsFor(a, k)' = {c \in DOMAIN Append(s, call) : Append(s, call)[c].risk = k}
  BY DEF CallsFor
<1>4. CallsFor(a, k) = {c \in DOMAIN s : s[c].risk = k}
  BY DEF CallsFor
<1> HIDE DEF s, n
<1>5. CallsFor(a, k)' = IF call.risk = k THEN CallsFor(a, k) \cup {n} ELSE CallsFor(a, k)
  BY <1>2, <1>3, <1>4
<1>6. n \notin CallsFor(a, k) /\ IsFiniteSet(CallsFor(a, k)) /\ Cardinality(CallsFor(a, k)) \in Nat
  BY <1>2, <1>4, CallsFinite
<1>7. Cardinality(CallsFor(a, k) \cup {n}) = Cardinality(CallsFor(a, k)) + 1
  BY <1>6, FS_AddElement
<1> QED BY <1>5, <1>6, <1>7

\* A step that does not call Bedrock, or leaves the record after it did.
LEMMA NoCall ==
  ASSUME TypeOK, NEW a \in Assets, CallsInv(a), calls'[a] = calls[a],
         LaneInv(dLane'[a]), Placed(dLane'[a], dPc'[a], Within), dLane'[a] \in LaneType,
         \A k \in Nat : /\ Spent(dLane[a], k) <= Spent(dLane'[a], k)
                        /\ k = dLane[a].at /\ dPc[a] \in Called
                             => Spent(dLane[a], k) + 1 <= Spent(dLane'[a], k)
  PROVE  CallsInv(a)'
<1>1. ASSUME NEW k \in Nat
      PROVE  Cardinality(CallsFor(a, k)') <= Spent(dLane'[a], k)
  <2>1. CallsFor(a, k)' = CallsFor(a, k) /\ Cardinality(CallsFor(a, k)) \in Nat
    BY CallsFinite DEF CallsFor
  <2>2. Cardinality(CallsFor(a, k)) <=
          (IF k = dLane[a].at /\ dPc[a] \in Called THEN Spent(dLane[a], k) + 1 ELSE Spent(dLane[a], k))
    BY DEF CallsInv
  <2>3. Spent(dLane[a], k) \in Nat
    BY SpentGrows DEF TypeOK, CallsInv
  <2>4. Spent(dLane'[a], k) \in Nat
    BY SpentGrows
  <2> QED BY <2>1, <2>2, <2>3, <2>4
<1>2. ASSUME NEW k \in Nat
      PROVE  /\ Cardinality(CallsFor(a, k)') <= Spent(dLane'[a], k)
             /\ Cardinality(CallsFor(a, k)') <= Spent(dLane'[a], k) + 1
  <2>1. CallsFor(a, k)' = CallsFor(a, k) /\ Cardinality(CallsFor(a, k)) \in Nat
    BY CallsFinite DEF CallsFor
  <2>2. Spent(dLane'[a], k) \in Nat
    BY SpentGrows
  <2> QED BY <1>1, <2>1, <2>2
<1> QED BY <1>2 DEF CallsInv

LEMMA LeaveCalls ==
  ASSUME TypeOK, NEW a \in Assets, CallsInv(a), DLeave(a), dLane[a].at <= dLane[a].to,
         Busy(dLane[a]), UNCHANGED calls
  PROVE  CallsInv(a)'
<1> DEFINE l == dLane[a]
<1>1. l \in LaneType /\ LaneInv(l)
  BY DEF TypeOK, CallsInv
<1>2. dLane'[a] = Advance(l) /\ dPc'[a] = "load"
  BY DEF DLeave, TypeOK
<1>3. LaneInv(dLane'[a]) /\ Placed(dLane'[a], dPc'[a], Within)
  BY <1>1, <1>2, LaneSteps DEF Placed, Within
<1>4. \A k \in Nat : /\ Spent(l, k) <= Spent(dLane'[a], k)
                     /\ k = l.at => Spent(l, k) + 1 <= Spent(dLane'[a], k)
  BY <1>1, <1>2, SpentGrows
<1> QED BY <1>1, <1>2, <1>3, <1>4, LaneTypes, NoCall

LEMMA CallsStep ==
  ASSUME TypeOK, NEW a \in Assets, CallsInv(a), [Next]_vars
  PROVE  CallsInv(a)'
<1> DEFINE l == dLane[a]
<1>1. /\ l \in LaneType /\ l.from \in Nat /\ l.to \in Nat /\ l.at \in Nat
      /\ LaneInv(l) /\ Placed(l, dPc[a], Within)
  BY DEF TypeOK, CallsInv, LaneType
<1>2. ASSUME dLane'[a] = l, calls'[a] = calls[a],
             \/ dPc'[a] = dPc[a]
             \/ dPc[a] = "load" /\ dPc'[a] = "check" /\ Busy(l) /\ l.at <= l.to
             \/ dPc[a] \in Called /\ dPc'[a] \in Called
      PROVE  CallsInv(a)'
  <2>1. Placed(l, dPc'[a], Within)
    BY <1>1, <1>2 DEF Placed, Within, Called
  <2>2. dPc'[a] \in Called <=> dPc[a] \in Called
    BY <1>2 DEF Called
  <2>3. \A k : CallsFor(a, k)' = CallsFor(a, k)
    BY <1>2 DEF CallsFor
  <2> QED BY <1>1, <1>2, <2>1, <2>2, <2>3 DEF CallsInv
<1>3. CASE DFetch(a)
  <2>1. PICK n \in 1 .. MaxBatch : dLane' = [dLane EXCEPT ![a] = Fetch(@, @.from + n)]
    BY <1>3 DEF DFetch
  <2>2. dLane'[a] = Fetch(l, l.from + n) /\ l.from + n \in Nat /\ l.from + n > l.from
    BY <1>1, <2>1, Numbers DEF TypeOK
  <2>3. dPc'[a] = "load" /\ ~Busy(l) /\ calls' = calls /\ dPc[a] = "idle"
    BY <1>1, <1>3 DEF DFetch, TypeOK, Placed
  <2>4. LaneInv(dLane'[a]) /\ Placed(dLane'[a], dPc'[a], Within)
    BY <1>1, <2>2, <2>3, LaneSteps DEF Placed, Within
  <2>5. dPc[a] \notin Called /\ \A k \in Nat : Spent(l, k) <= Spent(dLane'[a], k)
    BY <1>1, <2>2, <2>3, SpentGrows DEF Called
  <2> QED BY <1>1, <2>2, <2>3, <2>4, <2>5, LaneTypes, NoCall
<1>4. CASE DSkipNominal(a) \/ DSkipDebounced(a) \/ DNoAnswer(a) \/ DEmit(a)
  <2>1. DLeave(a) /\ UNCHANGED calls
    BY <1>4 DEF DSkipNominal, DSkipDebounced, DNoAnswer, DEmit
  <2>2. /\ dPc[a] # "idle" /\ ~Processed(l)
        /\ dPc[a] \in Within \/ dPc[a] = "load"
    BY <1>1, <1>4 DEF DSkipNominal, DSkipDebounced, DNoAnswer, DEmit, Placed, Within, Processed
  <2>3. Busy(l) /\ l.at <= l.to
    BY <1>1, <2>2 DEF LaneInv, Placed, Processed
  <2> QED BY <2>1, <2>3, LeaveCalls
<1>5. CASE DLoad(a)
  <2>1. Busy(l) /\ l.at <= l.to
    BY <1>1, <1>5 DEF DLoad, LaneInv, Placed, Processed
  <2> QED BY <1>2, <1>5, <2>1 DEF DLoad, TypeOK
<1>6. CASE DAnswer(a) \/ DUpdateTimestamp(a)
  BY <1>2, <1>6 DEF DAnswer, DUpdateTimestamp, TypeOK, Called
<1>7. CASE DCallBedrock(a)
  <2>1. /\ dPc[a] = "check" /\ dPc'[a] = "bedrock" /\ dLane' = dLane
        /\ calls'[a] = Append(calls[a], [risk |-> l.at, time |-> clock])
    BY <1>7 DEF DCallBedrock, TypeOK
  <2>2. Placed(l, dPc'[a], Within) /\ dPc'[a] \in Called /\ dPc[a] \notin Called
    BY <1>1, <2>1 DEF Placed, Within, Called
  <2>3. ASSUME NEW k \in Nat
        PROVE  Cardinality(CallsFor(a, k)') <= (IF k = l.at THEN Spent(l, k) + 1 ELSE Spent(l, k))
    <3>1. Cardinality(CallsFor(a, k)') <= Cardinality(CallsFor(a, k)) + (IF l.at = k THEN 1 ELSE 0)
      BY <2>1, OneCall
    <3>2. Cardinality(CallsFor(a, k)) \in Nat /\ Cardinality(CallsFor(a, k)) <= Spent(l, k)
      BY <2>2, CallsFinite DEF CallsInv
    <3>3. Spent(l, k) \in Nat
      BY <1>1, SpentGrows
    <3>4. Cardinality(CallsFor(a, k)') \in Nat
      <4>1. CallsFor(a, k)' \subseteq DOMAIN Append(calls[a], [risk |-> l.at, time |-> clock])
        BY <2>1 DEF CallsFor
      <4>2. DOMAIN Append(calls[a], [risk |-> l.at, time |-> clock]) = 1 .. Len(calls[a]) + 1
        BY DEF TypeOK
      <4>3. Len(calls[a]) + 1 \in Nat
        BY DEF TypeOK
      <4>4. IsFiniteSet(1 .. Len(calls[a]) + 1)
        BY <4>3, FS_Interval
      <4>5. IsFiniteSet(CallsFor(a, k)')
        BY <4>1, <4>2, <4>4, FS_Subset
      <4> QED BY <4>5, FS_CardinalityType
    <3> QED BY <3>1, <3>2, <3>3, <3>4
  <2> QED BY <1>1, <2>1, <2>2, <2>3 DEF CallsInv
<1>8. CASE DCommit(a)
  <2>1. /\ dLane'[a] = Checkpointed(l) /\ dPc'[a] = "idle" /\ Busy(l) /\ calls' = calls
        /\ ~(l.at <= l.to)
    BY <1>1, <1>8 DEF DCommit, TypeOK, Processed
  <2>2. LaneInv(dLane'[a]) /\ Placed(dLane'[a], dPc'[a], Within) /\ dPc[a] \notin Called
    BY <1>1, <2>1, LaneSteps DEF Placed, Within, Called
  <2>3. \A k \in Nat : Spent(l, k) <= Spent(dLane'[a], k)
    BY <1>1, <2>1, SpentGrows
  <2> QED BY <1>1, <2>1, <2>2, <2>3, LaneTypes, NoCall
<1>9. CASE DFail(a)
  <2>1. PICK m \in AfterFailure(l, MaxRetries) :
          /\ dLane' = [dLane EXCEPT ![a] = m]
          /\ dPc' = [dPc EXCEPT ![a] = IF Busy(m) THEN "load" ELSE "idle"]
    BY <1>9 DEF DFail
  <2>2. dLane'[a] = m /\ dPc'[a] = (IF Busy(m) THEN "load" ELSE "idle") /\ Busy(l) /\ calls' = calls
    BY <1>9, <2>1 DEF DFail, TypeOK
  <2>3. LaneInv(m) /\ Placed(m, dPc'[a], Within)
    BY <1>1, <2>2, LaneSteps DEF Placed, Within
  <2>4. dPc[a] \in Called => l.at <= l.to
    BY <1>1 DEF Placed, Within, Called
  <2>5. \A k \in Nat : /\ Spent(l, k) <= Spent(m, k)
                       /\ k = l.at /\ l.at <= l.to => Spent(l, k) + 1 <= Spent(m, k)
    BY <1>1, <2>2, SpentGrows
  <2> QED BY <1>1, <2>2, <2>3, <2>4, <2>5, LaneTypes, NoCall
<1>10. ASSUME NEW b \in Assets, b # a, DFetch(b) \/ DWork(b) \/ DFail(b)
       PROVE  dLane'[a] = l /\ calls'[a] = calls[a] /\ dPc'[a] = dPc[a]
  BY <1>10 DEF DFetch, DWork, DFail, DSkipNominal, DLoad, DSkipDebounced, DCallBedrock, DAnswer,
               DNoAnswer, DUpdateTimestamp, DEmit, DCommit, DLeave, TypeOK
<1>11. ASSUME NEW b \in Assets,
              SFetch(b) \/ SWork(b) \/ SFail(b) \/ ResetBaseline(b) \/ Replicate(b)
       PROVE  dLane' = dLane /\ calls' = calls /\ dPc' = dPc
  BY <1>11 DEF SFetch, SWork, SFail, SLoad, SPut, SEmit, SCommit, ResetBaseline, Replicate, diagnosis
<1>12. Tick \/ UNCHANGED vars => dLane' = dLane /\ calls' = calls /\ dPc' = dPc
  BY DEF Tick, vars, diagnosis
<1> QED BY <1>2, <1>3, <1>4, <1>5, <1>6, <1>7, <1>8, <1>9, <1>10, <1>11, <1>12 DEF Next, DWork

-----------------------------------------------------------------------------
(* How often a reading is folded.                                          *)

\* A reading is at finitely many places of an item.
LEMMA PlacesFinite ==
  ASSUME NEW item \in Item \cup {None}, NEW k \in Nat
  PROVE  IsFiniteSet(Places(item, k)) /\ Cardinality(Places(item, k)) \in Nat
<1>1. CASE item = None \/ item.readings = None
  BY <1>1, FS_EmptySet DEF Places
<1>2. CASE ~(item = None \/ item.readings = None)
  <2>1. item.readings \in Seq(Nat)
    BY <1>2 DEF Item
  <2>2. DOMAIN item.readings = 1 .. Len(item.readings) /\ Len(item.readings) \in Nat
    BY <2>1
  <2>3. Places(item, k) \in SUBSET (1 .. Len(item.readings))
    BY <1>2, <2>2 DEF Places
  <2>4. IsFiniteSet(1 .. Len(item.readings))
    BY <2>2, FS_Interval
  <2> QED BY <2>3, <2>4, FS_Subset, FS_CardinalityType
<1> QED BY <1>1, <1>2

\* Folding a reading into an item adds one place, for that reading.
LEMMA FoldOnce ==
  ASSUME NEW item \in Item \cup {None}, item # None => item.readings # None,
         NEW n \in Nat, NEW new,
         new = IF item = None THEN [readings |-> <<n>>, diagnosedAt |-> None]
               ELSE [item EXCEPT !.readings = Append(@, n)],
         NEW k \in Nat
  PROVE  Cardinality(Places(new, k)) <= (IF k = n THEN Cardinality(Places(item, k)) + 1
                                         ELSE Cardinality(Places(item, k)))
<1> DEFINE old == IF item = None THEN <<>> ELSE item.readings
<1>1. old \in Seq(Nat) /\ Len(old) \in Nat
  <2>1. item # None => item.readings \in Seq(Nat)
    BY DEF Item
  <2> QED BY <2>1
<1>2. new # None /\ new.readings = Append(old, n) /\ new.readings # None
  <2>1. new \in Item
    BY ItemTypes
  <2>2. new.readings = Append(old, n)
    <3>1. CASE item = None
      BY <3>1
    <3>2. CASE item # None
      BY <3>2 DEF Item
    <3> QED BY <3>1, <3>2
  <2>3. Append(old, n) \in Seq(Nat)
    BY <1>1
  <2> HIDE DEF old
  <2> QED BY <2>1, <2>2, <2>3, ItemAssumption
<1>3. Places(item, k) = {j \in DOMAIN old : old[j] = k}
  <2>1. CASE item = None
    BY <2>1 DEF Places
  <2>2. CASE item # None
    BY <2>2 DEF Places
  <2> QED BY <2>1, <2>2
<1> HIDE DEF old
<1>4. /\ DOMAIN Append(old, n) = DOMAIN old \cup {Len(old) + 1}
      /\ \A j \in DOMAIN old : Append(old, n)[j] = old[j]
      /\ Append(old, n)[Len(old) + 1] = n /\ Len(old) + 1 \notin DOMAIN old
  BY <1>1
<1>5. Places(new, k) = {j \in DOMAIN Append(old, n) : Append(old, n)[j] = k}
  BY <1>2 DEF Places
<1>6. Places(new, k) = IF k = n THEN Places(item, k) \cup {Len(old) + 1} ELSE Places(item, k)
  BY <1>3, <1>4, <1>5
<1>7. /\ Len(old) + 1 \notin Places(item, k) /\ IsFiniteSet(Places(item, k))
      /\ Cardinality(Places(item, k)) \in Nat
  BY <1>3, <1>4, PlacesFinite
<1>8. Cardinality(Places(item, k) \cup {Len(old) + 1}) = Cardinality(Places(item, k)) + 1
  BY <1>7, FS_AddElement
<1> QED BY <1>6, <1>7, <1>8

\* The bound is a number, and grows with the lane: an attempt that ends within a
\* record is counted for it.
LEMMA FoldsAtGrows ==
  ASSUME TypeOK, TypeOK', NEW a \in Assets, FoldsInv(a), LaneInv(sLane'[a]), NEW k \in Nat
  PROVE  /\ FoldsAt(a, k) \in Nat /\ FoldsAt(a, k)' \in Nat
         /\ sLane'[a] = sLane[a] /\ (sPc[a] \in {"put", "emit"} => sPc'[a] \in {"put", "emit"})
              => FoldsAt(a, k) <= FoldsAt(a, k)'
         /\ \A n \in Nat : ~Busy(sLane[a]) /\ sPc[a] = "idle" /\ sLane'[a] = Fetch(sLane[a], n)
              => FoldsAt(a, k) <= FoldsAt(a, k)'
         /\ \A m \in {Advance(sLane[a]), Checkpointed(sLane[a])}
                        \cup AfterFailure(sLane[a], MaxRetries) :
              Busy(sLane[a]) /\ sLane'[a] = m => FoldsAt(a, k) <= FoldsAt(a, k)'
<1> DEFINE l == sLane[a]
           p == sLane'[a]
<1>1. l \in LaneType /\ p \in LaneType /\ LaneInv(l) /\ LaneInv(p)
  BY DEF TypeOK, FoldsInv
<1>2. Spent(l, k) \in Nat /\ Spent(p, k) \in Nat
  BY <1>1, SpentGrows
<1>3. /\ FoldsAt(a, k) = IF k = l.at /\ sPc[a] \in {"put", "emit"} THEN Spent(l, k) + 1 ELSE Spent(l, k)
      /\ FoldsAt(a, k)' = IF k = p.at /\ sPc'[a] \in {"put", "emit"} THEN Spent(p, k) + 1 ELSE Spent(p, k)
  BY DEF FoldsAt, Spent, Busy
<1>4. sPc[a] \in {"put", "emit"} => l.at <= l.to
  BY DEF FoldsInv, Placed, InRecord
<1>5. ASSUME NEW n \in Nat, ~Busy(l), sPc[a] = "idle", p = Fetch(l, n)
      PROVE  FoldsAt(a, k) <= FoldsAt(a, k)'
  <2>1. Spent(l, k) <= Spent(p, k)
    BY <1>1, <1>5, SpentGrows
  <2> HIDE DEF l, p
  <2> QED BY <1>2, <1>3, <1>5, <2>1
<1>6. ASSUME NEW m \in {Advance(l), Checkpointed(l)} \cup AfterFailure(l, MaxRetries),
             Busy(l), p = m
      PROVE  FoldsAt(a, k) <= FoldsAt(a, k)'
  <2>1. /\ Spent(l, k) <= Spent(p, k)
        /\ k = l.at /\ l.at <= l.to => Spent(l, k) + 1 <= Spent(p, k)
    BY <1>1, <1>6, SpentGrows
  <2> HIDE DEF l, p
  <2> QED BY <1>2, <1>3, <1>4, <2>1
<1>7. ASSUME p = l, sPc[a] \in {"put", "emit"} => sPc'[a] \in {"put", "emit"}
      PROVE  FoldsAt(a, k) <= FoldsAt(a, k)'
  <2> HIDE DEF l, p
  <2> QED BY <1>2, <1>3, <1>7
<1>8. FoldsAt(a, k) \in Nat /\ FoldsAt(a, k)' \in Nat
  <2> HIDE DEF l, p
  <2> QED BY <1>2, <1>3
<1> QED BY <1>5, <1>6, <1>7, <1>8

\* A step that folds nothing: every copy of the item is as one was before, or has
\* no readings.
LEMMA NoFold ==
  ASSUME TypeOK, TypeOK', NEW a \in Assets, FoldsInv(a),
         LaneInv(sLane'[a]), Placed(sLane'[a], sPc'[a], InRecord),
         \A k \in Nat : FoldsAt(a, k) <= FoldsAt(a, k)',
         \A k \in Nat : \A item \in Copies(a)' :
           Places(item, k) = {} \/ \E old \in Copies(a) : Places(item, k) = Places(old, k)
  PROVE  FoldsInv(a)'
<1>1. ASSUME NEW k \in Nat, NEW item \in Copies(a)'
      PROVE  Cardinality(Places(item, k)) <= FoldsAt(a, k)'
  <2>1. FoldsAt(a, k) \in Nat /\ FoldsAt(a, k)' \in Nat /\ FoldsAt(a, k) <= FoldsAt(a, k)'
    BY FoldsAtGrows
  <2>2. CASE Places(item, k) = {}
    BY <2>1, <2>2, FS_EmptySet
  <2>3. CASE \E old \in Copies(a) : Places(item, k) = Places(old, k)
    <3>1. PICK old \in Copies(a) : Places(item, k) = Places(old, k)
      BY <2>3
    <3>2. Cardinality(Places(old, k)) <= FoldsAt(a, k)
      BY DEF FoldsInv
    <3>3. Cardinality(Places(old, k)) \in Nat
      <4>1. old \in Item \cup {None}
        BY DEF TypeOK, Copies
      <4> QED BY <4>1, PlacesFinite
    <3> QED BY <2>1, <3>1, <3>2, <3>3
  <2> QED BY <2>2, <2>3
<1> QED BY <1>1 DEF FoldsInv, Places

LEMMA FoldsStep ==
  ASSUME TypeOK, LocalsSet, TypeOK', NEW a \in Assets, FoldsInv(a), [Next]_vars
  PROVE  FoldsInv(a)'
<1> DEFINE l == sLane[a]
<1>1. /\ l \in LaneType /\ l.from \in Nat /\ l.to \in Nat /\ l.at \in Nat
      /\ LaneInv(l) /\ Placed(l, sPc[a], InRecord)
      /\ \A item \in Copies(a) : item \in Item \cup {None}
  <2>1. l \in LaneType
    BY DEF TypeOK
  <2>2. l.from \in Nat /\ l.to \in Nat /\ l.at \in Nat
    BY <2>1 DEF LaneType
  <2>3. LaneInv(l) /\ Placed(l, sPc[a], InRecord)
    BY DEF FoldsInv
  <2>4. \A item \in Copies(a) : item \in Item \cup {None}
    BY DEF TypeOK, Copies
  <2> QED BY <2>1, <2>2, <2>3, <2>4
<1>2. \A k \in Nat : Places(None, k) = {}
  BY DEF Places
\* Nothing is folded and the lane stays.
<1>3. ASSUME sLane'[a] = l, sPc[a] \in {"put", "emit"} => sPc'[a] \in {"put", "emit"},
             Placed(l, sPc'[a], InRecord),
             \A k \in Nat : \A item \in Copies(a)' :
               Places(item, k) = {} \/ \E old \in Copies(a) : Places(item, k) = Places(old, k)
      PROVE  FoldsInv(a)'
  <2>1. LaneInv(sLane'[a]) /\ Placed(sLane'[a], sPc'[a], InRecord)
    BY <1>1, <1>3
  <2>2. \A k \in Nat : FoldsAt(a, k) <= FoldsAt(a, k)'
    BY <1>3, <2>1, FoldsAtGrows
  <2> QED BY <1>3, <2>1, <2>2, NoFold
\* The lane goes on, and the item about to be put is gone or stays.
<1>4. ASSUME LaneInv(sLane'[a]), Placed(sLane'[a], sPc'[a], InRecord),
             row'[a] = row[a], replica'[a] = replica[a], sState'[a] \in {sState[a], None},
             \/ \E n \in Nat : ~Busy(l) /\ sPc[a] = "idle" /\ sLane'[a] = Fetch(l, n)
             \/ Busy(l) /\ sLane'[a] \in {Advance(l), Checkpointed(l)} \cup AfterFailure(l, MaxRetries)
      PROVE  FoldsInv(a)'
  <2>1. \A k \in Nat : FoldsAt(a, k) <= FoldsAt(a, k)'
    BY <1>4, FoldsAtGrows
  <2>2. \A item \in Copies(a)' : item = None \/ item \in Copies(a)
    BY <1>4 DEF Copies
  <2> QED BY <1>2, <1>4, <2>1, <2>2, NoFold
<1>5. CASE SFetch(a)
  <2>1. PICK n \in 1 .. MaxBatch : sLane' = [sLane EXCEPT ![a] = Fetch(@, @.from + n)]
    BY <1>5 DEF SFetch
  <2>2. sLane'[a] = Fetch(l, l.from + n) /\ l.from + n \in Nat /\ l.from + n > l.from
    BY <1>1, <2>1, Numbers DEF TypeOK
  <2>3. /\ sPc'[a] = "load" /\ ~Busy(l) /\ sPc[a] = "idle"
        /\ UNCHANGED <<row, replica, sState>>
    BY <1>1, <1>5 DEF SFetch, TypeOK, Placed
  <2>4. LaneInv(sLane'[a]) /\ Placed(sLane'[a], sPc'[a], InRecord)
    BY <1>1, <2>2, <2>3, LaneSteps DEF Placed, InRecord
  <2> QED BY <1>4, <2>2, <2>3, <2>4
<1>6. CASE SLoad(a)
  <2>1. PICK item \in Visible(a) :
          \/ /\ item # None /\ item.readings = None
             /\ sPc' = [sPc EXCEPT ![a] = "thrown"]
             /\ UNCHANGED <<sState, sRisk>>
          \/ /\ item # None => item.readings # None
             /\ sState' = [sState EXCEPT ![a] =
                  IF item = None
                    THEN [readings |-> <<sLane[a].at>>, diagnosedAt |-> None]
                    ELSE [item EXCEPT !.readings = Append(@, sLane[a].at)]]
             /\ sPc' = [sPc EXCEPT ![a] = "put"]
    BY <1>6 DEF SLoad
  <2>2. /\ sPc[a] = "load" /\ Busy(l) /\ l.at <= l.to /\ sLane'[a] = l
        /\ row'[a] = row[a] /\ replica'[a] = replica[a]
    BY <1>1, <1>6 DEF SLoad, Processed, Placed, LaneInv
  <2>3. CASE sPc' = [sPc EXCEPT ![a] = "thrown"] /\ UNCHANGED sState
    <3>1. Placed(l, sPc'[a], InRecord) /\ Copies(a)' = Copies(a)
      BY <1>1, <2>2, <2>3 DEF Placed, InRecord, Copies, TypeOK
    <3> QED BY <1>3, <2>2, <3>1
  <2>4. CASE /\ item # None => item.readings # None
             /\ sState' = [sState EXCEPT ![a] =
                  IF item = None
                    THEN [readings |-> <<sLane[a].at>>, diagnosedAt |-> None]
                    ELSE [item EXCEPT !.readings = Append(@, sLane[a].at)]]
             /\ sPc' = [sPc EXCEPT ![a] = "put"]
    <3>1. sPc'[a] = "put" /\ Placed(l, sPc'[a], InRecord)
      BY <1>1, <2>2, <2>4 DEF Placed, InRecord, TypeOK
    <3>2. sState'[a] = IF item = None THEN [readings |-> <<l.at>>, diagnosedAt |-> None]
                       ELSE [item EXCEPT !.readings = Append(@, l.at)]
      BY <2>4 DEF TypeOK
    <3>3. item \in Item \cup {None} /\ item \in Copies(a)
      BY DEF TypeOK, Visible, Copies
    <3>4. ASSUME NEW k \in Nat, NEW copy \in Copies(a)'
          PROVE  Cardinality(Places(copy, k)) <= FoldsAt(a, k)'
      <4>1. /\ FoldsAt(a, k) = Spent(l, k) /\ Spent(l, k) \in Nat
            /\ FoldsAt(a, k)' = IF k = l.at THEN Spent(l, k) + 1 ELSE Spent(l, k)
        <5>1. Spent(l, k) \in Nat
          BY <1>1, SpentGrows
        <5>2. Spent(l, k)' = Spent(l, k)
          BY <2>2 DEF Spent, Busy
        <5> QED BY <2>2, <3>1, <5>1, <5>2 DEF FoldsAt
      <4>2. CASE copy \in Copies(a)
        <5>1. Cardinality(Places(copy, k)) <= FoldsAt(a, k) /\ Cardinality(Places(copy, k)) \in Nat
          BY <1>1, <4>2, PlacesFinite DEF FoldsInv
        <5> QED BY <4>1, <5>1
      <4>3. CASE copy = sState'[a]
        <5>1. Cardinality(Places(item, k)) <= FoldsAt(a, k) /\ Cardinality(Places(item, k)) \in Nat
          BY <3>3, PlacesFinite DEF FoldsInv
        <5>2. Cardinality(Places(copy, k)) <= (IF k = l.at THEN Cardinality(Places(item, k)) + 1
                                               ELSE Cardinality(Places(item, k)))
          BY <1>1, <2>4, <3>2, <3>3, <4>3, FoldOnce
        <5>3. Cardinality(Places(copy, k)) \in Nat
          <6>1. sState'[a] \in Item \cup {None}
            BY DEF TypeOK
          <6> QED BY <4>3, <6>1, PlacesFinite
        <5> QED BY <4>1, <5>1, <5>2, <5>3
      <4> QED BY <2>2, <4>2, <4>3 DEF Copies
    <3> QED BY <1>1, <2>2, <3>1, <3>4 DEF FoldsInv, Places
  <2> QED BY <2>1, <2>3, <2>4
<1>7. CASE SPut(a)
  <2>1. /\ sPc[a] = "put" /\ sPc'[a] = "emit" /\ sLane' = sLane /\ sState' = sState
        /\ Store(a, sState[a])
    BY <1>7 DEF SPut, TypeOK
  <2>2. row'[a] = sState[a] /\ replica'[a] \in {replica[a], sState[a]}
    BY <2>1 DEF Store, TypeOK
  <2>3. Copies(a)' \subseteq Copies(a) /\ Placed(l, sPc'[a], InRecord)
    BY <1>1, <2>1, <2>2 DEF Copies, Placed, InRecord
  <2> QED BY <1>3, <2>1, <2>3
<1>8. CASE SEmit(a)
  <2>1. /\ sPc[a] = "emit" /\ sPc'[a] = "load" /\ sLane'[a] = Advance(l) /\ sState'[a] = None
        /\ UNCHANGED <<row, replica>>
    BY <1>8 DEF SEmit, TypeOK
  <2>2. Busy(l) /\ l.at <= l.to
    BY <1>1, <2>1 DEF Placed, InRecord
  <2>3. LaneInv(sLane'[a]) /\ Placed(sLane'[a], sPc'[a], InRecord)
    BY <1>1, <2>1, <2>2, LaneSteps DEF Placed, InRecord
  <2> QED BY <1>4, <2>1, <2>2, <2>3
<1>9. CASE SCommit(a)
  <2>1. /\ sPc'[a] = "idle" /\ sLane'[a] = Checkpointed(l) /\ Busy(l)
        /\ UNCHANGED <<row, replica, sState>>
    BY <1>9 DEF SCommit, Processed, TypeOK
  <2>2. LaneInv(sLane'[a]) /\ Placed(sLane'[a], sPc'[a], InRecord)
    BY <1>1, <2>1, LaneSteps DEF Placed, InRecord
  <2> QED BY <1>4, <2>1, <2>2
<1>10. CASE SFail(a)
  <2>1. PICK m \in AfterFailure(l, MaxRetries) :
          /\ sLane' = [sLane EXCEPT ![a] = m]
          /\ sPc' = [sPc EXCEPT ![a] = IF Busy(m) THEN "load" ELSE "idle"]
    BY <1>10 DEF SFail
  <2>2. /\ sLane'[a] = m /\ sPc'[a] = (IF Busy(m) THEN "load" ELSE "idle") /\ Busy(l)
        /\ sState'[a] = None /\ UNCHANGED <<row, replica>>
    BY <1>10, <2>1 DEF SFail, TypeOK
  <2>3. LaneInv(sLane'[a]) /\ Placed(sLane'[a], sPc'[a], InRecord)
    BY <1>1, <2>2, LaneSteps DEF Placed, InRecord
  <2> QED BY <1>4, <2>2, <2>3
<1>11. CASE DUpdateTimestamp(a)
  <2> DEFINE new == IF row[a] = None THEN [readings |-> None, diagnosedAt |-> dStamp[a]]
                    ELSE [row[a] EXCEPT !.diagnosedAt = dStamp[a]]
  <2>1. Store(a, new) /\ sLane' = sLane /\ sPc' = sPc /\ sState' = sState
    BY <1>11 DEF DUpdateTimestamp, signal
  <2>2. \A k \in Nat : Places(new, k) = {} \/ Places(new, k) = Places(row[a], k)
    <3>1. row[a] \in Item \cup {None} /\ dStamp[a] \in Nat
      BY <1>11 DEF TypeOK, DUpdateTimestamp, LocalsSet
    <3>2. CASE row[a] = None
      BY <3>2 DEF Places
    <3>3. CASE row[a] # None
      <4>1. new \in Item /\ new.readings = row[a].readings
        BY <3>1, <3>3, ItemTypes DEF Item
      <4>2. new # None
        BY <4>1, ItemAssumption
      <4> QED BY <3>3, <4>1, <4>2 DEF Places
    <3> QED BY <3>2, <3>3
  <2> HIDE DEF new
  <2>3. row'[a] = new /\ replica'[a] \in {replica[a], new}
    BY <2>1 DEF Store, TypeOK
  <2>4. \A item \in Copies(a)' : item = new \/ item \in Copies(a)
    BY <2>1, <2>3 DEF Copies
  <2>5. row[a] \in Copies(a)
    BY DEF Copies
  <2> QED BY <1>1, <1>3, <2>1, <2>2, <2>4, <2>5
\* Whatever else happens, the copies are those there were, or the item is gone.
<1>12. ASSUME sLane'[a] = l, sPc'[a] = sPc[a], sState'[a] = sState[a],
              row'[a] \in {row[a], None}, replica'[a] \in {replica[a], row[a], None}
       PROVE  FoldsInv(a)'
  <2>1. \A item \in Copies(a)' : item = None \/ item \in Copies(a)
    BY <1>12 DEF Copies
  <2> QED BY <1>1, <1>2, <1>3, <1>12, <2>1
<1>13. CASE ResetBaseline(a) \/ Replicate(a)
  BY <1>12, <1>13 DEF ResetBaseline, Replicate, Store, signal, TypeOK
<1>14. ASSUME NEW b \in Assets, DFetch(b) \/ DWork(b) \/ DFail(b), ~DUpdateTimestamp(b)
       PROVE  FoldsInv(a)'
  <2>1. UNCHANGED <<row, replica, signal>>
    BY <1>14 DEF DFetch, DWork, DFail, DSkipNominal, DLoad, DSkipDebounced, DCallBedrock, DAnswer,
                 DNoAnswer, DEmit, DCommit
  <2> QED BY <1>12, <2>1 DEF signal
<1>15. ASSUME NEW b \in Assets, b # a,
              \/ SFetch(b) \/ SWork(b) \/ SFail(b) \/ DUpdateTimestamp(b)
              \/ ResetBaseline(b) \/ Replicate(b)
       PROVE  FoldsInv(a)'
  <2>1. sLane'[a] = l /\ sPc'[a] = sPc[a] /\ sState'[a] = sState[a]
    BY <1>15 DEF SFetch, SWork, SFail, SLoad, SPut, SEmit, SCommit, DUpdateTimestamp, ResetBaseline,
                 Replicate, signal, TypeOK
  <2>2. row'[a] = row[a] /\ replica'[a] = replica[a]
    BY <1>15 DEF SFetch, SWork, SFail, SLoad, SPut, SEmit, SCommit, DUpdateTimestamp, ResetBaseline,
                 Replicate, Store, TypeOK
  <2> QED BY <1>12, <2>1, <2>2
<1>16. Tick \/ UNCHANGED vars => FoldsInv(a)'
  BY <1>12 DEF Tick, vars, signal
<1>17. ASSUME NEW b \in Assets,
              \/ SFetch(b) \/ SWork(b) \/ SFail(b) \/ DFetch(b) \/ DWork(b) \/ DFail(b)
              \/ ResetBaseline(b) \/ Replicate(b)
       PROVE  FoldsInv(a)'
  <2>1. CASE b = a
    BY <1>5, <1>6, <1>7, <1>8, <1>9, <1>10, <1>11, <1>13, <1>14, <1>17, <2>1 DEF SWork
  <2>2. CASE b # a
    BY <1>14, <1>15, <1>17, <2>2
  <2> QED BY <2>1, <2>2
<1> QED BY <1>16, <1>17 DEF Next

-----------------------------------------------------------------------------
(* The baselines.                                                          *)

\* A lane that goes on without folding anything.
LEMMA StillCaught ==
  ASSUME NEW l \in LaneType, LaneInv(l), NEW seen \in SUBSET Nat, Caught(l, seen)
  PROVE  /\ \A n \in Nat : ~Busy(l) => Caught(Fetch(l, n), seen) \/ n <= l.from
         /\ Busy(l) /\ l.at <= l.to /\ l.at \in seen => Caught(Advance(l), seen)
         /\ Caught(Checkpointed(l), seen)
         /\ Busy(l) => \A m \in AfterFailure(l, MaxRetries) : Caught(m, seen)
<1>1. /\ l.from \in Nat /\ l.to \in Nat /\ l.at \in Nat /\ l.tries \in Nat /\ MaxRetries \in Nat
      /\ l.tries <= MaxRetries /\ l.from <= l.to
      /\ \A y \in seen : y \in Nat /\ y <= l.to
  BY Numbers DEF LaneType, LaneInv, Caught
<1>2. ASSUME NEW n \in Nat, ~Busy(l), n > l.from PROVE Caught(Fetch(l, n), seen)
  <2> DEFINE m == Fetch(l, n)
  <2>1. m.from = l.from /\ m.to = n /\ m.at = l.from + 1 /\ m.tries = 0
    BY LaneFields
  <2> HIDE DEF m
  <2>2. \A y \in seen : y <= l.from
    BY <1>1, <1>2 DEF Busy
  <2>3. \A x \in Low(m) .. n : x >= l.from + 1
    BY <1>1, <2>1 DEF Low
  <2>4. \A x \in Low(m) .. n : \A y \in seen : ~(x < y)
    BY <1>1, <2>1, <2>2, <2>3 DEF Low
  <2>5. \A y \in seen : y <= m.to
    BY <1>1, <1>2, <2>1, <2>2
  <2>6. \A x \in m.from + 1 .. m.at - 1 : FALSE
    BY <1>1, <2>1
  <2> QED BY <2>1, <2>4, <2>5, <2>6 DEF Caught, m
<1>3. ASSUME Busy(l), l.at <= l.to, l.at \in seen \/ ~(l.tries < MaxRetries)
      PROVE  Caught(Advance(l), seen)
  <2> DEFINE m == Advance(l)
  <2>1. m.from = l.from /\ m.to = l.to /\ m.at = l.at + 1 /\ m.tries = l.tries
    BY LaneFields
  <2> HIDE DEF m
  <2>2. \A x \in Low(m) .. l.to : x \in Low(l) .. l.to
    BY <1>1, <2>1 DEF Low
  <2>3. m.tries < MaxRetries => \A x \in m.from + 1 .. m.at - 1 : x \in seen
    <3>1. SUFFICES ASSUME l.tries < MaxRetries, NEW x \in l.from + 1 .. l.at PROVE x \in seen
      BY <1>1, <2>1
    <3>2. CASE x = l.at
      BY <1>3, <3>1, <3>2
    <3>3. CASE x # l.at
      BY <1>1, <1>3, <3>1, <3>3 DEF Caught
    <3> QED BY <3>2, <3>3
  <2> QED BY <1>1, <1>3, <2>1, <2>2, <2>3 DEF Caught, m
<1>4. Caught(Checkpointed(l), seen)
  BY <1>1, LaneFields DEF Caught, Busy
<1>5. ASSUME Busy(l), NEW m \in AfterFailure(l, MaxRetries) PROVE Caught(m, seen)
  <2>1. CASE m = Checkpointed(l)
    BY <1>4, <2>1
  <2>2. CASE m = Advance(l) /\ l.at < l.to /\ ~(l.tries < MaxRetries)
    <3>1. l.at <= l.to
      BY <1>1, <2>2
    <3> QED BY <1>3, <1>5, <2>2, <3>1
  <2>3. CASE /\ l.tries < MaxRetries
             /\ m.from = l.from /\ m.to = l.to /\ m.at = l.from + 1 /\ m.tries = l.tries + 1
    <3>1. Low(l) = l.from + 1 /\ Low(m) = l.from + 1
      BY <2>3 DEF Low
    <3>2. \A x \in m.from + 1 .. m.at - 1 : FALSE
      BY <1>1, <2>3
    <3> QED BY <1>1, <1>5, <2>3, <3>1, <3>2 DEF Caught
  <2> QED BY <1>5, <2>1, <2>2, <2>3, LaneFields
<1> QED BY <1>1, <1>2, <1>3, <1>4, <1>5

\* A reading at which the lane is may be folded.
LEMMA FoldInOrder ==
  ASSUME NEW l \in LaneType, LaneInv(l), Busy(l), l.at <= l.to,
         NEW s \in Seq(Nat), InOrderUpToReplay(s), Caught(l, {s[j] : j \in DOMAIN s})
  PROVE  LET t == Append(s, l.at)
         IN  /\ t \in Seq(Nat) /\ InOrderUpToReplay(t)
             /\ {t[j] : j \in DOMAIN t} = {s[j] : j \in DOMAIN s} \cup {l.at}
             /\ Caught(l, {s[j] : j \in DOMAIN s} \cup {l.at})
<1> DEFINE t == Append(s, l.at)
           seen == {s[j] : j \in DOMAIN s}
           n == Len(s) + 1
<1>1. /\ l.from \in Nat /\ l.to \in Nat /\ l.at \in Nat /\ l.tries \in Nat /\ MaxRetries \in Nat
      /\ l.from + 1 <= l.at
  BY Numbers DEF LaneType, LaneInv
<1>2. /\ t \in Seq(Nat) /\ DOMAIN t = 1 .. n /\ DOMAIN s = 1 .. n - 1 /\ n \in Nat \ {0}
      /\ t[n] = l.at /\ \A j \in 1 .. n - 1 : t[j] = s[j] /\ s[j] \in Nat
  BY <1>1
<1>3. seen \subseteq Nat /\ \A y \in seen : y \in Nat /\ y <= l.to
  BY <1>2 DEF Caught
<1>4. \A x \in Low(l) .. l.to : \A y \in seen : x < y => x \in seen
  BY DEF Caught
<1>5. l.tries < MaxRetries => \A x \in l.from + 1 .. l.at - 1 : x \in seen
  BY DEF Caught
<1>6. l.at \in seen \/ \A y \in seen : y < l.at
  <2>1. l.at \in Low(l) .. l.to
    BY <1>1 DEF Low
  <2>2. \A y \in seen : l.at < y => l.at \in seen
    BY <1>4, <2>1
  <2> HIDE DEF seen
  <2>3. SUFFICES ASSUME l.at \notin seen, NEW y \in seen PROVE y < l.at
    OBVIOUS
  <2> QED BY <1>1, <1>3, <2>2, <2>3
<1>7. InOrderUpToReplay(t)
  <2>1. SUFFICES ASSUME NEW k \in 1 .. n
                 PROVE  (\A j \in 1..(k - 1) : t[j] < t[k]) \/ \E j \in 1..(k - 1) : t[j] = t[k]
    BY <1>2 DEF InOrderUpToReplay
  <2>2. CASE k = n
    <3>1. l.at \in seen => \E j \in 1 .. n - 1 : s[j] = l.at
      BY <1>2
    <3>2. \A j \in 1 .. n - 1 : s[j] \in seen
      BY <1>2
    <3> HIDE DEF t, seen
    <3> QED BY <1>2, <1>6, <2>2, <3>1, <3>2
  <2>3. CASE k # n
    <3>1. k \in DOMAIN s /\ k \in 1 .. n - 1 /\ \A j \in 1 .. k - 1 : j \in 1 .. n - 1
      BY <1>2, <2>1, <2>3
    <3>2. (\A j \in 1..(k - 1) : s[j] < s[k]) \/ \E j \in 1..(k - 1) : s[j] = s[k]
      BY <3>1 DEF InOrderUpToReplay
    <3> HIDE DEF t
    <3> QED BY <1>2, <3>1, <3>2
  <2> QED BY <2>2, <2>3
<1>8. {t[j] : j \in DOMAIN t} = seen \cup {l.at}
  <2> HIDE DEF t
  <2>1. DOMAIN t = DOMAIN s \cup {n}
    BY <1>2
  <2> QED BY <1>2, <2>1
<1>9. Caught(l, seen \cup {l.at})
  <2> HIDE DEF seen
  <2>1. \A y \in seen \cup {l.at} : y <= l.to
    BY <1>3
  <2>2. ASSUME NEW x \in Low(l) .. l.to, NEW y \in seen \cup {l.at}, x < y
        PROVE  x \in seen \cup {l.at}
    <3>1. CASE y \in seen
      BY <1>4, <2>2, <3>1
    <3>2. CASE y = l.at
      <4>1. CASE l.tries < MaxRetries
        <5>1. x \in l.from + 1 .. l.at - 1
          BY <1>1, <2>2, <3>2, <4>1 DEF Low
        <5> QED BY <1>5, <4>1, <5>1
      <4>2. CASE ~(l.tries < MaxRetries)
        BY <1>1, <2>2, <3>2, <4>2 DEF Low
      <4> QED BY <4>1, <4>2
    <3> QED BY <3>1, <3>2
  <2> QED BY <1>5, <2>1, <2>2 DEF Caught
<1> QED BY <1>2, <1>7, <1>8, <1>9

\* What the table says of an asset the Signal Agent can take as it is.
LEMMA SeenType ==
  ASSUME TypeOK, NEW a \in Assets
  PROVE  Folded(a) \in Seq(Nat) /\ Seen(a) \in SUBSET Nat
<1>1. Folded(a) \in Seq(Nat)
  BY DEF TypeOK, Folded, Item
<1> QED BY <1>1 DEF Seen

\* A step that leaves the lane of an asset and its baselines alone.
LEMMA SameSignal ==
  ASSUME NEW a \in Assets, SignalInv(a), sLane'[a] = sLane[a], sPc'[a] = sPc[a],
         sState'[a] = sState[a], Folded(a)' = Folded(a), risks'[a] = risks[a]
  PROVE  SignalInv(a)'
<1>1. Seen(a)' = Seen(a)
  BY DEF Seen
<1> QED BY <1>1 DEF SignalInv

\* A step of the lane that folds and publishes nothing, and leaves the record.
LEMMA LaneGoesOn ==
  ASSUME NEW a \in Assets, SignalInv(a), Folded(a)' = Folded(a), risks'[a] = risks[a],
         LaneInv(sLane'[a]), Placed(sLane'[a], sPc'[a], InRecord), Caught(sLane'[a], Seen(a)),
         sPc'[a] \notin {"put", "emit"}
  PROVE  SignalInv(a)'
<1>1. Seen(a)' = Seen(a)
  BY DEF Seen
<1> QED BY <1>1 DEF SignalInv

LEMMA SLoadStep ==
  ASSUME TypeOK, replica = row, NEW a \in Assets, SignalInv(a), SLoad(a)
  PROVE  SignalInv(a)'
<1> DEFINE l == sLane[a]
<1>1. /\ sPc[a] = "load" /\ ~Processed(l) /\ l \in LaneType /\ l.at \in Nat /\ l.to \in Nat
      /\ UNCHANGED <<row, sLane, risks>>
  BY DEF SLoad, TypeOK, LaneType
<1>2. Busy(l) /\ l.at <= l.to
  BY <1>1 DEF SignalInv, Placed, LaneInv, Processed
<1>3. Folded(a)' = Folded(a) /\ Seen(a)' = Seen(a)
  BY <1>1 DEF Folded, Seen
<1>4. CASE row[a] # None /\ row[a].readings = None
  <2>1. sPc'[a] = "thrown"
    BY <1>4 DEF SLoad, Visible, TypeOK
  <2>2. Placed(l, "thrown", InRecord)
    BY <1>1, <1>2 DEF SignalInv, Placed
  <2> QED BY <1>1, <1>3, <2>1, <2>2, LaneGoesOn DEF SignalInv
<1>5. CASE row[a] = None \/ row[a].readings # None
  <2> DEFINE new == IF row[a] = None THEN [readings |-> <<l.at>>, diagnosedAt |-> None]
                    ELSE [row[a] EXCEPT !.readings = Append(@, l.at)]
  <2>1. sPc'[a] = "put" /\ sState'[a] = new
    <3>1. Visible(a) = {row[a]}
      BY DEF Visible
    <3>2. /\ sPc' = [sPc EXCEPT ![a] = "put"]
          /\ sState' = [sState EXCEPT ![a] = new]
      BY <1>5, <3>1 DEF SLoad
    <3> HIDE DEF new
    <3> QED BY <3>2 DEF TypeOK
  <2>2. new \in Item /\ new.readings = Append(Folded(a), l.at)
    <3>1. CASE row[a] = None
      BY <1>1, <3>1, ItemTypes DEF Folded
    <3>2. CASE row[a] # None /\ row[a].readings # None
      <4>1. row[a] \in Item
        BY <3>2 DEF TypeOK
      <4>2. new = [row[a] EXCEPT !.readings = Append(@, l.at)] /\ Folded(a) = row[a].readings
        BY <3>2 DEF Folded
      <4>3. new \in Item
        BY <1>1, <3>2, <4>1, <4>2, ItemTypes
      <4>4. new.readings = Append(row[a].readings, l.at)
        BY <4>1, <4>2 DEF Item
      <4> QED BY <4>2, <4>3, <4>4
    <3> QED BY <1>5, <3>1, <3>2
  <2>3. new # None
    BY <2>2, ItemAssumption
  <2>4. Placed(l, "put", InRecord)
    BY <1>1, <1>2 DEF SignalInv, Placed
  <2> HIDE DEF new
  <2> QED BY <1>1, <1>3, <2>1, <2>2, <2>3, <2>4 DEF SignalInv
<1> QED BY <1>4, <1>5

LEMMA SPutStep ==
  ASSUME TypeOK, NEW a \in Assets, SignalInv(a), SPut(a)
  PROVE  SignalInv(a)'
<1> DEFINE l == sLane[a]
           s == Folded(a)
           t == Append(s, l.at)
<1>1. /\ sPc[a] = "put" /\ sPc'[a] = "emit" /\ l \in LaneType /\ UNCHANGED <<sLane, risks>>
      /\ row'[a] = sState[a]
  BY DEF SPut, Store, TypeOK
<1>2. LaneInv(l) /\ Placed(l, "put", InRecord) /\ sState[a] # None /\ sState[a].readings = t
  BY <1>1 DEF SignalInv
<1>3. Busy(l) /\ l.at <= l.to
  BY <1>2 DEF Placed, InRecord
<1>4. /\ t \in Seq(Nat) /\ InOrderUpToReplay(t)
      /\ {t[j] : j \in DOMAIN t} = Seen(a) \cup {l.at}
      /\ Caught(l, Seen(a) \cup {l.at})
  <2>1. s \in Seq(Nat) /\ InOrderUpToReplay(s) /\ Caught(l, {s[j] : j \in DOMAIN s})
    BY DEF SignalInv, Seen
  <2> QED BY <1>1, <1>2, <1>3, <2>1, FoldInOrder DEF Seen
<1>5. Folded(a)' = t
  <2>1. t # None
    BY <1>4, ItemAssumption
  <2> QED BY <1>1, <1>2, <2>1 DEF Folded
<1>6. Seen(a)' = Seen(a) \cup {l.at}
  BY <1>4, <1>5 DEF Seen
<1>7. Placed(l, "emit", InRecord)
  BY <1>2, <1>3 DEF Placed
<1> HIDE DEF t, s
<1> QED BY <1>1, <1>2, <1>4, <1>5, <1>6, <1>7 DEF SignalInv

LEMMA SEmitStep ==
  ASSUME TypeOK, NEW a \in Assets, SignalInv(a), SEmit(a)
  PROVE  SignalInv(a)'
<1> DEFINE l == sLane[a]
           e == [reading |-> l.at, state |-> sRisk[a]]
<1>1. /\ sPc[a] = "emit" /\ sPc'[a] = "load" /\ l \in LaneType /\ row' = row
      /\ sLane'[a] = Advance(l)
      /\ risks'[a] = risks[a] \/ risks'[a] = Append(risks[a], e)
  BY DEF SEmit, TypeOK
<1>2. LaneInv(l) /\ Placed(l, "emit", InRecord) /\ l.at \in Seen(a) /\ Caught(l, Seen(a))
  BY <1>1 DEF SignalInv
<1>3. Busy(l) /\ l.at <= l.to
  BY <1>2 DEF Placed, InRecord
<1>4. Caught(Advance(l), Seen(a)) /\ LaneInv(Advance(l)) /\ Placed(Advance(l), "load", InRecord)
  BY <1>1, <1>2, <1>3, StillCaught, SeenType, LaneSteps DEF Placed, InRecord
<1>5. Folded(a)' = Folded(a) /\ Seen(a)' = Seen(a)
  BY <1>1 DEF Folded, Seen
<1>6. \A k \in DOMAIN risks'[a] : k > Len(Backlog) => risks'[a][k].reading \in Seen(a)
  <2>1. CASE risks'[a] = risks[a]
    BY <2>1 DEF SignalInv
  <2>2. CASE risks'[a] = Append(risks[a], e)
    <3>1. e.reading \in Seen(a)
      BY <1>2
    <3> HIDE DEF e
    <3>2. /\ DOMAIN Append(risks[a], e) = DOMAIN risks[a] \cup {Len(risks[a]) + 1}
          /\ Append(risks[a], e)[Len(risks[a]) + 1] = e
          /\ \A k \in DOMAIN risks[a] : Append(risks[a], e)[k] = risks[a][k]
      BY DEF TypeOK
    <3> QED BY <2>2, <3>1, <3>2 DEF SignalInv
  <2> QED BY <1>1, <2>1, <2>2
<1> HIDE DEF e
<1> QED BY <1>1, <1>4, <1>5, <1>6 DEF SignalInv

LEMMA SLaneStep ==
  ASSUME TypeOK, NEW a \in Assets, SignalInv(a), SFetch(a) \/ SCommit(a) \/ SFail(a)
  PROVE  SignalInv(a)'
<1> DEFINE l == sLane[a]
<1>1. l \in LaneType /\ l.from \in Nat /\ row' = row /\ risks' = risks
  BY DEF SFetch, SCommit, SFail, TypeOK, LaneType
<1>2. LaneInv(l) /\ Placed(l, sPc[a], InRecord) /\ Caught(l, Seen(a)) /\ Seen(a) \in SUBSET Nat
  BY SeenType DEF SignalInv
<1>3. Folded(a)' = Folded(a)
  BY <1>1 DEF Folded
<1>4. CASE SFetch(a)
  <2>1. PICK n \in 1 .. MaxBatch : sLane' = [sLane EXCEPT ![a] = Fetch(@, @.from + n)]
    BY <1>4 DEF SFetch
  <2>2. sLane'[a] = Fetch(l, l.from + n) /\ l.from + n \in Nat /\ l.from + n > l.from
    BY <1>1, <2>1, Numbers DEF TypeOK
  <2>3. sPc'[a] = "load" /\ ~Busy(l)
    BY <1>4 DEF SFetch, TypeOK
  <2>4. LaneInv(sLane'[a]) /\ Busy(sLane'[a])
    BY <1>1, <1>2, <2>2, LaneSteps
  <2>5. Caught(sLane'[a], Seen(a))
    <3>1. ~(l.from + n <= l.from)
      BY <1>1, <2>2
    <3> QED BY <1>1, <1>2, <2>2, <2>3, <3>1, StillCaught
  <2> QED BY <1>1, <1>3, <2>3, <2>4, <2>5, LaneGoesOn DEF Placed, InRecord
<1>5. CASE SCommit(a)
  <2>1. sLane'[a] = Checkpointed(l) /\ sPc'[a] = "idle"
    BY <1>5 DEF SCommit, TypeOK
  <2>2. LaneInv(sLane'[a]) /\ ~Busy(sLane'[a]) /\ Caught(sLane'[a], Seen(a))
    BY <1>1, <1>2, <2>1, LaneSteps, StillCaught
  <2> QED BY <1>1, <1>3, <2>1, <2>2, LaneGoesOn DEF Placed, InRecord
<1>6. CASE SFail(a)
  <2>1. PICK m \in AfterFailure(l, MaxRetries) :
          /\ sLane' = [sLane EXCEPT ![a] = m]
          /\ sPc' = [sPc EXCEPT ![a] = IF Busy(m) THEN "load" ELSE "idle"]
    BY <1>6 DEF SFail
  <2>2. sLane'[a] = m /\ sPc'[a] = (IF Busy(m) THEN "load" ELSE "idle") /\ Busy(l)
    BY <1>6, <2>1 DEF SFail, TypeOK
  <2>3. LaneInv(m) /\ Placed(m, sPc'[a], InRecord) /\ sPc'[a] \notin {"put", "emit"}
    BY <1>1, <1>2, <2>2, LaneSteps DEF Placed, InRecord
  <2>4. Caught(m, Seen(a))
    BY <1>1, <1>2, <2>2, StillCaught
  <2> QED BY <1>1, <1>3, <2>2, <2>3, <2>4, LaneGoesOn
<1> QED BY <1>4, <1>5, <1>6

\* The Diagnosis Agent writes its timestamp into the item that is there.
LEMMA TimestampKeepsFolded ==
  ASSUME TypeOK, LocalsSet, NEW a \in Assets, NEW b \in Assets, DUpdateTimestamp(b)
  PROVE  Folded(a)' = Folded(a)
<1>1. CASE a # b
  <2>1. row'[a] = row[a]
    BY <1>1 DEF DUpdateTimestamp, Store, TypeOK
  <2> QED BY <2>1 DEF Folded
<1>2. CASE a = b /\ row[a] = None
  <2>1. row'[a] = [readings |-> None, diagnosedAt |-> dStamp[a]]
    BY <1>2 DEF DUpdateTimestamp, Store, TypeOK
  <2>2. row'[a].readings = None
    BY <2>1
  <2> QED BY <1>2, <2>2 DEF Folded
<1>3. CASE a = b /\ row[a] # None
  <2>1. row'[a] = [row[a] EXCEPT !.diagnosedAt = dStamp[a]] /\ row[a] \in Item
    BY <1>3 DEF DUpdateTimestamp, Store, TypeOK
  <2>2. row'[a].readings = row[a].readings
    BY <2>1 DEF Item
  <2>3. row'[a] # None
    <3>1. dStamp[a] \in Nat
      BY <1>3 DEF DUpdateTimestamp, LocalsSet
    <3>2. row'[a] \in Item
      BY <2>1, <3>1, ItemTypes
    <3> QED BY <3>2, ItemAssumption
  <2> QED BY <1>3, <2>2, <2>3 DEF Folded
<1> QED BY <1>1, <1>2, <1>3

\* What the steps of the Signal Agent for another asset leave alone.
LEMMA OtherAsset ==
  ASSUME TypeOK, NEW a \in Assets, NEW b \in Assets, a # b, SFetch(b) \/ SWork(b) \/ SFail(b)
  PROVE  /\ sLane'[a] = sLane[a] /\ sPc'[a] = sPc[a] /\ sState'[a] = sState[a]
         /\ row'[a] = row[a] /\ risks'[a] = risks[a]
BY DEF SFetch, SWork, SFail, SLoad, SPut, SEmit, SCommit, Store, TypeOK

\* What everyone else leaves alone.
LEMMA NotTheSignalAgent ==
  ASSUME \/ \E b \in Assets : DFetch(b) \/ DWork(b) \/ DFail(b) \/ ResetBaseline(b) \/ Replicate(b)
         \/ Tick \/ UNCHANGED vars
  PROVE  UNCHANGED <<sLane, sPc, sState, sRisk, risks>>
BY DEF DFetch, DWork, DFail, DSkipNominal, DLoad, DSkipDebounced, DCallBedrock, DAnswer,
       DNoAnswer, DUpdateTimestamp, DEmit, DCommit, ResetBaseline, Replicate, Tick, vars, signal

LEMMA BaselinesStep ==
  ASSUME ~ReadLag, "reset" \notin Requests, BaselinesInv, LocalsSet, [Next]_vars
  PROVE  BaselinesInv' /\ LocalsSet'
<1>1. TypeOK /\ replica = row /\ \A a \in Assets : SignalInv(a)
  BY DEF BaselinesInv
<1>2. TypeOK' /\ LocalsSet'
  BY <1>1, TypeStep, LocalsStep
<1>3. replica' = row'
  <2>1. ASSUME NEW b \in Assets, SPut(b) \/ DUpdateTimestamp(b) \/ ResetBaseline(b) \/ Replicate(b)
        PROVE  replica' = row'
    BY <1>1, <2>1 DEF SPut, DUpdateTimestamp, ResetBaseline, Replicate, Store
  <2>2. ASSUME NEW b \in Assets,
               \/ SFetch(b) \/ SLoad(b) \/ SEmit(b) \/ SCommit(b) \/ SFail(b)
               \/ DFetch(b) \/ DFail(b) \/ DSkipNominal(b) \/ DLoad(b) \/ DSkipDebounced(b)
               \/ DCallBedrock(b) \/ DAnswer(b) \/ DNoAnswer(b) \/ DEmit(b) \/ DCommit(b)
        PROVE  replica' = row'
    BY <1>1, <2>2 DEF SFetch, SLoad, SEmit, SCommit, SFail, DFetch, DFail, DSkipNominal, DLoad,
         DSkipDebounced, DCallBedrock, DAnswer, DNoAnswer, DEmit, DCommit
  <2>3. CASE Tick \/ UNCHANGED vars
    BY <1>1, <2>3 DEF Tick, vars
  <2> QED BY <2>1, <2>2, <2>3 DEF Next, SWork, DWork
<1>4. ASSUME NEW a \in Assets PROVE SignalInv(a)'
  <2>1. ASSUME SFetch(a) \/ SWork(a) \/ SFail(a) PROVE SignalInv(a)'
    BY <1>1, <2>1, SLoadStep, SPutStep, SEmitStep, SLaneStep DEF SWork
  <2>2. ASSUME NEW b \in Assets, a # b, SFetch(b) \/ SWork(b) \/ SFail(b) PROVE SignalInv(a)'
    <3>1. /\ sLane'[a] = sLane[a] /\ sPc'[a] = sPc[a] /\ sState'[a] = sState[a]
          /\ row'[a] = row[a] /\ risks'[a] = risks[a]
      BY <1>1, <2>2, OtherAsset
    <3>2. Folded(a)' = Folded(a)
      BY <3>1 DEF Folded
    <3> QED BY <1>1, <3>1, <3>2, SameSignal
  <2>3. ASSUME \/ \E b \in Assets : DFetch(b) \/ DWork(b) \/ DFail(b) \/ Replicate(b)
               \/ Tick \/ UNCHANGED vars
        PROVE  SignalInv(a)'
    <3>1. UNCHANGED <<sLane, sPc, sState, risks>>
      BY <2>3, NotTheSignalAgent
    <3>2. Folded(a)' = Folded(a)
      <4>1. CASE \E b \in Assets : DUpdateTimestamp(b)
        BY <1>1, <4>1, TimestampKeepsFolded
      <4>2. CASE ~\E b \in Assets : DUpdateTimestamp(b)
        <5>1. row' = row
          BY <2>3, <4>2 DEF DFetch, DWork, DFail, DSkipNominal, DLoad, DSkipDebounced,
               DCallBedrock, DAnswer, DNoAnswer, DEmit, DCommit, Replicate, Tick, vars
        <5> QED BY <5>1 DEF Folded
      <4> QED BY <4>1, <4>2
    <3> QED BY <1>1, <3>1, <3>2, SameSignal
  <2>4. \A b \in Assets : ~ResetBaseline(b)
    BY DEF ResetBaseline
  <2> QED BY <2>1, <2>2, <2>3, <2>4 DEF Next
<1> QED BY <1>2, <1>3, <1>4 DEF BaselinesInv

LEMMA BaselinesInit == ASSUME Init PROVE BaselinesInv /\ LocalsSet
<1>1. TypeOK /\ LocalsSet /\ replica = row
  BY TypeInit DEF Init
<1>2. ASSUME NEW a \in Assets PROVE SignalInv(a)
  <2>1. row[a] = None /\ sLane[a] = NewLane /\ sPc[a] = "idle"
        /\ risks[a] = [k \in DOMAIN Backlog |-> [reading |-> 0, state |-> Backlog[k]]]
    BY DEF Init
  <2>2. Folded(a) = <<>> /\ Seen(a) = {}
    BY <2>1 DEF Folded, Seen
  <2>3. LaneInv(sLane[a]) /\ Placed(sLane[a], sPc[a], InRecord) /\ Caught(sLane[a], Seen(a))
    BY <2>1, <2>2, Numbers DEF NewLane, LaneInv, Placed, InRecord, Caught, Busy
  <2>4. \A k \in DOMAIN risks[a] : ~(k > Len(Backlog))
    <3>1. DOMAIN Backlog = 1 .. Len(Backlog) /\ Len(Backlog) \in Nat
      BY Numbers
    <3> QED BY <2>1, <3>1
  <2>5. Folded(a) \in Seq(Nat) /\ InOrderUpToReplay(Folded(a))
    BY <2>2 DEF InOrderUpToReplay
  <2> QED BY <2>1, <2>3, <2>4, <2>5 DEF SignalInv
<1> QED BY <1>1, <1>2 DEF BaselinesInv

LEMMA BaselinesAreInvariant ==
  ASSUME ~ReadLag, "reset" \notin Requests PROVE Spec => []BaselinesInv
<1>1. Init => BaselinesInv /\ LocalsSet
  BY BaselinesInit
<1>2. BaselinesInv /\ LocalsSet /\ [Next]_vars => (BaselinesInv /\ LocalsSet)'
  BY BaselinesStep
<1> QED BY <1>1, <1>2, PTL DEF Spec

-----------------------------------------------------------------------------
(* Complete items.                                                         *)

\* A write of a complete item.
LEMMA StoreComplete ==
  ASSUME TypeOK, NEW a \in Assets, NEW b \in Assets, NEW item \in Item,
         item.readings # None, Store(b, item),
         \A x \in Visible(a) : x # None => x.readings # None
  PROVE  /\ \A x \in Visible(a)' : x # None => x.readings # None
         /\ row[a] # None => row'[a] # None
         /\ a = b => row'[a] # None
<1>1. item # None
  BY ItemAssumption
<1>2. row'[a] = (IF a = b THEN item ELSE row[a])
  BY DEF TypeOK, Store
<1>3. replica'[a] \in {replica[a], item}
  BY DEF TypeOK, Store
<1> QED BY <1>1, <1>2, <1>3 DEF Visible

\* Everything that is neither a put of an item nor a read that throws it away.
LEMMA StillComplete ==
  ASSUME NEW a \in Assets, CompleteInv(a), row'[a] = row[a], replica'[a] \in Visible(a),
         risks'[a] # <<>> => risks[a] # <<>>,
         Len(risks[a]) <= Len(risks'[a]), Len(risks[a]) \in Nat, Len(risks'[a]) \in Nat,
         (sPc'[a] = sPc[a] /\ sState'[a] = sState[a]) \/ sPc'[a] \notin {"put", "emit"},
         LaneInv(dLane'[a]), Placed(dLane'[a], dPc'[a], Within),
         dLane[a] \in LaneType, dLane'[a] \in LaneType,
         dLane'[a].to <= dLane[a].to
  PROVE  CompleteInv(a)'
<1>1. \A x \in Visible(a)' : x # None => x.readings # None
  BY DEF CompleteInv, Visible
<1>2. dLane'[a].to <= Len(risks'[a])
  BY DEF CompleteInv, LaneType
<1> QED BY <1>1, <1>2 DEF CompleteInv

\* The lane of the Diagnosis Agent.
LEMMA DiagnosisLane ==
  ASSUME TypeOK, NEW a \in Assets, LaneInv(dLane[a]), Placed(dLane[a], dPc[a], Within),
         DFetch(a) \/ DWork(a) \/ DFail(a)
  PROVE  /\ LaneInv(dLane'[a]) /\ Placed(dLane'[a], dPc'[a], Within)
         /\ dLane'[a].to = dLane[a].to \/ dLane'[a].to <= Len(risks[a])
<1> DEFINE l == dLane[a]
<1>1. l \in LaneType /\ l.from \in Nat /\ l.to \in Nat /\ l.at \in Nat
  BY DEF TypeOK, LaneType
<1>2. CASE DFetch(a)
  <2>1. PICK n \in 1 .. MaxBatch :
          l.from + n <= Len(risks[a]) /\ dLane' = [dLane EXCEPT ![a] = Fetch(@, @.from + n)]
    BY <1>2 DEF DFetch
  <2>2. dLane'[a] = Fetch(l, l.from + n) /\ l.from + n \in Nat /\ l.from + n > l.from
    BY <1>1, <2>1, Numbers DEF TypeOK
  <2>3. dPc'[a] = "load"
    BY <1>2 DEF DFetch, TypeOK
  <2>4. dLane'[a].to = l.from + n
    BY <1>1, <2>2, LaneFields
  <2> QED BY <1>1, <2>1, <2>2, <2>3, <2>4, LaneSteps DEF Placed, Within
<1>3. CASE DSkipNominal(a) \/ DSkipDebounced(a) \/ DNoAnswer(a) \/ DEmit(a)
  <2>1. dLane'[a] = Advance(l) /\ dPc'[a] = "load"
    BY <1>3 DEF DSkipNominal, DSkipDebounced, DNoAnswer, DEmit, DLeave, TypeOK
  <2>2. /\ dPc[a] # "idle" /\ ~Processed(l)
        /\ dPc[a] \in Within \/ dPc[a] = "load"
    BY <1>1, <1>3 DEF DSkipNominal, DSkipDebounced, DNoAnswer, DEmit, Placed, Within, Processed
  <2>3. Busy(l) /\ l.at <= l.to
    BY <1>1, <2>2 DEF LaneInv, Placed, Processed
  <2> QED BY <1>1, <2>1, <2>3, LaneSteps, LaneFields DEF Placed, Within
<1>4. CASE DLoad(a) \/ DCallBedrock(a) \/ DAnswer(a) \/ DUpdateTimestamp(a)
  <2>1. dLane' = dLane /\ dPc'[a] \in Within /\ dPc[a] # "idle"
    BY <1>4 DEF DLoad, DCallBedrock, DAnswer, DUpdateTimestamp, TypeOK, Within
  <2>2. l.at <= l.to
    BY <1>1, <1>4 DEF DLoad, DCallBedrock, DAnswer, DUpdateTimestamp, LaneInv, Placed, Processed,
                      Within
  <2>3. dPc'[a] # "idle"
    BY <2>1 DEF Within
  <2> QED BY <2>1, <2>2, <2>3 DEF Placed
<1>5. CASE DCommit(a)
  <2>1. dLane'[a] = Checkpointed(l) /\ dPc'[a] = "idle"
    BY <1>5 DEF DCommit, TypeOK
  <2> QED BY <1>1, <2>1, LaneSteps, LaneFields DEF Placed, Within
<1>6. CASE DFail(a)
  <2>1. PICK m \in AfterFailure(l, MaxRetries) :
          /\ dLane' = [dLane EXCEPT ![a] = m]
          /\ dPc' = [dPc EXCEPT ![a] = IF Busy(m) THEN "load" ELSE "idle"]
    BY <1>6 DEF DFail
  <2>2. dLane'[a] = m /\ dPc'[a] = (IF Busy(m) THEN "load" ELSE "idle") /\ Busy(l)
    BY <1>6, <2>1 DEF DFail, TypeOK
  <2>3. m.to = l.to
    BY <1>1, <2>1, LaneFields
  <2> QED BY <1>1, <2>1, <2>2, <2>3, LaneSteps DEF Placed, Within
<1> QED BY <1>2, <1>3, <1>4, <1>5, <1>6 DEF DWork

LEMMA CompleteStep ==
  ASSUME "reset" \notin Requests, TypeOK, LocalsSet, TypeOK', NEW a \in Assets, CompleteInv(a),
         [Next]_vars
  PROVE  CompleteInv(a)'
<1>1. /\ dLane[a] \in LaneType /\ dLane[a].to \in Nat /\ dLane'[a] \in LaneType
      /\ Len(risks[a]) \in Nat /\ Len(risks'[a]) \in Nat
      /\ LaneInv(dLane[a]) /\ Placed(dLane[a], dPc[a], Within)
  <2>1. dLane[a] \in LaneType /\ dLane'[a] \in LaneType
    BY DEF TypeOK
  <2>2. Len(risks[a]) \in Nat /\ Len(risks'[a]) \in Nat
    BY DEF TypeOK
  <2> QED BY <2>1, <2>2 DEF LaneType, CompleteInv
<1>2. CASE UNCHANGED <<dLane, dPc, sPc, sState, row, risks>> /\ replica'[a] \in Visible(a)
  BY <1>1, <1>2, StillComplete
<1>3. CASE SLoad(a)
  <2>1. PICK item \in Visible(a) :
          \/ item # None /\ item.readings = None
          \/ /\ item # None => item.readings # None
             /\ sState' = [sState EXCEPT ![a] =
                  IF item = None
                    THEN [readings |-> <<sLane[a].at>>, diagnosedAt |-> None]
                    ELSE [item EXCEPT !.readings = Append(@, sLane[a].at)]]
             /\ sPc' = [sPc EXCEPT ![a] = "put"]
    BY <1>3 DEF SLoad
  <2>2. item # None => item.readings # None
    BY DEF CompleteInv
  <2>3. sPc'[a] = "put" /\ sState'[a] =
          (IF item = None THEN [readings |-> <<sLane[a].at>>, diagnosedAt |-> None]
           ELSE [item EXCEPT !.readings = Append(@, sLane[a].at)])
    BY <2>1, <2>2 DEF TypeOK
  <2>4. sLane[a].at \in Nat /\ item \in Item \cup {None}
    BY DEF TypeOK, LaneType, Visible
  <2>5. sState'[a] \in Item /\ sState'[a].readings # None
    <3>1. CASE item = None
      <4>1. <<sLane[a].at>> \in Seq(Nat)
        BY <2>4
      <4>2. sState'[a].readings = <<sLane[a].at>> /\ sState'[a] \in Item
        BY <2>3, <2>4, <3>1, ItemTypes
      <4> QED BY <4>1, <4>2, ItemAssumption
    <3>2. CASE item # None
      <4>1. item.readings \in Seq(Nat)
        BY <2>2, <2>4, <3>2 DEF Item
      <4>2. Append(item.readings, sLane[a].at) \in Seq(Nat)
        BY <2>4, <4>1
      <4>3. sState'[a].readings = Append(item.readings, sLane[a].at)
        BY <2>3, <2>4, <3>2 DEF Item
      <4>4. sState'[a] \in Item
        BY <2>2, <2>3, <2>4, <3>2, ItemTypes
      <4> QED BY <4>2, <4>3, <4>4, ItemAssumption
    <3> QED BY <3>1, <3>2
  <2>6. UNCHANGED <<row, replica, risks, dLane, dPc>>
    BY <1>3 DEF SLoad, diagnosis
  <2> QED BY <2>3, <2>5, <2>6, ItemAssumption DEF CompleteInv, Visible
<1>4. CASE SPut(a)
  <2>1. sState[a] \in Item /\ sState[a].readings # None /\ Store(a, sState[a])
    BY <1>4 DEF SPut, LocalsSet, CompleteInv
  <2>2. /\ \A x \in Visible(a)' : x # None => x.readings # None
        /\ row'[a] # None
    BY <2>1, StoreComplete DEF CompleteInv
  <2>3. sPc'[a] = "emit" /\ UNCHANGED <<risks, dLane, dPc>>
    BY <1>4 DEF SPut, diagnosis, TypeOK
  <2> QED BY <2>2, <2>3 DEF CompleteInv
<1>5. CASE SEmit(a)
  <2>1. /\ sPc[a] = "emit" /\ sPc'[a] = "load" /\ UNCHANGED <<row, replica, dLane, dPc>>
        /\ row[a] # None
    BY <1>5 DEF SEmit, diagnosis, TypeOK, CompleteInv
  <2>2. Len(risks[a]) <= Len(risks'[a])
    <3>1. CASE risks' = risks
      BY <1>1, <3>1
    <3>2. CASE risks' = [risks EXCEPT ![a] =
                 Append(@, [reading |-> sLane[a].at, state |-> sRisk[a]])]
      <4>1. risks'[a] = Append(risks[a], [reading |-> sLane[a].at, state |-> sRisk[a]])
        BY <3>2 DEF TypeOK
      <4> QED BY <1>1, <4>1 DEF TypeOK
    <3> QED BY <1>5, <3>1, <3>2 DEF SEmit
  <2>3. dLane'[a].to <= Len(risks'[a])
    BY <1>1, <2>1, <2>2 DEF CompleteInv
  <2> QED BY <2>1, <2>3 DEF CompleteInv, Visible
<1>6. CASE SFetch(a) \/ SCommit(a) \/ SFail(a)
  <2>1. UNCHANGED <<row, replica, risks, dLane, dPc>> /\ sPc'[a] \notin {"put", "emit"}
    BY <1>6 DEF SFetch, SCommit, SFail, diagnosis, TypeOK
  <2> QED BY <1>1, <2>1, StillComplete DEF Visible
<1>7. ASSUME DFetch(a) \/ DWork(a) \/ DFail(a), ~DUpdateTimestamp(a)
      PROVE  CompleteInv(a)'
  <2>1. UNCHANGED <<row, replica, risks, sPc, sState>>
    BY <1>7 DEF DFetch, DWork, DFail, DSkipNominal, DLoad, DSkipDebounced, DCallBedrock, DAnswer,
                DNoAnswer, DEmit, DCommit, signal
  <2>2. /\ LaneInv(dLane'[a]) /\ Placed(dLane'[a], dPc'[a], Within)
        /\ dLane'[a].to <= Len(risks'[a])
    BY <1>1, <1>7, <2>1, DiagnosisLane DEF CompleteInv
  <2> QED BY <2>1, <2>2 DEF CompleteInv, Visible
<1>8. ASSUME NEW b \in Assets, DUpdateTimestamp(b)
      PROVE  CompleteInv(a)'
  <2>1. /\ dPc[b] = "stamp" /\ UNCHANGED <<risks, sPc, sState, dLane>>
        /\ b # a => dPc'[a] = dPc[a]
    BY <1>8 DEF DUpdateTimestamp, signal, TypeOK
  <2>2. CASE b = a
    <3>1. dLane[a].at <= dLane[a].to /\ Busy(dLane[a]) /\ dLane[a].to > 0
      BY <1>1, <2>1, <2>2 DEF Placed, Within, Busy, LaneType
    <3>2. risks[a] # <<>>
      BY <1>1, <3>1 DEF CompleteInv
    <3>3. row[a] \in Item /\ row[a].readings # None /\ dStamp[a] \in Nat
      BY <2>1, <2>2, <3>2 DEF CompleteInv, Visible, TypeOK, LocalsSet
    <3>4. Store(a, [row[a] EXCEPT !.diagnosedAt = dStamp[a]])
      BY <1>8, <2>2, <3>2 DEF DUpdateTimestamp, CompleteInv
    <3>5. /\ [row[a] EXCEPT !.diagnosedAt = dStamp[a]] \in Item
          /\ [row[a] EXCEPT !.diagnosedAt = dStamp[a]].readings # None
      BY <3>3, ItemTypes DEF Item
    <3>6. /\ \A x \in Visible(a)' : x # None => x.readings # None
          /\ row'[a] # None
      BY <3>4, <3>5, StoreComplete DEF CompleteInv
    <3>7. LaneInv(dLane'[a]) /\ Placed(dLane'[a], dPc'[a], Within)
      BY <1>1, <1>8, <2>2, DiagnosisLane DEF DWork
    <3> QED BY <2>1, <3>6, <3>7 DEF CompleteInv
  <2>3. CASE b # a
    <3>1. row'[a] = row[a] /\ replica'[a] = replica[a]
      BY <1>8, <2>3 DEF DUpdateTimestamp, Store, TypeOK
    <3> QED BY <2>1, <2>3, <3>1 DEF CompleteInv, Visible
  <2> QED BY <2>2, <2>3
<1>9. ASSUME NEW b \in Assets, b # a,
             \/ SFetch(b) \/ SWork(b) \/ SFail(b) \/ DFetch(b) \/ DWork(b) \/ DFail(b)
             \/ Replicate(b),
             ~DUpdateTimestamp(b)
      PROVE  CompleteInv(a)'
  <2>1. /\ row'[a] = row[a] /\ replica'[a] = replica[a] /\ risks'[a] = risks[a]
        /\ sPc'[a] = sPc[a] /\ sState'[a] = sState[a]
    <3>1. CASE SFetch(b) \/ SWork(b) \/ SFail(b)
      BY <1>9, <3>1 DEF SFetch, SWork, SFail, SLoad, SPut, SEmit, SCommit, Store, TypeOK
    <3>2. CASE DFetch(b) \/ DWork(b) \/ DFail(b)
      BY <1>9, <3>2 DEF DFetch, DWork, DFail, DSkipNominal, DLoad, DSkipDebounced, DCallBedrock,
                        DAnswer, DNoAnswer, DEmit, DCommit, signal
    <3>3. CASE Replicate(b)
      BY <1>9, <3>3 DEF Replicate, signal, TypeOK
    <3> QED BY <1>9, <3>1, <3>2, <3>3
  <2>2. dLane'[a] = dLane[a] /\ dPc'[a] = dPc[a]
    <3>1. CASE SFetch(b) \/ SWork(b) \/ SFail(b) \/ Replicate(b)
      BY <3>1 DEF SFetch, SWork, SFail, SLoad, SPut, SEmit, SCommit, Replicate, diagnosis
    <3>2. CASE DFetch(b) \/ DWork(b) \/ DFail(b)
      BY <1>9, <3>2 DEF DFetch, DWork, DFail, DSkipNominal, DLoad, DSkipDebounced, DCallBedrock,
                        DAnswer, DNoAnswer, DEmit, DCommit, DLeave, TypeOK
    <3> QED BY <1>9, <3>1, <3>2
  <2> QED BY <2>1, <2>2 DEF CompleteInv, Visible
<1>10. Replicate(a) => /\ UNCHANGED <<dLane, dPc, sPc, sState, row, risks>>
                       /\ replica'[a] \in Visible(a)
  BY DEF Replicate, signal, diagnosis, Visible, TypeOK
<1>11. Tick \/ UNCHANGED vars => /\ UNCHANGED <<dLane, dPc, sPc, sState, row, risks>>
                                 /\ replica'[a] \in Visible(a)
  BY DEF Tick, vars, signal, diagnosis, Visible
<1>12. \A b \in Assets : ~ResetBaseline(b)
  BY DEF ResetBaseline
<1>13. ASSUME NEW b \in Assets,
              SFetch(b) \/ SWork(b) \/ SFail(b) \/ DFetch(b) \/ DWork(b) \/ DFail(b) \/ Replicate(b)
       PROVE  CompleteInv(a)'
  <2>1. CASE DUpdateTimestamp(b)
    BY <1>8, <2>1
  <2>2. CASE b # a /\ ~DUpdateTimestamp(b)
    BY <1>9, <1>13, <2>2
  <2>3. CASE b = a /\ ~DUpdateTimestamp(b)
    BY <1>2, <1>3, <1>4, <1>5, <1>6, <1>7, <1>10, <1>13, <2>3 DEF SWork
  <2> QED BY <2>1, <2>2, <2>3
<1> QED BY <1>2, <1>11, <1>12, <1>13 DEF Next

-----------------------------------------------------------------------------
(* Theorems.                                                               *)

\* The table, the streams, the lanes and the locals of the two agents are well
\* typed, with stale reads and resets.
THEOREM AssetStateTypeCorrect == Spec => []TypeOK
<1>1. Init => TypeOK /\ LocalsSet
  BY TypeInit
<1>2. TypeOK /\ LocalsSet /\ [Next]_vars => (TypeOK /\ LocalsSet)'
  BY TypeStep, LocalsStep
<1> QED BY <1>1, <1>2, PTL DEF Spec

\* However often batches fail, are bisected and are given up, and wherever the
\* Diagnosis Agent writes its timestamp in between: the baselines are folded in
\* stream order, and a reading that is folded again was folded before.
THEOREM FoldedInOrder ==
  ASSUME ~ReadLag, "reset" \notin Requests PROVE Spec => []BaselineInOrder
<1>1. BaselinesInv => BaselineInOrder
  BY DEF BaselinesInv, SignalInv, Folded, BaselineInOrder
<1> QED BY <1>1, BaselinesAreInvariant, PTL

\* A risk event is published only for a reading that is in the stored baselines,
\* and stays there: neither agent's write of the item loses one.
THEOREM RisksAreBacked ==
  ASSUME ~ReadLag, "reset" \notin Requests PROVE Spec => []RiskBackedByBaseline
<1>1. ASSUME BaselinesInv, NEW a \in Assets, NEW k \in DOMAIN risks[a], k > Len(Backlog)
      PROVE  /\ row[a] # None /\ row[a].readings # None
             /\ \E j \in DOMAIN row[a].readings : row[a].readings[j] = risks[a][k].reading
  <2>1. risks[a][k].reading \in Seen(a)
    BY <1>1 DEF BaselinesInv, SignalInv
  <2>2. PICK j \in DOMAIN Folded(a) : Folded(a)[j] = risks[a][k].reading
    BY <2>1 DEF Seen
  <2> QED BY <2>2 DEF Folded
<1>2. BaselinesInv => RiskBackedByBaseline
  BY <1>1 DEF RiskBackedByBaseline
<1> QED BY <1>2, BaselinesAreInvariant, PTL

\* Every item an agent can read has baselines, however stale the read, as long as
\* nobody resets them: the Signal Agent never throws over one, and updating the
\* timestamp creates none.
THEOREM ItemsAreComplete ==
  ASSUME "reset" \notin Requests, Backlog = <<>> PROVE Spec => []ItemsComplete
<1> DEFINE Inv == TypeOK /\ LocalsSet /\ \A a \in Assets : CompleteInv(a)
<1>1. Init => Inv
  <2>1. ASSUME Init, NEW a \in Assets PROVE CompleteInv(a)
    <3>1. /\ row[a] = None /\ replica[a] = None /\ sPc[a] = "idle" /\ dPc[a] = "idle"
          /\ dLane[a] = NewLane
      BY <2>1 DEF Init
    <3>2. risks[a] = <<>>
      BY <2>1 DEF Init
    <3>3. LaneInv(dLane[a]) /\ Placed(dLane[a], dPc[a], Within) /\ dLane[a].to = 0
      BY <3>1, Numbers DEF NewLane, LaneInv, Placed, Within, Busy
    <3> QED BY <3>1, <3>2, <3>3 DEF CompleteInv, Visible
  <2> QED BY <2>1, TypeInit
<1>2. Inv /\ [Next]_vars => Inv'
  BY TypeStep, LocalsStep, CompleteStep
<1>3. Inv => ItemsComplete
  BY DEF CompleteInv, Visible, ItemsComplete
<1> HIDE DEF Inv
<1> QED BY <1>1, <1>2, <1>3, PTL DEF Spec

\* The bound on the calls is kept by every step.
LEMMA CallsAreInvariant == Spec => [](TypeOK /\ LocalsSet /\ \A a \in Assets : CallsInv(a))
<1> DEFINE Inv == TypeOK /\ LocalsSet /\ \A a \in Assets : CallsInv(a)
<1>1. Init => Inv
  <2>1. ASSUME Init, NEW a \in Assets PROVE CallsInv(a)
    <3>1. dLane[a] = NewLane /\ dPc[a] = "idle" /\ calls[a] = <<>>
      BY <2>1 DEF Init
    <3>2. LaneInv(dLane[a]) /\ Placed(dLane[a], dPc[a], Within)
      BY <3>1, Numbers DEF NewLane, LaneInv, Placed, Within, Busy
    <3>3. \A k \in Nat : CallsFor(a, k) = {} /\ Cardinality(CallsFor(a, k)) = 0
      BY <3>1, FS_EmptySet DEF CallsFor
    <3>4. \A k \in Nat : 0 <= Spent(dLane[a], k)
      BY <3>1, Numbers DEF NewLane, Spent, Busy
    <3> QED BY <3>1, <3>2, <3>3, <3>4 DEF CallsInv, Called
  <2> QED BY <2>1, TypeInit
<1>2. Inv /\ [Next]_vars => Inv'
  BY TypeStep, LocalsStep, CallsStep
<1> HIDE DEF Inv
<1>3. Spec => []Inv
  BY <1>1, <1>2, PTL DEF Spec
<1> QED BY <1>3 DEF Inv

\* A risk event costs at most one call of Bedrock per delivery of its batch,
\* though reads are stale, baselines are reset and the debounce does not hold.
THEOREM CallsAreBounded == Spec => []BedrockCallsBounded
<1> DEFINE Inv == TypeOK /\ LocalsSet /\ \A a \in Assets : CallsInv(a)
<1>1. Inv => BedrockCallsBounded
  <2>1. SUFFICES ASSUME Inv, NEW a \in Assets, NEW k \in DOMAIN risks[a]
                 PROVE  Cardinality(CallsFor(a, k)) <= MaxRetries + 1
    BY DEF BedrockCallsBounded, CallsFor
  <2>2. k \in Nat
    BY <2>1 DEF TypeOK
  <2> DEFINE l == dLane[a]
  <2>3. /\ l \in LaneType /\ LaneInv(l) /\ Placed(l, dPc[a], Within)
        /\ l.tries \in Nat /\ l.tries <= MaxRetries /\ l.from \in Nat /\ l.at \in Nat
    BY <2>1 DEF TypeOK, CallsInv, LaneType, LaneInv
  <2>4. Cardinality(CallsFor(a, k)) \in Nat
    BY <2>1, <2>2, CallsFinite
  <2>5. CASE k = l.at /\ dPc[a] \in Called
    <3>1. Cardinality(CallsFor(a, k)) <= Spent(l, k) + 1
      BY <2>1, <2>2, <2>5 DEF CallsInv
    <3>2. Busy(l) /\ l.from + 1 <= l.at /\ l.at <= l.to
      BY <2>3, <2>5 DEF Placed, LaneInv, Within, Called
    <3>3. Spent(l, k) = l.tries
      <4>1. l.to \in Nat
        BY <2>3 DEF LaneType
      <4> QED BY <2>2, <2>3, <2>5, <3>2, <4>1 DEF Spent
    <3> QED BY <2>3, <2>4, <3>1, <3>3, Numbers
  <2>6. CASE ~(k = l.at /\ dPc[a] \in Called)
    <3>1. Cardinality(CallsFor(a, k)) <= Spent(l, k)
      BY <2>1, <2>2, <2>6 DEF CallsInv
    <3>2. Spent(l, k) \in Nat /\ Spent(l, k) <= MaxRetries + 1
      BY <2>2, <2>3, SpentGrows
    <3> QED BY <2>4, <3>1, <3>2, Numbers
  <2> QED BY <2>5, <2>6
<1>2. Spec => []Inv
  BY CallsAreInvariant
<1> HIDE DEF Inv
<1> QED BY <1>1, <1>2, PTL

\* The bound on the folds is kept by every step.
LEMMA FoldsAreInvariant == Spec => [](TypeOK /\ LocalsSet /\ \A a \in Assets : FoldsInv(a))
<1> DEFINE Inv == TypeOK /\ LocalsSet /\ \A a \in Assets : FoldsInv(a)
<1>1. Init => Inv
  <2>1. ASSUME Init, NEW a \in Assets PROVE FoldsInv(a)
    <3>1. sLane[a] = NewLane /\ sPc[a] = "idle" /\ Copies(a) = {None}
      BY <2>1 DEF Init, Copies
    <3>2. LaneInv(sLane[a]) /\ Placed(sLane[a], sPc[a], InRecord)
      BY <3>1, Numbers DEF NewLane, LaneInv, Placed, InRecord, Busy
    <3>3. \A k \in Nat : Cardinality(Places(None, k)) = 0
      BY FS_EmptySet DEF Places
    <3>4. \A k \in Nat : 0 <= FoldsAt(a, k)
      BY <3>1, Numbers DEF NewLane, FoldsAt, Spent, Busy
    <3> QED BY <3>1, <3>2, <3>3, <3>4 DEF FoldsInv
  <2> QED BY <2>1, TypeInit
<1>2. Inv /\ [Next]_vars => Inv'
  BY TypeStep, LocalsStep, FoldsStep
<1> HIDE DEF Inv
<1>3. Spec => []Inv
  BY <1>1, <1>2, PTL DEF Spec
<1> QED BY <1>3 DEF Inv

\* A reading counts in the baselines at most once per delivery of its batch, though
\* reads are stale, baselines are reset in between and each of two agents puts back
\* what the other wrote.
THEOREM FoldsAreBounded == Spec => []FoldsBounded
<1> DEFINE Inv == TypeOK /\ LocalsSet /\ \A a \in Assets : FoldsInv(a)
<1>1. Inv => FoldsBounded
  <2>1. SUFFICES ASSUME Inv, NEW a \in Assets, NEW r \in 1 .. MaxReadings
                 PROVE  Cardinality(Places(row[a], r)) <= MaxRetries + 1
    BY DEF FoldsBounded
  <2> DEFINE l == sLane[a]
  <2>2. /\ r \in Nat /\ l \in LaneType /\ LaneInv(l) /\ Placed(l, sPc[a], InRecord)
        /\ row[a] \in Item \cup {None}
    BY <2>1, Numbers DEF TypeOK, FoldsInv
  <2>3. Cardinality(Places(row[a], r)) \in Nat /\ Cardinality(Places(row[a], r)) <= FoldsAt(a, r)
    BY <2>1, <2>2, PlacesFinite DEF FoldsInv, Copies
  <2>4. Spent(l, r) \in Nat /\ Spent(l, r) <= MaxRetries + 1
    BY <2>2, SpentGrows
  <2>5. FoldsAt(a, r) \in Nat /\ FoldsAt(a, r) <= MaxRetries + 1
    <3>1. CASE r = l.at /\ sPc[a] \in {"put", "emit"}
      <4>1. /\ l.from \in Nat /\ l.to \in Nat /\ l.at \in Nat /\ l.tries \in Nat
            /\ l.tries <= MaxRetries
        BY <2>2 DEF LaneType, LaneInv
      <4>2. Busy(l) /\ l.from + 1 <= l.at /\ l.at <= l.to
        BY <2>2, <3>1 DEF Placed, LaneInv, InRecord
      <4>3. Spent(l, r) = l.tries
        BY <3>1, <4>1, <4>2 DEF Spent
      <4> QED BY <3>1, <4>1, <4>3, Numbers DEF FoldsAt
    <3>2. CASE ~(r = l.at /\ sPc[a] \in {"put", "emit"})
      BY <2>4, <3>2 DEF FoldsAt
    <3> QED BY <3>1, <3>2
  <2> QED BY <2>3, <2>5, Numbers
<1>2. Spec => []Inv
  BY FoldsAreInvariant
<1> HIDE DEF Inv
<1> QED BY <1>1, <1>2, PTL

-----------------------------------------------------------------------------
(* The lanes get shorter.                                                  *)

\* One factor less is one summand less.
LEMMA FactorFewer ==
  ASSUME NEW k \in Nat, NEW x \in Nat, NEW y \in Nat, x < y
  PROVE  k * x \in Nat /\ k * y \in Nat /\ k * x + k <= k * y
<1> DEFINE d == y - x - 1
<1>1. d \in Nat /\ y = x + 1 + d
  OBVIOUS
<1> HIDE DEF d
<1>2. k * (x + 1 + d) = k * x + k + k * d
  BY <1>1
<1>3. \A m, n \in Nat : m * n \in Nat
  OBVIOUS
<1>4. k * x \in Nat /\ k * y \in Nat /\ k * d \in Nat
  BY <1>1, <1>3
<1> QED BY <1>1, <1>2, <1>4

\* What may become of a busy lane, each with fewer steps left.
LEMMA FewerSteps ==
  ASSUME NEW l \in LaneType, LaneInv(l), Busy(l), NEW k \in Nat \ {0}, NEW taken \in 0 .. k - 1,
         taken = 0 \/ l.at <= l.to
  PROVE  /\ StepsOf(l, k, taken) \in Nat /\ 0 < StepsOf(l, k, taken)
         /\ \A more \in taken + 1 .. k - 1 : l.at <= l.to =>
              StepsOf(l, k, more) \in Nat /\ StepsOf(l, k, more) < StepsOf(l, k, taken)
         /\ \A m \in LaneType :
              /\ LaneInv(m)
              /\ \/ m = Advance(l) /\ l.at <= l.to
                 \/ m = Checkpointed(l)
                 \/ m \in AfterFailure(l, MaxRetries)
              => StepsOf(m, k, 0) \in Nat /\ StepsOf(m, k, 0) < StepsOf(l, k, taken)
<1> DEFINE attempt == k * (l.to - l.from) + 1
           retries == (MaxRetries - l.tries) * attempt
           rest == k * (l.to + 1 - l.at)
<1>1. /\ l.from \in Nat /\ l.to \in Nat /\ l.at \in Nat /\ l.tries \in Nat /\ MaxRetries \in Nat
      /\ l.from < l.to /\ l.tries <= MaxRetries /\ l.from + 1 <= l.at /\ l.at <= l.to + 1
  BY Numbers DEF LaneType, LaneInv, Busy
<1>2. \A x, y \in Nat : x * y \in Nat
  OBVIOUS
<1>3. l.to - l.from \in Nat /\ MaxRetries - l.tries \in Nat /\ l.to + 1 - l.at \in Nat
  BY <1>1
<1>4. attempt \in Nat /\ retries \in Nat /\ rest \in Nat /\ k \in Nat /\ taken \in Nat
  <2>1. k \in Nat /\ attempt \in Nat /\ rest \in Nat /\ taken \in Nat
    BY <1>2, <1>3
  <2> HIDE DEF attempt
  <2> QED BY <1>2, <1>3, <2>1
<1>5. l.at <= l.to => k * (l.to + 1 - (l.at + 1)) \in Nat /\ k * (l.to + 1 - (l.at + 1)) + k <= rest
  <2>1. ASSUME l.at <= l.to
        PROVE  /\ l.to + 1 - (l.at + 1) \in Nat /\ l.to + 1 - l.at \in Nat
               /\ l.to + 1 - (l.at + 1) < l.to + 1 - l.at
    BY <1>1, <2>1
  <2> QED BY <1>4, <2>1, FactorFewer
<1>6. StepsOf(l, k, taken) = retries + (rest - taken) + 1
  BY DEF StepsOf
<1>7. rest - taken \in Nat
  <2>1. CASE taken = 0
    BY <1>4, <2>1
  <2>2. CASE l.at <= l.to
    <3> DEFINE r == k * (l.to + 1 - (l.at + 1))
    <3>1. r \in Nat /\ r + k <= rest
      BY <1>5, <2>2
    <3>2. taken < k
      BY <1>4
    <3> HIDE DEF r, rest
    <3> QED BY <1>4, <3>1, <3>2
  <2> QED BY <2>1, <2>2
<1>8. StepsOf(l, k, taken) \in Nat /\ 0 < StepsOf(l, k, taken)
  <2> HIDE DEF retries, rest
  <2> QED BY <1>4, <1>6, <1>7
<1>9. ASSUME NEW more \in taken + 1 .. k - 1, l.at <= l.to
      PROVE  StepsOf(l, k, more) \in Nat /\ StepsOf(l, k, more) < StepsOf(l, k, taken)
  <2>1. StepsOf(l, k, more) = retries + (rest - more) + 1
    BY DEF StepsOf
  <2> DEFINE r == k * (l.to + 1 - (l.at + 1))
  <2>2. r \in Nat /\ r + k <= rest
    BY <1>5, <1>9
  <2>3. more \in Nat /\ more < k /\ taken < more
    BY <1>4
  <2> HIDE DEF retries, rest, r
  <2> QED BY <1>4, <1>6, <2>1, <2>2, <2>3
<1>10. ASSUME NEW m \in LaneType, LaneInv(m), m = Advance(l), l.at <= l.to
       PROVE  StepsOf(m, k, 0) \in Nat /\ StepsOf(m, k, 0) < StepsOf(l, k, taken)
  <2> DEFINE r == k * (l.to + 1 - (l.at + 1))
  <2>1. r \in Nat /\ r + k <= rest
    BY <1>5, <1>10
  <2>2. m.from = l.from /\ m.to = l.to /\ m.at = l.at + 1 /\ m.tries = l.tries
    BY <1>10, LaneFields
  <2>3. StepsOf(m, k, 0) = retries + (r - 0) + 1
    BY <2>2 DEF StepsOf, Busy
  <2>4. taken < k
    BY <1>4
  <2> HIDE DEF retries, rest, r
  <2> QED BY <1>4, <1>6, <2>1, <2>3, <2>4
<1>11. ASSUME NEW m \in LaneType, m = Checkpointed(l)
       PROVE  StepsOf(m, k, 0) \in Nat /\ StepsOf(m, k, 0) < StepsOf(l, k, taken)
  <2>1. StepsOf(m, k, 0) = 0
    BY <1>1, <1>11, LaneSteps DEF StepsOf
  <2> QED BY <1>8, <2>1
<1>12. ASSUME NEW m \in LaneType, l.tries < MaxRetries,
              m.from = l.from, m.to = l.to, m.at = l.from + 1, m.tries = l.tries + 1
       PROVE  StepsOf(m, k, 0) \in Nat /\ StepsOf(m, k, 0) < StepsOf(l, k, taken)
  <2> DEFINE fewer == (MaxRetries - (l.tries + 1)) * attempt
             records == k * (l.to - l.from)
  <2>1. fewer \in Nat /\ fewer + attempt = retries
    <3>1. MaxRetries - (l.tries + 1) \in Nat
      BY <1>1, <1>12
    <3>2. MaxRetries - l.tries = (MaxRetries - (l.tries + 1)) + 1
      BY <1>1
    <3>3. \A x, y \in Nat : (x + 1) * y = x * y + y
      OBVIOUS
    <3> HIDE DEF attempt
    <3>4. ((MaxRetries - (l.tries + 1)) + 1) * attempt = fewer + attempt
      BY <1>4, <3>1, <3>3
    <3> QED BY <1>2, <1>4, <3>1, <3>2, <3>4
  <2>2. StepsOf(m, k, 0) = fewer + (records - 0) + 1
    <3>1. l.to + 1 - (l.from + 1) = l.to - l.from
      BY <1>1
    <3>2. Busy(m)
      BY <1>1, <1>12 DEF Busy
    <3>3. StepsOf(m, k, 0) = (MaxRetries - (l.tries + 1)) * (k * (l.to - l.from) + 1)
                               + (k * (l.to + 1 - (l.from + 1)) - 0) + 1
      BY <1>12, <3>2 DEF StepsOf
    <3> QED BY <3>1, <3>3
  <2>3. records \in Nat /\ attempt = records + 1
    BY <1>2, <1>3
  <2> HIDE DEF fewer, records, attempt, retries, rest
  <2> QED BY <1>4, <1>6, <1>7, <2>1, <2>2, <2>3
<1>13. ASSUME NEW m \in LaneType, LaneInv(m),
              \/ m = Advance(l) /\ l.at <= l.to
              \/ m = Checkpointed(l)
              \/ m \in AfterFailure(l, MaxRetries)
       PROVE  StepsOf(m, k, 0) \in Nat /\ StepsOf(m, k, 0) < StepsOf(l, k, taken)
  <2>1. CASE m = Advance(l) /\ l.at <= l.to
    BY <1>10, <1>13, <2>1
  <2>2. CASE m = Checkpointed(l)
    BY <1>11, <2>2
  <2>3. CASE m \in AfterFailure(l, MaxRetries)
    <3>1. \/ /\ l.tries < MaxRetries
             /\ m.from = l.from /\ m.to = l.to /\ m.at = l.from + 1 /\ m.tries = l.tries + 1
          \/ m = Checkpointed(l)
          \/ m = Advance(l) /\ l.at < l.to
      BY <2>3, LaneFields
    <3>2. CASE m = Advance(l) /\ l.at < l.to
      BY <1>1, <1>10, <1>13, <3>2
    <3> QED BY <1>11, <1>12, <3>1, <3>2
  <2> QED BY <1>13, <2>1, <2>2, <2>3
<1> QED BY <1>8, <1>9, <1>13

\* The steps of the Signal Agent.
LEMMA SignalShrinks ==
  ASSUME TypeOK, NEW a \in Assets, FoldsInv(a), SWork(a) \/ SFail(a)
  PROVE  SLeft(a)' \in Nat /\ SLeft(a)' < SLeft(a)
<1> DEFINE l == sLane[a]
           taken == STaken(sPc[a])
<1>1. /\ l \in LaneType /\ LaneInv(l) /\ Placed(l, sPc[a], InRecord)
      /\ sPc[a] \in {"idle", "load", "thrown", "put", "emit"}
      /\ AfterFailure(l, MaxRetries) \subseteq LaneType
  BY LaneTypes DEF TypeOK, FoldsInv
<1>2. /\ SLeft(a) = StepsOf(l, 3, taken)
      /\ SLeft(a)' = StepsOf(sLane'[a], 3, STaken(sPc'[a]))
  BY DEF SLeft, StepsOf
<1>3. Busy(l) /\ sPc[a] # "idle"
  <2>1. Busy(l) \/ sPc[a] # "idle"
    BY DEF SWork, SLoad, SPut, SEmit, SCommit, SFail, Processed
  <2> QED BY <1>1, <2>1 DEF Placed
<1>4. /\ taken \in 0 .. 3 - 1 /\ (taken = 0 \/ l.at <= l.to)
      /\ STaken("load") = 0 /\ STaken("thrown") = 1 /\ STaken("put") = 1 /\ STaken("emit") = 2
  <2>1. STaken("load") = 0 /\ STaken("thrown") = 1 /\ STaken("put") = 1 /\ STaken("emit") = 2
    BY DEF STaken
  <2> QED BY <1>1, <1>3, <2>1 DEF Placed, InRecord
<1>5. \A m \in LaneType :
        /\ LaneInv(m)
        /\ \/ m = Advance(l) /\ l.at <= l.to
           \/ m = Checkpointed(l)
           \/ m \in AfterFailure(l, MaxRetries)
        => StepsOf(m, 3, 0) \in Nat /\ StepsOf(m, 3, 0) < StepsOf(l, 3, taken)
  BY <1>1, <1>3, <1>4, FewerSteps
<1>6. \A more \in taken + 1 .. 3 - 1 : l.at <= l.to =>
        StepsOf(l, 3, more) \in Nat /\ StepsOf(l, 3, more) < StepsOf(l, 3, taken)
  BY <1>1, <1>3, <1>4, FewerSteps
<1> HIDE DEF taken
<1>7. CASE SLoad(a)
  <2>1. sLane'[a] = l /\ sPc[a] = "load" /\ sPc'[a] \in {"thrown", "put"} /\ ~Processed(l)
    BY <1>7 DEF SLoad, TypeOK
  <2>2. l.at <= l.to
    BY <1>1, <1>3, <2>1 DEF LaneInv, Processed, LaneType
  <2>3. taken = 0 /\ STaken(sPc'[a]) = 1
    BY <1>4, <2>1 DEF taken
  <2>4. STaken(sPc'[a]) \in taken + 1 .. 3 - 1
    BY <2>3
  <2> QED BY <1>2, <1>6, <2>1, <2>2, <2>4
<1>8. CASE SPut(a)
  <2>1. sLane'[a] = l /\ sPc[a] = "put" /\ sPc'[a] = "emit"
    BY <1>8 DEF SPut, TypeOK
  <2>2. l.at <= l.to
    BY <1>1, <2>1 DEF Placed, InRecord
  <2>3. STaken(sPc'[a]) \in taken + 1 .. 3 - 1
    BY <1>4, <2>1 DEF taken
  <2> QED BY <1>2, <1>6, <2>1, <2>2, <2>3
<1>9. CASE SEmit(a)
  <2>1. sLane'[a] = Advance(l) /\ sPc[a] = "emit" /\ sPc'[a] = "load"
    BY <1>9 DEF SEmit, TypeOK
  <2>2. l.at <= l.to
    BY <1>1, <2>1 DEF Placed, InRecord
  <2>3. Advance(l) \in LaneType /\ LaneInv(Advance(l))
    BY <1>1, <1>3, <2>2, LaneTypes, LaneSteps
  <2> QED BY <1>2, <1>4, <1>5, <2>1, <2>2, <2>3
<1>10. CASE SCommit(a)
  <2>1. sLane'[a] = Checkpointed(l)
    BY <1>10 DEF SCommit, TypeOK
  <2>2. Checkpointed(l) \in LaneType /\ LaneInv(Checkpointed(l)) /\ ~Busy(Checkpointed(l))
    BY <1>1, LaneTypes, LaneSteps
  <2>3. SLeft(a)' = StepsOf(Checkpointed(l), 3, 0)
    BY <1>2, <2>1, <2>2 DEF StepsOf
  <2> QED BY <1>2, <1>5, <2>2, <2>3
<1>11. CASE SFail(a)
  <2>1. PICK m \in AfterFailure(l, MaxRetries) :
          /\ sLane' = [sLane EXCEPT ![a] = m]
          /\ sPc' = [sPc EXCEPT ![a] = IF Busy(m) THEN "load" ELSE "idle"]
    BY <1>11 DEF SFail
  <2>2. sLane'[a] = m /\ sPc'[a] = (IF Busy(m) THEN "load" ELSE "idle")
    BY <2>1 DEF TypeOK
  <2>3. m \in LaneType /\ LaneInv(m)
    BY <1>1, <1>3, LaneSteps
  <2>4. SLeft(a)' = StepsOf(m, 3, 0)
    BY <1>2, <1>4, <2>2 DEF StepsOf
  <2> QED BY <1>2, <1>5, <2>1, <2>3, <2>4
<1> QED BY <1>7, <1>8, <1>9, <1>10, <1>11 DEF SWork

\* The steps of the Diagnosis Agent.
LEMMA DiagnosisShrinks ==
  ASSUME TypeOK, NEW a \in Assets, CallsInv(a), DWork(a) \/ DFail(a)
  PROVE  DLeft(a)' \in Nat /\ DLeft(a)' < DLeft(a)
<1> DEFINE l == dLane[a]
           taken == DTaken(dPc[a])
<1>1. /\ l \in LaneType /\ LaneInv(l) /\ Placed(l, dPc[a], Within)
      /\ dPc[a] \in {"idle", "load", "check", "bedrock", "stamp", "emit"}
      /\ AfterFailure(l, MaxRetries) \subseteq LaneType
  BY LaneTypes DEF TypeOK, CallsInv
<1>2. /\ DLeft(a) = StepsOf(l, 5, taken)
      /\ DLeft(a)' = StepsOf(dLane'[a], 5, DTaken(dPc'[a]))
  BY DEF DLeft, StepsOf
<1>3. Busy(l) /\ dPc[a] # "idle"
  <2>1. Busy(l) \/ dPc[a] # "idle"
    BY DEF DWork, DSkipNominal, DLoad, DSkipDebounced, DCallBedrock, DAnswer, DNoAnswer,
           DUpdateTimestamp, DEmit, DCommit, DFail, Processed
  <2> QED BY <1>1, <2>1 DEF Placed
<1>4. /\ DTaken("load") = 0 /\ DTaken("check") = 1 /\ DTaken("bedrock") = 2
      /\ DTaken("stamp") = 3 /\ DTaken("emit") = 4
  BY DEF DTaken
<1>5. taken \in 0 .. 5 - 1 /\ (taken = 0 \/ l.at <= l.to)
  BY <1>1, <1>3, <1>4 DEF Placed, Within
<1>6. \A m \in LaneType :
        /\ LaneInv(m)
        /\ \/ m = Advance(l) /\ l.at <= l.to
           \/ m = Checkpointed(l)
           \/ m \in AfterFailure(l, MaxRetries)
        => StepsOf(m, 5, 0) \in Nat /\ StepsOf(m, 5, 0) < StepsOf(l, 5, taken)
  BY <1>1, <1>3, <1>5, FewerSteps
<1>7. \A more \in taken + 1 .. 5 - 1 : l.at <= l.to =>
        StepsOf(l, 5, more) \in Nat /\ StepsOf(l, 5, more) < StepsOf(l, 5, taken)
  BY <1>1, <1>3, <1>5, FewerSteps
<1>8. ~Processed(l) => l.at <= l.to
  BY <1>1, <1>3 DEF LaneInv, Processed, LaneType
<1> HIDE DEF taken
<1>9. CASE DSkipNominal(a) \/ DSkipDebounced(a) \/ DNoAnswer(a) \/ DEmit(a)
  <2>1. dLane'[a] = Advance(l) /\ dPc'[a] = "load"
    BY <1>9 DEF DSkipNominal, DSkipDebounced, DNoAnswer, DEmit, DLeave, TypeOK
  <2>2. l.at <= l.to
    BY <1>1, <1>8, <1>9 DEF DSkipNominal, DSkipDebounced, DNoAnswer, DEmit, Placed, Within
  <2>3. Advance(l) \in LaneType /\ LaneInv(Advance(l))
    BY <1>1, <1>3, <2>2, LaneTypes, LaneSteps
  <2> QED BY <1>2, <1>4, <1>6, <2>1, <2>2, <2>3
<1>10. CASE DLoad(a) \/ DCallBedrock(a) \/ DAnswer(a) \/ DUpdateTimestamp(a)
  <2>1. /\ dLane'[a] = l
        /\ \/ dPc[a] = "load" /\ dPc'[a] = "check"
           \/ dPc[a] = "check" /\ dPc'[a] = "bedrock"
           \/ dPc[a] = "bedrock" /\ dPc'[a] = "stamp"
           \/ dPc[a] = "stamp" /\ dPc'[a] = "emit"
    BY <1>10 DEF DLoad, DCallBedrock, DAnswer, DUpdateTimestamp, TypeOK
  <2>2. l.at <= l.to
    BY <1>1, <1>8, <1>10 DEF DLoad, DCallBedrock, DAnswer, DUpdateTimestamp, Placed, Within
  <2>3. DTaken(dPc'[a]) \in taken + 1 .. 5 - 1
    BY <1>4, <2>1 DEF taken
  <2> QED BY <1>2, <1>7, <2>1, <2>2, <2>3
<1>11. CASE DCommit(a)
  <2>1. dLane'[a] = Checkpointed(l)
    BY <1>11 DEF DCommit, TypeOK
  <2>2. Checkpointed(l) \in LaneType /\ LaneInv(Checkpointed(l)) /\ ~Busy(Checkpointed(l))
    BY <1>1, LaneTypes, LaneSteps
  <2>3. DLeft(a)' = StepsOf(Checkpointed(l), 5, 0)
    BY <1>2, <2>1, <2>2 DEF StepsOf
  <2> QED BY <1>2, <1>6, <2>2, <2>3
<1>12. CASE DFail(a)
  <2>1. PICK m \in AfterFailure(l, MaxRetries) :
          /\ dLane' = [dLane EXCEPT ![a] = m]
          /\ dPc' = [dPc EXCEPT ![a] = IF Busy(m) THEN "load" ELSE "idle"]
    BY <1>12 DEF DFail
  <2>2. dLane'[a] = m /\ dPc'[a] = (IF Busy(m) THEN "load" ELSE "idle")
    BY <2>1 DEF TypeOK
  <2>3. m \in LaneType /\ LaneInv(m)
    BY <1>1, <1>3, LaneSteps
  <2>4. DLeft(a)' = StepsOf(m, 5, 0)
    BY <1>2, <1>4, <2>2 DEF StepsOf
  <2> QED BY <1>2, <1>6, <2>1, <2>3, <2>4
<1> QED BY <1>9, <1>10, <1>11, <1>12 DEF DWork

\* No other step takes a lane back.
LEMMA OtherLanesStay ==
  ASSUME TypeOK, NEW a \in Assets, [Next]_vars
  PROVE  /\ SWork(a) \/ SFail(a) \/ (Busy(sLane[a]) => UNCHANGED SLeft(a))
         /\ DWork(a) \/ DFail(a) \/ (Busy(dLane[a]) => UNCHANGED DLeft(a))
<1>1. sLane'[a] = sLane[a] /\ sPc'[a] = sPc[a] => UNCHANGED SLeft(a)
  BY DEF SLeft, StepsOf
<1>2. dLane'[a] = dLane[a] /\ dPc'[a] = dPc[a] => UNCHANGED DLeft(a)
  BY DEF DLeft, StepsOf
<1>3. ASSUME NEW b \in Assets, SFetch(b) \/ SWork(b) \/ SFail(b)
      PROVE  /\ dLane' = dLane /\ dPc' = dPc
             /\ b # a => sLane'[a] = sLane[a] /\ sPc'[a] = sPc[a]
  BY <1>3 DEF SFetch, SWork, SFail, SLoad, SPut, SEmit, SCommit, diagnosis, TypeOK
<1>4. ASSUME NEW b \in Assets, DFetch(b) \/ DWork(b) \/ DFail(b)
      PROVE  /\ sLane' = sLane /\ sPc' = sPc
             /\ b # a => dLane'[a] = dLane[a] /\ dPc'[a] = dPc[a]
  BY <1>4 DEF DFetch, DWork, DFail, DSkipNominal, DLoad, DSkipDebounced, DCallBedrock, DAnswer,
              DNoAnswer, DUpdateTimestamp, DEmit, DCommit, DLeave, signal, TypeOK
<1>5. ASSUME NEW b \in Assets, ResetBaseline(b) \/ Replicate(b)
      PROVE  sLane' = sLane /\ sPc' = sPc /\ dLane' = dLane /\ dPc' = dPc
  BY <1>5 DEF ResetBaseline, Replicate, signal, diagnosis
<1>6. Tick \/ UNCHANGED vars => sLane' = sLane /\ sPc' = sPc /\ dLane' = dLane /\ dPc' = dPc
  BY DEF Tick, vars, signal, diagnosis
<1>7. (SFetch(a) => ~Busy(sLane[a])) /\ (DFetch(a) => ~Busy(dLane[a]))
  BY DEF SFetch, DFetch
<1> QED BY <1>1, <1>2, <1>3, <1>4, <1>5, <1>6, <1>7 DEF Next

\* A batch is behind its lane after boundedly many steps of its agent, whatever those
\* meet: an item on which the Signal Agent throws, no usable answer, stale reads, a
\* reset, or the end of an invocation at any place.
THEOREM LanesGetShorter == Spec => LanesShrink
<1> DEFINE Inv == TypeOK /\ \A a \in Assets : CallsInv(a) /\ FoldsInv(a)
           Shorter(a) ==
             /\ IF SWork(a) \/ SFail(a) THEN SLeft(a)' \in Nat /\ SLeft(a)' < SLeft(a)
                ELSE Busy(sLane[a]) => UNCHANGED SLeft(a)
             /\ IF DWork(a) \/ DFail(a) THEN DLeft(a)' \in Nat /\ DLeft(a)' < DLeft(a)
                ELSE Busy(dLane[a]) => UNCHANGED DLeft(a)
<1>1. Spec => []Inv
  <2>1. /\ TypeOK /\ LocalsSet /\ (\A a \in Assets : CallsInv(a))
        /\ TypeOK /\ LocalsSet /\ (\A a \in Assets : FoldsInv(a))
        => Inv
    OBVIOUS
  <2> HIDE DEF Inv
  <2> QED BY <2>1, CallsAreInvariant, FoldsAreInvariant, PTL
<1>2. Inv /\ [Next]_vars => [\A a \in Assets : Shorter(a)]_vars
  <2> SUFFICES ASSUME Inv, [Next]_vars, NEW a \in Assets PROVE Shorter(a)
    OBVIOUS
  <2>1. CASE SWork(a) \/ SFail(a)
    <3>1. SLeft(a)' \in Nat /\ SLeft(a)' < SLeft(a)
      BY <2>1, SignalShrinks
    <3>2. IF DWork(a) \/ DFail(a) THEN DLeft(a)' \in Nat /\ DLeft(a)' < DLeft(a)
          ELSE Busy(dLane[a]) => UNCHANGED DLeft(a)
      BY DiagnosisShrinks, OtherLanesStay
    <3> QED BY <2>1, <3>1, <3>2
  <2>2. CASE ~(SWork(a) \/ SFail(a))
    <3>1. Busy(sLane[a]) => UNCHANGED SLeft(a)
      BY <2>2, OtherLanesStay
    <3>2. IF DWork(a) \/ DFail(a) THEN DLeft(a)' \in Nat /\ DLeft(a)' < DLeft(a)
          ELSE Busy(dLane[a]) => UNCHANGED DLeft(a)
      BY DiagnosisShrinks, OtherLanesStay
    <3> QED BY <2>2, <3>1, <3>2
  <2> QED BY <2>1, <2>2
<1> HIDE DEF Inv
<1>3. Spec => [][\A a \in Assets : Shorter(a)]_vars
  BY <1>1, <1>2, PTL DEF Spec
<1> QED BY <1>3 DEF LanesShrink
=============================================================================
