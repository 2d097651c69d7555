-------------------------- MODULE DemoConsoleProofs --------------------------
(***************************************************************************)
(* Proofs about DemoConsole: its type invariant, and that a completed      *)
(* bootstrap leaves nothing behind of what was there before it began.      *)
(*                                                                         *)
(* The argument: as long as the answer of a bootstrap has not come, what   *)
(* is old in a table is so because the call that deletes it is still to be *)
(* made; and nothing old is on its way when a bootstrap begins in quiet,   *)
(* so nothing old gets into a table again.                                 *)
(***************************************************************************)
EXTENDS DemoConsole, FiniteSetTheorems, SequenceTheorems, TLAPS

-----------------------------------------------------------------------------
(* The inductive invariant.                                                *)

Payload == [fn : {"worker"}, asset : Assets, scenario : Scenarios] \cup {Controller}
Call ==
  [do : {"state"}, assets : SUBSET Assets, swallow : BOOLEAN]
    \cup [do : {"incidents", "history"}, assets : SUBSET Assets]
    \cup [do : {"invoke"}, payloads : Seq(Payload)]
    \cup [do : {"cron"}, on : BOOLEAN]
Request == [id : Nat, button : Buttons, waiting : BOOLEAN, since : Nat, calls : Seq(Call)]
Job(from) == [id : from .. lastJob, job : Payload, attempt : Nat]
Chunk(from) == [state : States, by : from .. lastJob]
Item == [state : States \cup {None}, by : Nat, diagnosed : BOOLEAN]

\* No two of a set of requests or jobs have the same id.
OwnIds(S) == \A x, y \in S : x.id = y.id => x = y

\* Everything that is on its way to a table is of the job `from` or a later one.
OnItsWay(from) ==
  /\ from <= lastJob + 1
  /\ jobs \subseteq Job(from)
  /\ stream \in [Assets -> Seq(Chunk(from))]
  /\ risks \in [Assets -> Seq(Chunk(from))]
  /\ unprojected \in [Assets -> SUBSET (from .. lastJob)]

RequestsOK ==
  /\ presses \in Nat
  /\ requests \subseteq Request /\ IsFiniteSet(requests) /\ OwnIds(requests)
  /\ \A r \in requests : r.id <= presses

JobsOK == lastJob \in Nat /\ IsFiniteSet(jobs) /\ OwnIds(jobs)

TablesOK ==
  /\ item \in [Assets -> Item \cup {None}]
  /\ incident \in [Assets -> (1 .. lastJob) \cup {None}]
  /\ rows \in [Assets -> SUBSET (1 .. lastJob)]

PageOK ==
  /\ boot \in {"idle", "running", "completed", "failed"}
  /\ poll \in BOOLEAN \cup {None} /\ ready \in BOOLEAN \cup {None}
  /\ firstJob \in Nat

DemoTypes == RequestsOK /\ JobsOK /\ OnItsWay(1) /\ TablesOK /\ PageOK

\* The call that deletes what a table has of an asset is still to be made.
ToDelete(r, table, a) ==
  \E i \in 1 .. Len(r.calls) : r.calls[i].do = table /\ a \in r.calls[i].assets

\* What is older than the bootstrap is still to be deleted by it.
Swept(r) ==
  \A a \in Fleet :
    /\ incident[a] # None /\ incident[a] < r.since => ToDelete(r, "incidents", a)
    /\ \A job \in rows[a] : job < r.since => ToDelete(r, "history", a)
    /\ undisturbed /\ item[a] # None /\ item[a].by < r.since => ToDelete(r, "state", a)

\* A step puts nothing into a table that is older than the job `from`.
NothingOld(from) ==
  \A a \in Assets :
    /\ incident'[a] # None /\ incident'[a] < from => incident[a] # None /\ incident[a] < from
    /\ \A job \in rows'[a] : job < from => job \in rows[a]
    /\ item'[a] # None /\ item'[a].by < from => item[a] # None /\ item[a].by < from

CleanInv ==
  /\ OnItsWay(firstJob)
  /\ \A r \in requests : OnItsWay(r.since)
  /\ \A r \in requests : r.button = "bootstrap" => Swept(r)
  /\ CompletedIsClean

-----------------------------------------------------------------------------
(* The handlers and the simulator.                                         *)

\* The image of a finite set, where the elements tell themselves apart by their ids.
LEMMA CardinalityOfIds ==
  ASSUME NEW S, IsFiniteSet(S), OwnIds(S)
  PROVE  Cardinality({x.id : x \in S}) = Cardinality(S)
<1> DEFINE T == {x.id : x \in S}
           f == [x \in S |-> x.id]
<1>1. f \in Bijection(S, T)
  BY DEF OwnIds, Bijection, Injection, Surjection, IsInjective
<1> QED BY <1>1, FS_Bijection DEF ExistsBijection

\* The controller's payloads are workers of known assets and scenarios.
LEMMA PickedIsScenario ==
  ASSUME NEW index \in Nat, NEW total \in Nat
  PROVE  PickScenario(index, total) \in Scenarios
BY DEF PickScenario, Scenarios

LEMMA ControllerPayloads ==
  ASSUME NEW payloads, payloads = [i \in DOMAIN Payloads |-> Worker(Payloads[i])]
  PROVE  payloads \in Seq(Payload)
<1>1. Robots \in Seq(Assets) /\ WorkerCount \in Nat /\ WorkerCount <= Len(Robots)
  BY DemoAssumption
<1>2. ASSUME NEW i \in 1 .. WorkerCount
      PROVE  Worker(Payloads[i]) \in Payload
  <2>1. Robots[i] \in Assets
    BY <1>1
  <2>2. PickScenario(i - 1, WorkerCount) \in Scenarios
    BY <1>1, PickedIsScenario
  <2> QED BY <2>1, <2>2 DEF Worker, Payloads, Payload
<1>3. DOMAIN Payloads = 1 .. WorkerCount
  BY DEF Payloads
<1>4. payloads \in [1 .. WorkerCount -> Payload]
  BY <1>2, <1>3
<1> QED BY <1>1, <1>4

\* Lists of one and of two calls.
LEMMA FewCalls ==
  ASSUME NEW c \in Call, NEW d \in Call
  PROVE  <<c>> \in Seq(Call) /\ <<c, d>> \in Seq(Call)
OBVIOUS

\* The lists of calls that a bootstrap is made of.
LEMMA FleetCalls ==
  /\ FleetStates \in Seq(Call) /\ FleetHistory \in Seq(Call) /\ FleetWorkers \in Seq(Call)
  /\ <<Incidents(Fleet)>> \in Seq(Call)
  /\ Len(FleetStates) = Len(Manifest) /\ Len(FleetHistory) = Len(Manifest)
<1>1. Manifest \in Seq([asset : Fleet, scenario : Scenarios, intended : States])
  BY DemoAssumption
<1>2. Fleet \subseteq Assets
  BY DEF Assets
<1>3. \A i \in 1 .. Len(Manifest) :
        /\ Manifest[i].asset \in Assets /\ Manifest[i].scenario \in Scenarios
        /\ Delete(Manifest[i].asset, TRUE) \in Call /\ History(Manifest[i].asset) \in Call
        /\ Worker(Manifest[i]) \in Payload
  <2> TAKE i \in 1 .. Len(Manifest)
  <2>1. Manifest[i] \in [asset : Fleet, scenario : Scenarios, intended : States]
    BY <1>1, ElementOfSeq
  <2>2. /\ Manifest[i].asset \in Assets /\ {Manifest[i].asset} \in SUBSET Assets
        /\ Manifest[i].scenario \in Scenarios
    BY <1>2, <2>1
  <2> QED BY <2>2 DEF Delete, History, Worker, Call, Payload
<1>10. DOMAIN Manifest = 1 .. Len(Manifest) /\ Len(Manifest) \in Nat
  BY <1>1, LenProperties
<1>4. FleetStates \in [1 .. Len(Manifest) -> Call] /\ FleetHistory \in [1 .. Len(Manifest) -> Call]
  BY <1>3, <1>10 DEF FleetStates, FleetHistory
<1>5. [i \in DOMAIN Manifest |-> Worker(Manifest[i])] \in Seq(Payload)
  <2>1. [i \in DOMAIN Manifest |-> Worker(Manifest[i])] \in [1 .. Len(Manifest) -> Payload]
    BY <1>3, <1>10
  <2> QED BY <1>10, <2>1
<1>6. Invoke([i \in DOMAIN Manifest |-> Worker(Manifest[i])]) \in Call
  BY <1>5 DEF Invoke, Call
<1>7. Incidents(Fleet) \in Call
  BY <1>2 DEF Incidents, Call
<1>8. FleetStates \in Seq(Call) /\ FleetHistory \in Seq(Call)
      /\ Len(FleetStates) = Len(Manifest) /\ Len(FleetHistory) = Len(Manifest)
  BY <1>4, <1>10
<1> QED BY <1>6, <1>7, <1>8 DEF FleetWorkers

\* A bootstrap deletes everything the tables have of the fleet.
LEMMA BootstrapDeletes ==
  ASSUME NEW a \in Fleet, NEW table \in {"state", "incidents", "history"}
  PROVE  \E i \in 1 .. Len(Bootstrap) : Bootstrap[i].do = table /\ a \in Bootstrap[i].assets
<1> DEFINE n == Len(Manifest)
           one == FleetStates \o <<Incidents(Fleet)>>
           two == one \o FleetHistory
<1>1. Manifest \in Seq([asset : Fleet, scenario : Scenarios, intended : States]) /\ n \in Nat
  BY DemoAssumption
<1>2. PICK m \in 1 .. n : Manifest[m].asset = a
  BY <1>1 DEF Fleet
<1>3. one \in Seq(Call) /\ Len(one) = n + 1
      /\ (\A i \in 1 .. n : one[i] = FleetStates[i]) /\ one[n + 1] = Incidents(Fleet)
  <2>1. Len(<<Incidents(Fleet)>>) = 1 /\ <<Incidents(Fleet)>>[1] = Incidents(Fleet)
    OBVIOUS
  <2> QED BY <1>1, <2>1, FleetCalls, ConcatProperties
<1>4. two \in Seq(Call) /\ Len(two) = n + 1 + n
      /\ (\A i \in 1 .. n + 1 : two[i] = one[i])
      /\ (\A i \in 1 .. n : two[n + 1 + i] = FleetHistory[i])
  <2>1. one \in Seq(Call) /\ FleetHistory \in Seq(Call)
        /\ Len(one) = n + 1 /\ Len(FleetHistory) = n
    BY <1>3, FleetCalls
  <2> HIDE DEF one, n
  <2>2. /\ two \in Seq(Call) /\ Len(two) = Len(one) + Len(FleetHistory)
        /\ \A i \in 1 .. Len(one) + Len(FleetHistory) :
             two[i] = IF i <= Len(one) THEN one[i] ELSE FleetHistory[i - Len(one)]
    BY <2>1, ConcatProperties
  <2> HIDE DEF two
  <2>3. \A k \in n + 2 .. n + 1 + n : two[k] = FleetHistory[k - (n + 1)]
    BY <1>1, <2>1, <2>2
  <2>4. ASSUME NEW i \in 1 .. n
        PROVE  two[n + 1 + i] = FleetHistory[i]
    <3>1. PICK k \in n + 2 .. n + 1 + n : k = n + 1 + i
      BY <1>1
    <3>2. k - (n + 1) = i
      BY <1>1, <3>1
    <3>3. two[k] = FleetHistory[i]
      BY <2>3, <3>2
    <3> QED BY <3>1, <3>3
  <2>5. \A i \in 1 .. n + 1 : two[i] = one[i]
    BY <1>1, <2>1, <2>2
  <2> QED BY <2>1, <2>2, <2>4, <2>5
<1>5. Bootstrap = two \o FleetWorkers
  BY DEF Bootstrap
<1>6. Len(Bootstrap) >= Len(two) /\ Len(Bootstrap) \in Nat
      /\ \A i \in 1 .. Len(two) : Bootstrap[i] = two[i]
  BY <1>4, <1>5, FleetCalls, ConcatProperties
<1> HIDE DEF one, two, n
<1>7. CASE table = "state"
  <2>1. Bootstrap[m] = FleetStates[m] /\ m \in 1 .. Len(Bootstrap)
    BY <1>1, <1>2, <1>3, <1>4, <1>6
  <2>2. FleetStates[m] = Delete(a, TRUE)
    BY <1>1, <1>2, LenProperties DEF FleetStates, n
  <2> QED BY <1>7, <2>1, <2>2 DEF Delete
<1>8. CASE table = "incidents"
  <2>1. Bootstrap[n + 1] = Incidents(Fleet) /\ n + 1 \in 1 .. Len(Bootstrap)
    BY <1>1, <1>3, <1>4, <1>6
  <2> QED BY <1>8, <2>1 DEF Incidents
<1>9. CASE table = "history"
  <2>1. Bootstrap[n + 1 + m] = FleetHistory[m] /\ n + 1 + m \in 1 .. Len(Bootstrap)
    BY <1>1, <1>2, <1>4, <1>6
  <2>2. FleetHistory[m] = History(a)
    BY <1>1, <1>2, LenProperties DEF FleetHistory, n
  <2> QED BY <1>9, <2>1, <2>2 DEF History
<1> QED BY <1>7, <1>8, <1>9

LEMMA CallsAreCalls ==
  ASSUME NEW button \in Buttons, NEW choice \in Choices(button)
  PROVE  Calls(button, choice[1], choice[2]) \in Seq(Call)
<1> DEFINE a == choice[1]
           scenario == choice[2]
<1>1. Fleet \subseteq Assets
  BY DEF Assets
<1>2. CASE button = "bootstrap"
  <2>1. Bootstrap \in Seq(Call)
    BY FleetCalls, ConcatProperties DEF Bootstrap
  <2> QED BY <1>2, <2>1 DEF Calls
<1>3. CASE button = "scenario"
  <2>1. a \in Fleet /\ scenario \in Picked
    BY <1>3 DEF Choices, ScenarioRows
  <2>2. a \in Assets /\ scenario \in Scenarios
    BY <1>1, <2>1, DemoAssumption
  <2>3. Delete(a, TRUE) \in Call
    <3>1. {a} \in SUBSET Assets
      BY <2>2
    <3> QED BY <3>1 DEF Delete, Call
  <2>4. Worker([asset |-> a, scenario |-> scenario]) \in Payload
    BY <2>2 DEF Worker, Payload
  <2>5. Invoke(<<Worker([asset |-> a, scenario |-> scenario])>>) \in Call
    BY <2>4 DEF Invoke, Call
  <2>6. Calls(button, a, scenario) =
          <<Delete(a, TRUE), Invoke(<<Worker([asset |-> a, scenario |-> scenario])>>)>>
    BY <1>3 DEF Calls
  <2> QED BY <2>3, <2>5, <2>6, FewCalls
<1>4. CASE button = "incidents"
  <2>1. a \in Fleet \cup {None}
    BY <1>4 DEF Choices
  <2>2. (IF a = None THEN Fleet ELSE {a}) \in SUBSET Assets
    BY <1>1, <2>1
  <2>3. Incidents(IF a = None THEN Fleet ELSE {a}) \in Call
    BY <2>2 DEF Incidents, Call
  <2> QED BY <1>4, <2>3 DEF Calls
<1>5. CASE button = "history"
  <2>1. a \in Fleet \cup {None}
    BY <1>5 DEF Choices
  <2>2. CASE a = None
    BY <1>5, <2>2, FleetCalls DEF Calls
  <2>3. CASE a # None
    <3>1. {a} \in SUBSET Assets
      BY <1>1, <2>1, <2>3
    <3>2. History(a) \in Call
      BY <3>1 DEF History, Call
    <3> QED BY <1>5, <2>3, <3>2 DEF Calls
  <2> QED BY <2>2, <2>3
<1>6. CASE button = "reset"
  <2>1. {a} \in SUBSET Assets
    BY <1>6 DEF Choices
  <2>2. Delete(a, FALSE) \in Call
    BY <2>1 DEF Delete, Call
  <2>3. Calls(button, a, scenario) = <<Delete(a, FALSE)>>
    BY <1>6 DEF Calls
  <2> QED BY <2>2, <2>3, FewCalls
<1>7. CASE button = "simulator"
  <2>1. <<Controller>> \in Seq(Payload)
    BY DEF Payload
  <2>2. Invoke(<<Controller>>) \in Call
    BY <2>1 DEF Invoke, Call
  <2> QED BY <1>7, <2>2 DEF Calls
<1>8. CASE button \in {"enable", "disable"}
  <2>1. SetCron(TRUE) \in Call /\ SetCron(FALSE) \in Call
    BY DEF SetCron, Call
  <2>2. Calls(button, a, scenario) \in {<<SetCron(TRUE)>>, <<SetCron(FALSE)>>}
    BY <1>8 DEF Calls
  <2> QED BY <2>1, <2>2, FewCalls
<1> QED BY <1>2, <1>3, <1>4, <1>5, <1>6, <1>7, <1>8, DemoAssumption

-----------------------------------------------------------------------------
(* The requests.                                                           *)

\* A request is removed, replaced by what is left of it, or added.
LEMMA RequestLeaves ==
  ASSUME RequestsOK, NEW r, requests' = requests \ {r}, presses' = presses
  PROVE  RequestsOK'
<1>1. IsFiniteSet(requests')
  BY FS_RemoveElement DEF RequestsOK
<1> QED BY <1>1 DEF RequestsOK, OwnIds, Request, Call, Payload

LEMMA RequestMoves ==
  ASSUME RequestsOK, NEW r \in requests, NEW q \in Request, q.id = r.id,
         requests' = (requests \ {r}) \cup {q}, presses' = presses
  PROVE  RequestsOK'
<1>1. IsFiniteSet(requests')
  BY FS_RemoveElement, FS_AddElement DEF RequestsOK
<1>2. requests' \subseteq Request
  BY DEF RequestsOK
<1>3. OwnIds(requests)' /\ \A x \in requests' : x.id <= presses'
  BY DEF RequestsOK, OwnIds
<1> QED BY <1>1, <1>2, <1>3 DEF RequestsOK, Request, Call, Payload

LEMMA RequestComes ==
  ASSUME RequestsOK, NEW q \in Request, q.id = presses',
         requests' = requests \cup {q}, presses' = presses + 1
  PROVE  RequestsOK'
<1>1. IsFiniteSet(requests')
  BY FS_AddElement DEF RequestsOK
<1>2. requests' \subseteq Request
  BY DEF RequestsOK
<1>3. \A x \in requests : x.id \in Nat /\ x.id <= presses /\ x.id # presses'
  BY DEF RequestsOK, Request
<1>4. OwnIds(requests)' /\ \A x \in requests' : x.id <= presses'
  BY <1>3 DEF RequestsOK, OwnIds
<1> QED BY <1>1, <1>2, <1>4 DEF RequestsOK, Request, Call, Payload

\* A handler has made its first call.
LEMMA CallMade ==
  ASSUME NEW r \in Request, r.calls # <<>>, NEW q, q = [r EXCEPT !.calls = Tail(@)]
  PROVE  /\ q \in Request /\ q.id = r.id /\ q.button = r.button /\ q.since = r.since
         /\ Head(r.calls) \in Call
         /\ \A table, a : /\ ToDelete(r, table, a)
                          /\ ~(Head(r.calls).do = table /\ a \in Head(r.calls).assets)
                          => ToDelete(q, table, a)
<1>1. r.calls \in Seq(Call) /\ Tail(r.calls) \in Seq(Call) /\ Head(r.calls) \in Call
      /\ Len(r.calls) \in Nat /\ Len(Tail(r.calls)) = Len(r.calls) - 1
      /\ Head(r.calls) = r.calls[1]
      /\ \A i \in 1 .. Len(Tail(r.calls)) : Tail(r.calls)[i] = r.calls[i + 1]
  BY HeadTailProperties DEF Request
<1>2. q \in Request /\ q.id = r.id /\ q.button = r.button /\ q.since = r.since
      /\ q.calls = Tail(r.calls)
  BY <1>1 DEF Request
<1>3. ASSUME NEW table, NEW a, ToDelete(r, table, a),
             ~(Head(r.calls).do = table /\ a \in Head(r.calls).assets)
      PROVE  ToDelete(q, table, a)
  <2>1. PICK i \in 1 .. Len(r.calls) : r.calls[i].do = table /\ a \in r.calls[i].assets
    BY <1>3 DEF ToDelete
  <2>2. i # 1
    BY <1>1, <1>3, <2>1
  <2>3. i - 1 \in 1 .. Len(q.calls) /\ q.calls[i - 1] = r.calls[i]
    BY <1>1, <1>2, <2>2
  <2> QED BY <2>1, <2>3 DEF ToDelete
<1> QED BY <1>1, <1>2, <1>3

-----------------------------------------------------------------------------
(* The jobs, and what they put on its way.                                 *)

LEMMA StillNext ==
  ASSUME NEW from \in Nat, NEW m \in Nat, NEW n \in Nat, m <= n, from <= m + 1
  PROVE  from <= n + 1
OBVIOUS

\* Jobs and chunks of the job `from` or later ones stay such as jobs are added.
LEMMA WayLasts ==
  ASSUME NEW from \in Nat, OnItsWay(from), lastJob \in Nat, lastJob' \in Nat,
         lastJob <= lastJob', jobs' \subseteq Job(from)', UNCHANGED pipeVars
  PROVE  OnItsWay(from)'
<1>1. Chunk(from) \subseteq Chunk(from)'
  BY DEF Chunk
<1>2. \A s \in Seq(Chunk(from)) : s \in Seq(Chunk(from)')
  BY <1>1, SeqMonotonic
<1>3. stream' = stream /\ risks' = risks /\ unprojected' = unprojected
  BY DEF pipeVars
<1>4. stream' \in [Assets -> Seq(Chunk(from)')] /\ risks' \in [Assets -> Seq(Chunk(from)')]
  BY <1>2, <1>3 DEF OnItsWay
<1>5. unprojected' \in [Assets -> SUBSET (from .. lastJob')]
  BY <1>3 DEF OnItsWay
<1>6. from <= lastJob' + 1
  <2>1. from <= lastJob + 1
    BY DEF OnItsWay
  <2> QED BY <2>1, StillNext
<1> QED BY <1>4, <1>5, <1>6 DEF OnItsWay

\* Lambda accepts invocations.
LEMMA InvokedIds ==
  ASSUME lastJob \in Nat, NEW payloads \in Seq(Payload), NEW accepted \in SUBSET DOMAIN payloads
  PROVE  /\ IsFiniteSet(Invoked(payloads, accepted)) /\ OwnIds(Invoked(payloads, accepted))
         /\ \A x \in Invoked(payloads, accepted) :
              /\ x.id \in lastJob + 1 .. lastJob + Len(payloads)
              /\ x.job \in Payload /\ x.attempt = 1
              /\ x = [id |-> x.id, job |-> x.job, attempt |-> 1]
<1> DEFINE T == Invoked(payloads, accepted)
           e(i) == [id |-> lastJob + i, job |-> payloads[i], attempt |-> 1]
           f == [i \in accepted |-> e(i)]
<1>1. DOMAIN payloads = 1 .. Len(payloads) /\ Len(payloads) \in Nat
  BY LenProperties
<1>2. \A i \in accepted : i \in 1 .. Len(payloads) /\ payloads[i] \in Payload
  BY <1>1, ElementOfSeq
<1>3. IsFiniteSet(accepted)
  <2>1. IsFiniteSet(1 .. Len(payloads))
    BY <1>1, FS_Interval
  <2> QED BY <1>1, <2>1, FS_Subset
<1>4. T = {e(i) : i \in accepted}
  BY DEF Invoked
<1>5. f \in Surjection(accepted, T)
  BY <1>4 DEF Surjection
<1>6. IsFiniteSet(T)
  BY <1>3, <1>5, FS_Surjection
<1>7. OwnIds(T)
  BY <1>2, <1>4 DEF OwnIds
<1>8. \A x \in T : /\ x.id \in lastJob + 1 .. lastJob + Len(payloads)
                   /\ x.job \in Payload /\ x.attempt = 1
                   /\ x = [id |-> x.id, job |-> x.job, attempt |-> 1]
  BY <1>1, <1>2, <1>4
<1> QED BY <1>6, <1>7, <1>8

LEMMA JobsCome ==
  ASSUME lastJob \in Nat, NEW payloads \in Seq(Payload), NEW accepted \in SUBSET DOMAIN payloads,
         NEW J, IsFiniteSet(J), OwnIds(J), \A x \in J : x.id \in Nat /\ x.id <= lastJob,
         jobs' = J \cup Invoked(payloads, accepted), lastJob' = lastJob + Len(payloads)
  PROVE  JobsOK' /\ lastJob <= lastJob'
<1>1. Len(payloads) \in Nat
  BY LenProperties
<1>2. IsFiniteSet(jobs')
  BY InvokedIds, FS_Union
<1>3. OwnIds(jobs)'
  BY InvokedIds DEF OwnIds
<1> QED BY <1>1, <1>2, <1>3 DEF JobsOK

LEMMA JobsComeLate ==
  ASSUME lastJob \in Nat, NEW payloads \in Seq(Payload), NEW accepted \in SUBSET DOMAIN payloads,
         NEW from \in Nat, OnItsWay(from), NEW J, J \subseteq Job(from),
         jobs' = J \cup Invoked(payloads, accepted), lastJob' = lastJob + Len(payloads),
         UNCHANGED pipeVars
  PROVE  OnItsWay(from)'
<1>1. Len(payloads) \in Nat
  BY LenProperties
<1>2. lastJob' \in Nat /\ lastJob <= lastJob' /\ from <= lastJob + 1
  BY <1>1 DEF OnItsWay
<1>3. J \subseteq Job(from)'
  BY <1>2 DEF Job
<1>4. Invoked(payloads, accepted) \subseteq Job(from)'
  <2> SUFFICES ASSUME NEW x \in Invoked(payloads, accepted)
               PROVE  x \in Job(from)'
    OBVIOUS
  <2>1. /\ x.id \in from .. lastJob' /\ x.job \in Payload
        /\ x = [id |-> x.id, job |-> x.job, attempt |-> 1]
    BY <1>2, InvokedIds
  <2> QED BY <2>1 DEF Job
<1> QED BY <1>2, <1>3, <1>4, WayLasts

\* Jobs leave, or are run again under their id.
LEMMA JobsLeave ==
  ASSUME JobsOK, OnItsWay(1), NEW j \in jobs
  PROVE  /\ IsFiniteSet(jobs \ {j}) /\ OwnIds(jobs \ {j})
         /\ IsFiniteSet((jobs \ {j}) \cup Retried(j)) /\ OwnIds((jobs \ {j}) \cup Retried(j))
         /\ \A x \in jobs \cup Retried(j) : x.id \in Nat /\ x.id <= lastJob
<1>1. j \in Job(1) /\ \A x \in jobs : x.id \in Nat /\ x.id <= lastJob
  BY DEF OnItsWay, Job, JobsOK
<1>2. IsFiniteSet(jobs \ {j}) /\ OwnIds(jobs \ {j})
  BY FS_RemoveElement DEF JobsOK, OwnIds
<1>3. CASE Retried(j) = {}
  BY <1>1, <1>2, <1>3
<1>4. CASE Retried(j) # {}
  <2>1. PICK q : Retried(j) = {q} /\ q.id = j.id
    BY <1>1, <1>4 DEF Retried, Job
  <2>2. IsFiniteSet((jobs \ {j}) \cup {q})
    BY <1>2, FS_AddElement
  <2> QED BY <1>1, <1>2, <2>1, <2>2 DEF OwnIds, JobsOK
<1> QED BY <1>3, <1>4

LEMMA RetriedIsJob ==
  ASSUME NEW from \in Nat, NEW j \in Job(from)
  PROVE  Retried(j) \subseteq Job(from)
BY DEF Retried, Job

\* A burst reaches the stream.
LEMMA BurstIsChunks ==
  ASSUME NEW from \in Nat, lastJob \in Nat, NEW j \in Job(from), j.job.fn = "worker",
         stream \in [Assets -> Seq(Chunk(from))],
         NEW bursts \in {Bursts(j.job.scenario), FirstPhase}, Put(j, bursts)
  PROVE  stream' \in [Assets -> Seq(Chunk(from))]
<1>1. j.id \in from .. lastJob /\ j.job.asset \in Assets /\ j.job.scenario \in Scenarios
  BY DEF Job, Payload, Controller
<1>2. FinalStates(j.job.scenario) \subseteq States
  BY <1>1 DEF FinalStates, Scenarios, States
<1>3. \A final \in States : Chunks(final) \in Seq(States)
  <2> TAKE final \in States
  <2>1. "nominal" \in States
    BY DEF States
  <2>2. <<final>> \in Seq(States) /\ <<"nominal", final>> \in Seq(States)
    BY <2>1
  <2> QED BY <2>2 DEF Chunks
<1>4. bursts \subseteq Seq(States)
  <2>1. "nominal" \in States
    BY DEF States
  <2>2. FirstPhase \subseteq Seq(States)
    BY <2>1 DEF FirstPhase
  <2>3. Bursts(j.job.scenario) \subseteq Seq(States)
    BY <1>2, <1>3 DEF Bursts
  <2> QED BY <2>2, <2>3
<1>5. PICK burst \in bursts :
        stream' = [stream EXCEPT ![j.job.asset] =
                     @ \o [i \in DOMAIN burst |-> [state |-> burst[i], by |-> j.id]]]
  BY DEF Put
<1>6. burst \in Seq(States) /\ DOMAIN burst = 1 .. Len(burst) /\ Len(burst) \in Nat
      /\ \A i \in 1 .. Len(burst) : burst[i] \in States
  BY <1>4, LenProperties
<1>7. [i \in DOMAIN burst |-> [state |-> burst[i], by |-> j.id]]
        \in [1 .. Len(burst) -> Chunk(from)]
  BY <1>1, <1>6 DEF Chunk
<1>8. [i \in DOMAIN burst |-> [state |-> burst[i], by |-> j.id]] \in Seq(Chunk(from))
  BY <1>6, <1>7
<1> QED BY <1>1, <1>5, <1>8, ConcatProperties

-----------------------------------------------------------------------------
(* What the steps keep.                                                    *)

\* A step that neither starts a job nor moves a chunk.
LEMMA WayKept ==
  ASSUME NEW from \in Nat, OnItsWay(from), UNCHANGED <<jobs, lastJob, pipeVars>>
  PROVE  OnItsWay(from)'
BY DEF OnItsWay, Job, Chunk, pipeVars

\* A step that writes no table, or only deletes from them.
LEMMA TablesKept ==
  ASSUME NEW from \in Nat, UNCHANGED <<item, incident, rows>>
  PROVE  NothingOld(from)
BY DEF NothingOld

\* What only deletes keeps the types, too.
LEMMA TablesDeleted ==
  ASSUME JobsOK, TablesOK, lastJob' \in Nat, lastJob <= lastJob',
         item' \in [Assets -> Item \cup {None}] /\ \A a \in Assets : item'[a] \in {item[a], None},
         DOMAIN incident' = Assets /\ incident' = [a \in Assets |-> incident'[a]],
         \A a \in Assets : incident'[a] \in {incident[a], None},
         DOMAIN rows' = Assets /\ rows' = [a \in Assets |-> rows'[a]],
         \A a \in Assets : rows'[a] \in {rows[a], {}}
  PROVE  TablesOK' /\ \A from \in Nat : NothingOld(from)
<1>1. \A a \in Assets : incident'[a] \in (1 .. lastJob') \cup {None}
  BY DEF TablesOK, JobsOK
<1>2. \A a \in Assets : rows'[a] \subseteq 1 .. lastJob'
  BY DEF TablesOK, JobsOK
<1>3. \A from \in Nat : NothingOld(from)
  BY DEF NothingOld
<1> QED BY <1>1, <1>2, <1>3 DEF TablesOK, Item

-----------------------------------------------------------------------------
(* The steps of the page and of the API.                                   *)

\* What a step keeps of the invariant whatever it does.
Kept ==
  /\ DemoTypes'
  /\ \A from \in Nat : OnItsWay(from) => OnItsWay(from)' /\ NothingOld(from)

\* A step of the page, which leaves the jobs, the pipeline and the tables alone.
LEMMA PageStep ==
  ASSUME DemoTypes, UNCHANGED <<jobs, lastJob, item, incident, rows, pipeVars>>,
         RequestsOK', PageOK'
  PROVE  Kept
<1>1. \A from \in Nat : OnItsWay(from) => OnItsWay(from)' /\ NothingOld(from)
  BY WayKept, TablesKept
<1>2. JobsOK' /\ TablesOK'
  BY DEF DemoTypes, JobsOK, TablesOK, OwnIds, Item
<1> QED BY <1>1, <1>2 DEF Kept, DemoTypes

LEMMA PressKeeps ==
  ASSUME DemoTypes, NEW button \in Buttons, Press(button)
  PROVE  Kept
<1>1. PICK choice \in Choices(button) :
        requests' = requests \cup
          {[id |-> presses', button |-> button, waiting |-> TRUE,
            since |-> IF Quiet THEN lastJob + 1 ELSE 0,
            calls |-> Calls(button, choice[1], choice[2])]}
  BY DEF Press
<1>2. (IF Quiet THEN lastJob + 1 ELSE 0) \in Nat /\ presses' = presses + 1 /\ presses' \in Nat
  BY DEF Press, DemoTypes, JobsOK, RequestsOK
<1>3. [id |-> presses', button |-> button, waiting |-> TRUE,
       since |-> IF Quiet THEN lastJob + 1 ELSE 0,
       calls |-> Calls(button, choice[1], choice[2])] \in Request
  BY <1>2, CallsAreCalls DEF Request
<1>4. RequestsOK'
  BY <1>1, <1>2, <1>3, RequestComes DEF DemoTypes
<1>5. PageOK' /\ UNCHANGED <<jobs, lastJob, item, incident, rows, pipeVars>>
  BY DEF Press, DemoTypes, PageOK
<1> QED BY <1>4, <1>5, PageStep

LEMMA AnswerKeeps ==
  ASSUME DemoTypes, NEW r \in requests, Answer(r)
  PROVE  Kept
<1>1. RequestsOK'
  BY RequestLeaves DEF Answer, DemoTypes
<1>2. r.since \in Nat
  BY DEF DemoTypes, RequestsOK, Request
<1>3. PageOK' /\ UNCHANGED <<jobs, lastJob, item, incident, rows, pipeVars>>
  BY <1>2 DEF Answer, Shown, DemoTypes, PageOK
<1> QED BY <1>1, <1>3, PageStep

LEMMA LoseAnswerKeeps ==
  ASSUME DemoTypes, NEW r \in requests, LoseAnswer(r)
  PROVE  Kept
<1>1. [r EXCEPT !.waiting = FALSE] \in Request /\ [r EXCEPT !.waiting = FALSE].id = r.id
  BY DEF DemoTypes, RequestsOK, Request
<1>2. RequestsOK'
  BY <1>1, RequestMoves DEF LoseAnswer, DemoTypes
<1>3. PageOK' /\ UNCHANGED <<jobs, lastJob, item, incident, rows, pipeVars>>
  BY DEF LoseAnswer, Shown, DemoTypes, PageOK
<1> QED BY <1>2, <1>3, PageStep

LEMMA ReadinessKeeps ==
  ASSUME DemoTypes, Readiness
  PROVE  Kept
<1>1. UNCHANGED <<requests, presses, jobs, lastJob, item, incident, rows, pipeVars>>
  BY DEF Readiness, ReadItems, CountIncidents, apiVars
<1>2. RequestsOK'
  BY <1>1 DEF DemoTypes, RequestsOK, OwnIds, Request, Call, Payload
<1>3. PageOK'
  <2>1. CASE ReadItems
    <3>1. poll' \in BOOLEAN
      BY <2>1, Zenon DEF ReadItems
    <3>2. UNCHANGED <<boot, ready, firstJob>>
      BY <2>1 DEF ReadItems, histVars
    <3> QED BY <3>1, <3>2 DEF DemoTypes, PageOK
  <2>2. CASE CountIncidents
    <3>1. ready' \in BOOLEAN
      BY <2>2, Zenon DEF CountIncidents, IsReady
    <3>2. UNCHANGED <<boot, firstJob>> /\ poll' = None
      BY <2>2 DEF CountIncidents, histVars
    <3> QED BY <3>1, <3>2 DEF DemoTypes, PageOK
  <2> QED BY <2>1, <2>2 DEF Readiness
<1> QED BY <1>1, <1>2, <1>3, PageStep

\* A call of a handler that was made, and one that was not.
LEMMA CallKeeps ==
  ASSUME DemoTypes, NEW r \in requests, r.calls # <<>>,
         \/ DeleteState(r) \/ DeleteStateFails(r) \/ DeleteIncidents(r) \/ DeleteHistory(r)
         \/ InvokeWorkers(r) \/ SwitchCron(r)
  PROVE  Kept
<1>1. r \in Request /\ Head(r.calls) \in Call
  BY CallMade DEF DemoTypes, RequestsOK
<1>2. Next1(r) /\ UNCHANGED <<presses, boot, poll, ready, firstJob>>
  BY DEF DeleteState, DeleteStateFails, DeleteIncidents, DeleteHistory, InvokeWorkers, SwitchCron,
         pageVars, histVars
<1>3. RequestsOK'
  BY <1>1, <1>2, CallMade, RequestMoves DEF Next1, DemoTypes
<1>4. PageOK'
  BY <1>2 DEF DemoTypes, PageOK
<1>5. lastJob \in Nat /\ DOMAIN incident = Assets /\ DOMAIN rows = Assets
      /\ incident = [a \in Assets |-> incident[a]] /\ rows = [a \in Assets |-> rows[a]]
  BY DEF DemoTypes, TablesOK, JobsOK
<1>6. CASE ~InvokeWorkers(r)
  <2>1. UNCHANGED <<jobs, lastJob, pipeVars>>
    BY <1>6 DEF DeleteState, DeleteStateFails, DeleteIncidents, DeleteHistory, SwitchCron
  <2>2. JobsOK' /\ OnItsWay(1)' /\ \A from \in Nat : OnItsWay(from) => OnItsWay(from)'
    BY <2>1, WayKept DEF DemoTypes, JobsOK, OwnIds
  <2>3. /\ item' \in [Assets -> Item \cup {None}]
        /\ \A a \in Assets : item'[a] \in {item[a], None}
    BY <1>6 DEF DeleteState, DeleteStateFails, DeleteIncidents, DeleteHistory, SwitchCron,
                DemoTypes, TablesOK
  <2>4. /\ DOMAIN incident' = Assets /\ incident' = [a \in Assets |-> incident'[a]]
        /\ \A a \in Assets : incident'[a] \in {incident[a], None}
    BY <1>5, <1>6 DEF DeleteState, DeleteStateFails, DeleteIncidents, DeleteHistory, SwitchCron
  <2>5. /\ DOMAIN rows' = Assets /\ rows' = [a \in Assets |-> rows'[a]]
        /\ \A a \in Assets : rows'[a] \in {rows[a], {}}
    BY <1>5, <1>6 DEF DeleteState, DeleteStateFails, DeleteIncidents, DeleteHistory, SwitchCron
  <2>6. TablesOK' /\ \A from \in Nat : NothingOld(from)
    BY <1>5, <2>1, <2>3, <2>4, <2>5, TablesDeleted DEF DemoTypes
  <2> QED BY <1>3, <1>4, <2>2, <2>6 DEF Kept, DemoTypes
<1>7. CASE InvokeWorkers(r)
  <2> DEFINE payloads == Head(r.calls).payloads
  <2>1. payloads \in Seq(Payload)
    BY <1>1, <1>7 DEF InvokeWorkers, Call
  <2>2. jobs' = jobs \cup Invoked(payloads, DOMAIN payloads) /\ lastJob' = lastJob + Len(payloads)
        /\ UNCHANGED <<item, incident, rows, pipeVars>>
    BY <1>7 DEF InvokeWorkers
  <2>3. \A x \in jobs : x.id \in Nat /\ x.id <= lastJob
    BY <1>5 DEF DemoTypes, OnItsWay, Job
  <2> HIDE DEF payloads
  <2>4. JobsOK' /\ lastJob <= lastJob'
    BY <1>5, <2>1, <2>2, <2>3, JobsCome DEF DemoTypes, JobsOK
  <2>5. \A from \in Nat : OnItsWay(from) => OnItsWay(from)'
    <3> TAKE from \in Nat
    <3> HAVE OnItsWay(from)
    <3>1. jobs \subseteq Job(from)
      BY DEF OnItsWay
    <3> QED BY <1>5, <2>1, <2>2, <3>1, JobsComeLate
  <2>6. TablesOK' /\ \A from \in Nat : NothingOld(from)
    BY <1>5, <2>2, <2>4, TablesDeleted DEF DemoTypes, TablesOK, JobsOK
  <2> QED BY <1>3, <1>4, <2>4, <2>5, <2>6 DEF Kept, DemoTypes
<1> QED BY <1>6, <1>7

LEMMA CallFailsKeeps ==
  ASSUME DemoTypes, NEW r \in requests, r.calls # <<>>, CallFails(r)
  PROVE  Kept
<1> DEFINE call == Head(r.calls)
           payloads == IF call.do = "invoke" THEN call.payloads ELSE <<>>
<1>1. call \in Call
  BY CallMade DEF DemoTypes, RequestsOK
<1>2. payloads \in Seq(Payload)
  BY <1>1 DEF Call
<1>3. PICK accepted \in SUBSET DOMAIN payloads : jobs' = jobs \cup Invoked(payloads, accepted)
  BY DEF CallFails
<1>4. lastJob' = lastJob + Len(payloads) /\ UNCHANGED <<item, incident, rows, pipeVars>>
      /\ requests' = requests \ {r} /\ UNCHANGED <<presses, poll, ready, firstJob>>
      /\ boot' = Shown(r, "failed")
  BY DEF CallFails
<1>5. lastJob \in Nat /\ \A x \in jobs : x.id \in Nat /\ x.id <= lastJob
  BY DEF DemoTypes, JobsOK, OnItsWay, Job
<1> HIDE DEF payloads
<1>6. RequestsOK' /\ PageOK'
  BY <1>4, RequestLeaves DEF Shown, DemoTypes, PageOK
<1>7. JobsOK' /\ lastJob <= lastJob'
  BY <1>2, <1>3, <1>4, <1>5, JobsCome DEF DemoTypes, JobsOK
<1>8. \A from \in Nat : OnItsWay(from) => OnItsWay(from)'
  <2> TAKE from \in Nat
  <2> HAVE OnItsWay(from)
  <2>1. jobs \subseteq Job(from)
    BY DEF OnItsWay
  <2> QED BY <1>2, <1>3, <1>4, <1>5, <2>1, JobsComeLate
<1>9. TablesOK' /\ \A from \in Nat : NothingOld(from)
  BY <1>4, <1>5, <1>7, TablesDeleted DEF DemoTypes, TablesOK, JobsOK
<1> QED BY <1>6, <1>7, <1>8, <1>9 DEF Kept, DemoTypes

-----------------------------------------------------------------------------
(* The steps of the simulator and of the pipeline.                         *)

\* A step that leaves the requests, the page and the tables alone.
LEMMA JobsStep ==
  ASSUME DemoTypes,
         UNCHANGED <<requests, presses, boot, poll, ready, firstJob, item, incident, rows>>,
         JobsOK', lastJob <= lastJob', \A from \in Nat : OnItsWay(from) => OnItsWay(from)'
  PROVE  Kept
<1>1. RequestsOK' /\ PageOK'
  BY DEF DemoTypes, RequestsOK, PageOK, OwnIds, Request, Call, Payload
<1>2. lastJob \in Nat /\ lastJob' \in Nat
  BY DEF DemoTypes, JobsOK
<1>3. TablesOK' /\ \A from \in Nat : NothingOld(from)
  BY <1>2, TablesDeleted DEF DemoTypes, TablesOK, JobsOK
<1> QED BY <1>1, <1>3 DEF Kept, DemoTypes

\* Jobs are started in place of others.
LEMMA StartKeeps ==
  ASSUME DemoTypes, NEW payloads \in Seq(Payload), NEW accepted \in SUBSET DOMAIN payloads,
         NEW J, IsFiniteSet(J), OwnIds(J), \A x \in J : x.id \in Nat /\ x.id <= lastJob,
         \A from \in Nat : OnItsWay(from) => J \subseteq Job(from),
         jobs' = J \cup Invoked(payloads, accepted), lastJob' = lastJob + Len(payloads),
         UNCHANGED <<requests, presses, boot, poll, ready, firstJob,
                     item, incident, rows, pipeVars>>
  PROVE  Kept
<1>1. lastJob \in Nat
  BY DEF DemoTypes, JobsOK
<1>2. JobsOK' /\ lastJob <= lastJob'
  BY <1>1, JobsCome
<1>3. \A from \in Nat : OnItsWay(from) => OnItsWay(from)'
  BY <1>1, JobsComeLate
<1> QED BY <1>2, <1>3, JobsStep

LEMMA CronKeeps ==
  ASSUME DemoTypes, CronFires
  PROVE  Kept
<1> DEFINE payloads == <<Controller>>
<1>1. payloads \in Seq(Payload) /\ Len(payloads) = 1 /\ DOMAIN payloads = {1}
  BY DEF Payload
<1>2. jobs' = jobs \cup Invoked(payloads, {1}) /\ lastJob' = lastJob + Len(payloads)
  BY <1>1 DEF CronFires
<1>3. UNCHANGED <<requests, presses, boot, poll, ready, firstJob, item, incident, rows, pipeVars>>
  BY DEF CronFires, pageVars
<1>4. IsFiniteSet(jobs) /\ OwnIds(jobs) /\ (\A x \in jobs : x.id \in Nat /\ x.id <= lastJob)
      /\ \A from \in Nat : OnItsWay(from) => jobs \subseteq Job(from)
  BY DEF DemoTypes, JobsOK, OnItsWay, Job
<1> HIDE DEF payloads
<1>5. {1} \in SUBSET DOMAIN payloads
  BY <1>1
<1> QED BY <1>1, <1>2, <1>3, <1>4, <1>5, StartKeeps

\* The controller starts the workers, or some of them.
LEMMA ControllerKeeps ==
  ASSUME DemoTypes, NEW j \in jobs, RunController(j) \/ ControllerFails(j)
  PROVE  Kept
<1> DEFINE payloads == [i \in DOMAIN Payloads |-> Worker(Payloads[i])]
<1>1. payloads \in Seq(Payload)
  BY ControllerPayloads
<1>2. PICK J \in {jobs \ {j}, (jobs \ {j}) \cup Retried(j)}, accepted \in SUBSET DOMAIN payloads :
        jobs' = J \cup Invoked(payloads, accepted)
  <2>1. CASE RunController(j)
    <3>1. jobs' = (jobs \ {j}) \cup Invoked(payloads, DOMAIN payloads)
      BY <2>1 DEF RunController
    <3> HIDE DEF payloads
    <3> QED BY <3>1
  <2>2. CASE ControllerFails(j)
    <3>1. PICK accepted \in (SUBSET DOMAIN payloads) \ {DOMAIN payloads} :
            jobs' = (jobs \ {j}) \cup Retried(j) \cup Invoked(payloads, accepted)
      BY <2>2 DEF ControllerFails
    <3> HIDE DEF payloads
    <3> QED BY <3>1
  <2> QED BY <2>1, <2>2
<1>3. lastJob' = lastJob + Len(payloads)
      /\ UNCHANGED <<requests, presses, boot, poll, ready, firstJob,
                     item, incident, rows, pipeVars>>
  BY DEF RunController, ControllerFails, pageVars, histVars
<1>4. IsFiniteSet(J) /\ OwnIds(J) /\ \A x \in J : x.id \in Nat /\ x.id <= lastJob
  BY <1>2, JobsLeave DEF DemoTypes
<1>5. \A from \in Nat : OnItsWay(from) => J \subseteq Job(from)
  BY <1>2, RetriedIsJob DEF OnItsWay
<1> HIDE DEF payloads
<1> QED BY <1>1, <1>2, <1>3, <1>4, <1>5, StartKeeps

\* A worker puts its burst, or a part of it, or nothing.
LEMMA WorkerKeeps ==
  ASSUME DemoTypes, NEW j \in jobs, PutBurst(j) \/ LoseChunk(j) \/ WorkerCrashes(j)
  PROVE  Kept
<1>1. jobs' \in {jobs \ {j}, (jobs \ {j}) \cup Retried(j)}
      /\ UNCHANGED <<lastJob, requests, presses, boot, poll, ready, firstJob, item, incident, rows,
                     risks, unprojected>>
  BY DEF PutBurst, LoseChunk, WorkerCrashes, pageVars, histVars
<1>2. j.job.fn = "worker"
      /\ (Put(j, Bursts(j.job.scenario)) \/ Put(j, FirstPhase) \/ UNCHANGED stream)
  BY DEF PutBurst, LoseChunk, WorkerCrashes
<1>3. JobsOK' /\ lastJob \in Nat /\ lastJob <= lastJob'
  <2>1. IsFiniteSet(jobs') /\ OwnIds(jobs')
    BY <1>1, JobsLeave DEF DemoTypes
  <2>2. lastJob \in Nat /\ lastJob' = lastJob
    BY <1>1 DEF DemoTypes, JobsOK
  <2> QED BY <2>1, <2>2 DEF JobsOK, OwnIds
<1>4. ASSUME NEW from \in Nat, OnItsWay(from)
      PROVE  OnItsWay(from)'
  <2>1. j \in Job(from) /\ Retried(j) \subseteq Job(from)
    BY <1>4, RetriedIsJob DEF OnItsWay
  <2>2. jobs' \subseteq Job(from)
    BY <1>1, <1>4, <2>1 DEF OnItsWay
  <2>3. stream' \in [Assets -> Seq(Chunk(from))]
    BY <1>2, <1>3, <1>4, <2>1, BurstIsChunks DEF OnItsWay
  <2> QED BY <1>1, <1>4, <2>2, <2>3 DEF OnItsWay, Job, Chunk
<1> QED BY <1>1, <1>3, <1>4, JobsStep

\* A step of the pipeline.
LEMMA FlowStep ==
  ASSUME DemoTypes, UNCHANGED <<requests, presses, boot, poll, ready, firstJob, jobs, lastJob>>,
         TablesOK', \A from \in Nat : OnItsWay(from) => OnItsWay(from)' /\ NothingOld(from)
  PROVE  Kept
<1>1. RequestsOK' /\ PageOK' /\ JobsOK'
  BY DEF DemoTypes, RequestsOK, PageOK, JobsOK, OwnIds, Request, Call, Payload
<1> QED BY <1>1 DEF Kept, DemoTypes

LEMMA AssessKeeps ==
  ASSUME DemoTypes, NEW a \in Assets, Assess(a)
  PROVE  Kept
<1> DEFINE chunk == Head(stream[a])
           partial == item[a] # None /\ item[a].state = None
           diagnosed == item[a] # None /\ item[a].diagnosed
<1>1. UNCHANGED <<requests, presses, boot, poll, ready, firstJob, jobs, lastJob, incident, rows>>
      /\ stream[a] # <<>> /\ stream' = [stream EXCEPT ![a] = Tail(@)]
  BY DEF Assess, pageVars, histVars
<1>2. \/ UNCHANGED <<item, risks, unprojected>>
      \/ /\ item' = [item EXCEPT ![a] = [state |-> chunk.state, by |-> chunk.by,
                                          diagnosed |-> diagnosed]]
         /\ risks' = [risks EXCEPT ![a] = Append(@, chunk)]
         /\ unprojected' = [unprojected EXCEPT ![a] = @ \cup {chunk.by}]
  BY DEF Assess
<1>3. diagnosed \in BOOLEAN
  <2>1. item[a] \in Item => item[a].diagnosed \in BOOLEAN
    BY DEF Item
  <2> QED BY <2>1, Zenon DEF DemoTypes, TablesOK
<1>4. ASSUME NEW from \in Nat, OnItsWay(from)
      PROVE  /\ chunk \in Chunk(from) /\ chunk.state \in States /\ chunk.by \in from .. lastJob
             /\ Tail(stream[a]) \in Seq(Chunk(from))
  <2>1. stream[a] \in Seq(Chunk(from))
    BY <1>4 DEF OnItsWay
  <2>2. chunk \in Chunk(from) /\ Tail(stream[a]) \in Seq(Chunk(from))
    BY <1>1, <2>1, HeadTailProperties
  <2> QED BY <2>2 DEF Chunk
<1>5. lastJob \in Nat
  BY DEF DemoTypes, JobsOK
<1>6. chunk.by \in Nat /\ chunk.state \in States
  BY <1>4, <1>5 DEF DemoTypes
<1> HIDE DEF chunk, diagnosed
<1>7. TablesOK'
  <2>1. [state |-> chunk.state, by |-> chunk.by, diagnosed |-> diagnosed] \in Item
    BY <1>3, <1>6 DEF Item
  <2>2. item' \in [Assets -> Item \cup {None}]
    BY <1>2, <2>1 DEF DemoTypes, TablesOK
  <2> QED BY <1>1, <2>2 DEF DemoTypes, TablesOK, Item
<1>8. ASSUME NEW from \in Nat, OnItsWay(from)
      PROVE  OnItsWay(from)' /\ NothingOld(from)
  <2>1. chunk.by \in from .. lastJob /\ chunk \in Chunk(from)
    BY <1>4, <1>8
  <2>2. stream' \in [Assets -> Seq(Chunk(from))]
    BY <1>1, <1>4, <1>8 DEF OnItsWay
  <2>3. risks' \in [Assets -> Seq(Chunk(from))]
    <3>1. risks \in [Assets -> Seq(Chunk(from))]
      BY <1>8 DEF OnItsWay
    <3>2. Append(risks[a], chunk) \in Seq(Chunk(from))
      BY <2>1, <3>1, AppendProperties
    <3> QED BY <1>2, <3>1, <3>2
  <2>4. unprojected' \in [Assets -> SUBSET (from .. lastJob)]
    <3>1. unprojected \in [Assets -> SUBSET (from .. lastJob)]
      BY <1>8 DEF OnItsWay
    <3>2. unprojected[a] \cup {chunk.by} \in SUBSET (from .. lastJob)
      BY <2>1, <3>1
    <3> QED BY <1>2, <3>1, <3>2
  <2>5. OnItsWay(from)'
    BY <1>1, <1>8, <2>2, <2>3, <2>4 DEF OnItsWay, Chunk, Job
  <2>6. ~(chunk.by < from)
    BY <1>5, <2>1
  <2>7. \A b \in Assets : item'[b] # None /\ item'[b].by < from =>
                          item[b] # None /\ item[b].by < from
    BY <1>2, <2>6 DEF DemoTypes, TablesOK
  <2> QED BY <1>1, <2>5, <2>7 DEF NothingOld
<1> QED BY <1>1, <1>7, <1>8, FlowStep

LEMMA RespondKeeps ==
  ASSUME DemoTypes, NEW a \in Assets, Respond(a)
  PROVE  Kept
<1> DEFINE chunk == Head(risks[a])
<1>1. UNCHANGED <<requests, presses, boot, poll, ready, firstJob,
                  jobs, lastJob, rows, stream, unprojected>>
      /\ risks[a] # <<>> /\ risks' = [risks EXCEPT ![a] = Tail(@)]
  BY DEF Respond, pageVars, histVars
<1>2. \/ UNCHANGED <<item, incident>>
      \/ /\ item' = [item EXCEPT ![a] =
                       IF @ = None THEN [state |-> None, by |-> chunk.by, diagnosed |-> TRUE]
                       ELSE [@ EXCEPT !.diagnosed = TRUE]]
         /\ incident' = [incident EXCEPT ![a] = IF @ = None THEN chunk.by ELSE @]
  BY DEF Respond
<1>3. ASSUME NEW from \in Nat, OnItsWay(from)
      PROVE  chunk.by \in from .. lastJob /\ Tail(risks[a]) \in Seq(Chunk(from))
  <2>1. risks[a] \in Seq(Chunk(from))
    BY <1>3 DEF OnItsWay
  <2>2. chunk \in Chunk(from) /\ Tail(risks[a]) \in Seq(Chunk(from))
    BY <1>1, <2>1, HeadTailProperties
  <2> QED BY <2>2 DEF Chunk
<1>4. lastJob \in Nat
  BY DEF DemoTypes, JobsOK
<1>5. chunk.by \in 1 .. lastJob
  BY <1>3, <1>4 DEF DemoTypes
<1> HIDE DEF chunk
<1>6. TablesOK'
  <2>1. [state |-> None, by |-> chunk.by, diagnosed |-> TRUE] \in Item
    BY <1>5 DEF Item
  <2>2. item[a] \in Item => [item[a] EXCEPT !.diagnosed = TRUE] \in Item
    BY DEF Item
  <2>3. item' \in [Assets -> Item \cup {None}]
    BY <1>2, <2>1, <2>2 DEF DemoTypes, TablesOK
  <2>4. incident' \in [Assets -> (1 .. lastJob) \cup {None}]
    BY <1>2, <1>5 DEF DemoTypes, TablesOK
  <2> QED BY <1>1, <2>3, <2>4 DEF DemoTypes, TablesOK, Item
<1>7. ASSUME NEW from \in Nat, OnItsWay(from)
      PROVE  OnItsWay(from)' /\ NothingOld(from)
  <2>1. risks' \in [Assets -> Seq(Chunk(from))]
    BY <1>1, <1>3, <1>7 DEF OnItsWay
  <2>2. OnItsWay(from)'
    BY <1>1, <1>7, <2>1 DEF OnItsWay, Chunk, Job
  <2>3. ~(chunk.by < from)
    BY <1>3, <1>4, <1>7
  <2>4. \A b \in Assets : item'[b] # None /\ item'[b].by < from =>
                          item[b] # None /\ item[b].by < from
    <3> TAKE b \in Assets
    <3>1. CASE item'[b] = item[b]
      BY <3>1
    <3>2. CASE item[b] = None /\ item'[b] = [state |-> None, by |-> chunk.by, diagnosed |-> TRUE]
      BY <2>3, <3>2
    <3>3. CASE item[b] # None /\ item'[b] = [item[b] EXCEPT !.diagnosed = TRUE]
      <4>1. item[b] \in Item
        BY <3>3 DEF DemoTypes, TablesOK
      <4>2. item'[b].by = item[b].by
        BY <3>3, <4>1 DEF Item
      <4> QED BY <3>3, <4>2
    <3> QED BY <1>2, <3>1, <3>2, <3>3 DEF DemoTypes, TablesOK
  <2>5. \A b \in Assets : incident'[b] # None /\ incident'[b] < from =>
                            incident[b] # None /\ incident[b] < from
    BY <1>2, <2>3 DEF DemoTypes, TablesOK
  <2> QED BY <1>1, <2>2, <2>4, <2>5 DEF NothingOld
<1> QED BY <1>1, <1>6, <1>7, FlowStep

LEMMA WindowKeeps ==
  ASSUME DemoTypes, NEW a \in Assets, WindowEnds(a)
  PROVE  Kept
<1>1. UNCHANGED <<requests, presses, boot, poll, ready, firstJob,
                  jobs, lastJob, incident, rows, pipeVars>>
      /\ item[a] # None /\ item' = [item EXCEPT ![a].diagnosed = FALSE]
  BY DEF WindowEnds, pageVars, histVars
<1>2. item[a] \in Item
  BY <1>1 DEF DemoTypes, TablesOK
<1>3. \A b \in Assets : item'[b] = IF b = a THEN [item[a] EXCEPT !.diagnosed = FALSE] ELSE item[b]
  BY <1>1 DEF DemoTypes, TablesOK
<1>4. /\ [item[a] EXCEPT !.diagnosed = FALSE] \in Item
      /\ [item[a] EXCEPT !.diagnosed = FALSE].by = item[a].by
  BY <1>2 DEF Item
<1>5. item' \in [Assets -> Item \cup {None}]
  BY <1>1, <1>3, <1>4 DEF DemoTypes, TablesOK
<1>6. TablesOK'
  BY <1>1, <1>5 DEF DemoTypes, TablesOK, Item
<1>7. \A from \in Nat : NothingOld(from)
  BY <1>1, <1>3, <1>4 DEF NothingOld
<1> QED BY <1>1, <1>6, <1>7, FlowStep, WayKept

LEMMA ProjectKeeps ==
  ASSUME DemoTypes, NEW a \in Assets, Project(a)
  PROVE  Kept
<1>1. UNCHANGED <<requests, presses, boot, poll, ready, firstJob,
                  jobs, lastJob, item, incident, stream, risks>>
  BY DEF Project, pageVars, histVars
<1>2. PICK job \in unprojected[a] :
        /\ rows' = [rows EXCEPT ![a] = @ \cup {job}]
        /\ unprojected' = [unprojected EXCEPT ![a] = @ \ {job}]
  BY DEF Project
<1>3. lastJob \in Nat
  BY DEF DemoTypes, JobsOK
<1>4. \A from \in Nat : OnItsWay(from) => job \in from .. lastJob
  BY DEF OnItsWay
<1>5. job \in 1 .. lastJob
  BY <1>4 DEF DemoTypes
<1>6. TablesOK'
  BY <1>1, <1>2, <1>5 DEF DemoTypes, TablesOK, Item
<1>7. ASSUME NEW from \in Nat, OnItsWay(from)
      PROVE  OnItsWay(from)' /\ NothingOld(from)
  <2>1. unprojected' \in [Assets -> SUBSET (from .. lastJob)]
    BY <1>2, <1>7 DEF OnItsWay
  <2>2. OnItsWay(from)'
    BY <1>1, <1>7, <2>1 DEF OnItsWay, Chunk, Job
  <2>3. ~(job < from)
    BY <1>3, <1>4, <1>7
  <2>4. \A b \in Assets : \A old \in rows'[b] : old < from => old \in rows[b]
    BY <1>2, <2>3 DEF DemoTypes, TablesOK
  <2> QED BY <1>1, <2>2, <2>4 DEF NothingOld
<1> QED BY <1>1, <1>6, <1>7, FlowStep

-----------------------------------------------------------------------------
(* Types.                                                                  *)

LEMMA StepKeeps ==
  ASSUME DemoTypes, [Next]_vars
  PROVE  Kept
<1>1. ASSUME NEW button \in Buttons, Press(button)
      PROVE  Kept
  BY <1>1, PressKeeps
<1>2. ASSUME NEW r \in requests, Handle(r) \/ Interrupt(r)
      PROVE  Kept
  BY <1>2, AnswerKeeps, LoseAnswerKeeps, CallKeeps, CallFailsKeeps DEF Handle, Interrupt
<1>3. CASE CronFires
  BY <1>3, CronKeeps
<1>4. ASSUME NEW j \in jobs, Run(j) \/ Break(j)
      PROVE  Kept
  BY <1>4, ControllerKeeps, WorkerKeeps DEF Run, Break
<1>5. ASSUME NEW a \in Assets, Flow(a) \/ WindowEnds(a)
      PROVE  Kept
  BY <1>5, AssessKeeps, RespondKeeps, ProjectKeeps, WindowKeeps DEF Flow
<1>6. CASE Readiness
  BY <1>6, ReadinessKeeps
<1>7. CASE UNCHANGED vars
  <2>1. UNCHANGED <<requests, presses, boot, poll, ready, firstJob,
                    jobs, lastJob, item, incident, rows,
                    pipeVars>>
    BY <1>7 DEF vars, apiVars, pageVars, histVars
  <2>2. JobsOK' /\ lastJob \in Nat
    BY <2>1 DEF DemoTypes, JobsOK, OwnIds
  <2> QED BY <2>1, <2>2, JobsStep, WayKept
<1> QED BY <1>1, <1>2, <1>3, <1>4, <1>5, <1>6, <1>7 DEF Next

LEMMA InitTypes ==
  ASSUME Init
  PROVE  DemoTypes
<1>1. RequestsOK /\ JobsOK
  BY FS_EmptySet DEF Init, RequestsOK, JobsOK, OwnIds
<1>2. OnItsWay(1) /\ TablesOK /\ PageOK
  BY DEF Init, OnItsWay, TablesOK, PageOK
<1> QED BY <1>1, <1>2 DEF DemoTypes

\* The inductive invariant implies the type invariant.
LEMMA TypesImplyTypeOK ==
  ASSUME DemoTypes
  PROVE  TypeOK
<1>1. Cardinality({r.id : r \in requests}) = Cardinality(requests)
      /\ Cardinality({j.id : j \in jobs}) = Cardinality(jobs)
  BY CardinalityOfIds DEF DemoTypes, RequestsOK, JobsOK
<1>2. ASSUME NEW a \in Assets
      PROVE  /\ item[a] # None => item[a].state \in States \cup {None}
             /\ unprojected[a] \cup rows[a] \subseteq 1 .. lastJob
             /\ incident[a] \in 1 .. lastJob \cup {None}
  BY DEF DemoTypes, TablesOK, OnItsWay, Item
<1> QED BY <1>1, <1>2 DEF TypeOK, DemoTypes, PageOK

\* The requests and jobs of the console have ids of their own, and every row and
\* incident is of a job there was: TypeOK always holds.
THEOREM DemoTypeCorrect == Spec => []TypeOK
<1>1. Init => DemoTypes
  BY InitTypes
<1>2. DemoTypes /\ [Next]_vars => DemoTypes'
  BY StepKeeps DEF Kept
<1>3. DemoTypes => TypeOK
  BY TypesImplyTypeOK
<1> QED BY <1>1, <1>2, <1>3, PTL DEF Spec

-----------------------------------------------------------------------------
(* The tables start afresh.                                                *)

\* What was swept of a request is so after a step, if what was still to be
\* deleted by it still is, or is deleted now.
LEMMA SweptKept ==
  ASSUME NEW r, NEW q, q.since = r.since, Swept(r), NothingOld(r.since),
         undisturbed' => undisturbed,
         \A a \in Fleet :
           /\ ToDelete(r, "incidents", a) => ToDelete(q, "incidents", a) \/ incident'[a] = None
           /\ ToDelete(r, "history", a) => ToDelete(q, "history", a) \/ rows'[a] = {}
           /\ ToDelete(r, "state", a) =>
                ToDelete(q, "state", a) \/ item'[a] = None \/ ~undisturbed'
  PROVE  Swept(q)'
<1>1. Fleet \subseteq Assets
  BY DEF Assets
<1> QED BY <1>1 DEF Swept, NothingOld, ToDelete

\* The tables stay clean where no older data comes.
LEMMA CleanKept ==
  ASSUME DemoTypes, DemoTypes', CompletedIsClean, NothingOld(firstJob), firstJob' = firstJob,
         boot' = "completed" /\ undisturbed' => boot = "completed" /\ undisturbed
  PROVE  CompletedIsClean'
<1>1. Fleet \subseteq Assets
  BY DEF Assets
<1>2. firstJob \in Nat
  BY DEF DemoTypes, PageOK
<1> SUFFICES ASSUME NEW a \in Fleet
             PROVE  /\ incident'[a] # None => incident'[a] >= firstJob
                    /\ \A job \in rows'[a] : job >= firstJob
                    /\ boot' = "completed" /\ undisturbed' /\ item'[a] # None =>
                         item'[a].by >= firstJob
  BY DEF CompletedIsClean
<1>3. /\ incident[a] # None => incident[a] \in Nat
      /\ incident'[a] # None => incident'[a] \in Nat
      /\ rows[a] \subseteq Nat /\ rows'[a] \subseteq Nat
      /\ item[a] # None => item[a].by \in Nat
      /\ item'[a] # None => item'[a].by \in Nat
  BY <1>1 DEF DemoTypes, TablesOK, Item
<1>4. incident'[a] # None => incident'[a] >= firstJob
  BY <1>1, <1>2, <1>3 DEF CompletedIsClean, NothingOld
<1>5. \A job \in rows'[a] : job >= firstJob
  BY <1>1, <1>2, <1>3 DEF CompletedIsClean, NothingOld
<1>6. boot' = "completed" /\ undisturbed' /\ item'[a] # None => item'[a].by >= firstJob
  BY <1>1, <1>2, <1>3 DEF CompletedIsClean, NothingOld
<1> QED BY <1>4, <1>5, <1>6

\* A step that leaves the requests, boot and firstJob alone.
LEMMA CleanElsewhere ==
  ASSUME DemoTypes, CleanInv, Kept, UNCHANGED <<requests, boot, firstJob>>,
         undisturbed' => undisturbed
  PROVE  CleanInv'
<1>1. firstJob \in Nat /\ \A r \in requests : r.since \in Nat
  BY DEF DemoTypes, RequestsOK, Request, PageOK
<1>2. OnItsWay(firstJob)' /\ NothingOld(firstJob)
  <2>1. OnItsWay(firstJob)
    BY DEF CleanInv
  <2> QED BY <1>1, <2>1 DEF Kept, OnItsWay, Job, Chunk
<1>3. \A r \in requests : OnItsWay(r.since)' /\ NothingOld(r.since)
  BY <1>1 DEF CleanInv, Kept
<1>4. \A r \in requests : r.button = "bootstrap" => Swept(r)'
  BY <1>3, SweptKept DEF CleanInv
<1>5. CompletedIsClean'
  BY <1>2, CleanKept DEF CleanInv, Kept
<1> QED BY <1>2, <1>3, <1>4, <1>5 DEF CleanInv

\* What follows for any step from what it keeps.
LEMMA WayClean ==
  ASSUME DemoTypes, CleanInv, Kept
  PROVE  /\ \A r \in requests : OnItsWay(r.since)' /\ NothingOld(r.since)
         /\ NothingOld(firstJob)
         /\ firstJob' = firstJob => OnItsWay(firstJob)'
<1>1. firstJob \in Nat /\ \A r \in requests : r.since \in Nat
  BY DEF DemoTypes, RequestsOK, Request, PageOK
<1>2. \A r \in requests : OnItsWay(r.since)' /\ NothingOld(r.since)
  BY <1>1 DEF CleanInv, Kept
<1>3. OnItsWay(firstJob)
  BY DEF CleanInv
<1>4. NothingOld(firstJob) /\ (firstJob' = firstJob => OnItsWay(firstJob)')
  BY <1>1, <1>3 DEF Kept, OnItsWay, Job, Chunk
<1> QED BY <1>2, <1>4

\* A bootstrap that begins in quiet is younger than everything there is, and has
\* all of it still to delete.
LEMMA PressClean ==
  ASSUME DemoTypes, CleanInv, NEW button \in Buttons, Press(button)
  PROVE  CleanInv'
<1>1. Kept
  BY PressKeeps
<1>2. PICK q : /\ requests' = requests \cup {q}
               /\ q.button = button
               /\ q.since = IF Quiet THEN lastJob + 1 ELSE 0
               /\ button = "bootstrap" => q.calls = Bootstrap
  <2>1. PICK choice \in Choices(button) :
          requests' = requests \cup
            {[id |-> presses', button |-> button, waiting |-> TRUE,
              since |-> IF Quiet THEN lastJob + 1 ELSE 0,
              calls |-> Calls(button, choice[1], choice[2])]}
    BY DEF Press
  <2> DEFINE new == [id |-> presses', button |-> button, waiting |-> TRUE,
                     since |-> IF Quiet THEN lastJob + 1 ELSE 0,
                     calls |-> Calls(button, choice[1], choice[2])]
  <2>2. button = "bootstrap" => Calls(button, choice[1], choice[2]) = Bootstrap
    BY DEF Calls
  <2>3. /\ new.button = button /\ new.since = IF Quiet THEN lastJob + 1 ELSE 0
        /\ button = "bootstrap" => new.calls = Bootstrap
    BY <2>2
  <2>4. requests' = requests \cup {new}
    BY <2>1
  <2> HIDE DEF new
  <2> QED BY <2>3, <2>4
<1>3. lastJob \in Nat
  BY DEF DemoTypes, JobsOK
<1>4. firstJob' = firstJob /\ UNCHANGED <<jobs, lastJob, item, incident, rows, pipeVars>>
      /\ undisturbed' = (button = "bootstrap" /\ Quiet)
      /\ boot' = IF button = "bootstrap" THEN "running" ELSE boot
  BY DEF Press
<1>5. OnItsWay(q.since)
  <2>1. CASE Quiet
    <3>1. jobs = {} /\ \A a \in Assets : stream[a] = <<>> /\ risks[a] = <<>> /\ unprojected[a] = {}
      BY <2>1 DEF Quiet, PipelineEmpty
    <3>2. OnItsWay(lastJob + 1)
      BY <1>3, <3>1 DEF OnItsWay, DemoTypes
    <3> QED BY <1>2, <2>1, <3>2
  <2>2. CASE ~Quiet
    <3>1. Job(1) \subseteq Job(0) /\ Chunk(1) \subseteq Chunk(0)
      BY <1>3 DEF Job, Chunk
    <3>2. \A s \in Seq(Chunk(1)) : s \in Seq(Chunk(0))
      BY <3>1, SeqMonotonic
    <3>3. stream \in [Assets -> Seq(Chunk(0))] /\ risks \in [Assets -> Seq(Chunk(0))]
      BY <3>2 DEF DemoTypes, OnItsWay
    <3>4. unprojected \in [Assets -> SUBSET (0 .. lastJob)]
      BY <1>3 DEF DemoTypes, OnItsWay
    <3>5. OnItsWay(0)
      BY <1>3, <3>1, <3>3, <3>4 DEF DemoTypes, OnItsWay
    <3> QED BY <1>2, <2>2, <3>5
  <2> QED BY <2>1, <2>2
<1>6. OnItsWay(q.since)'
  <2>1. q.since \in Nat
    BY <1>2, <1>3
  <2> QED BY <1>4, <1>5, <2>1, WayKept
<1>7. ASSUME q.button = "bootstrap"
      PROVE  Swept(q)'
  <2>1. q.calls = Bootstrap
    BY <1>2, <1>7
  <2>2. \A a \in Fleet : \A table \in {"state", "incidents", "history"} : ToDelete(q, table, a)
    BY <2>1, BootstrapDeletes DEF ToDelete
  <2> QED BY <2>2 DEF Swept, ToDelete
<1>8. ASSUME NEW r \in requests, r.button = "bootstrap"
      PROVE  Swept(r)'
  <2>1. Swept(r)
    BY <1>8 DEF CleanInv
  <2>2. ~undisturbed'
    BY <1>4, <1>8 DEF Quiet
  <2> QED BY <1>4, <2>1, <2>2 DEF Swept, ToDelete
<1>9. CompletedIsClean'
  BY <1>1, <1>4, WayClean, CleanKept DEF CleanInv, Kept
<1> QED BY <1>1, <1>2, <1>4, <1>6, <1>7, <1>8, <1>9, WayClean DEF CleanInv

\* When the answer of a bootstrap arrives, it has nothing left to delete.
LEMMA AnswerClean ==
  ASSUME DemoTypes, CleanInv, NEW r \in requests, Answer(r)
  PROVE  CleanInv'
<1>1. Kept
  BY AnswerKeeps
<1>2. requests' = requests \ {r} /\ r.calls = <<>> /\ boot' = Shown(r, "completed")
      /\ undisturbed' = undisturbed /\ UNCHANGED <<item, incident, rows>>
      /\ firstJob' = (IF boot' # boot THEN r.since ELSE firstJob)
  BY DEF Answer
<1>3. \A q \in requests' : q.button = "bootstrap" => Swept(q)'
  BY <1>2 DEF CleanInv, Swept, ToDelete
<1>4. \A q \in requests' : OnItsWay(q.since)'
  BY <1>1, <1>2, WayClean
<1>5. CASE boot' = boot
  <2>1. firstJob' = firstJob
    BY <1>2, <1>5
  <2>2. CompletedIsClean'
    BY <1>1, <1>2, <1>5, <2>1, WayClean, CleanKept DEF CleanInv, Kept
  <2> QED BY <1>1, <1>3, <1>4, <2>1, <2>2, WayClean DEF CleanInv
<1>6. CASE boot' # boot
  <2>1. r.button = "bootstrap" /\ firstJob' = r.since
    BY <1>2, <1>6 DEF Shown
  <2>2. OnItsWay(firstJob)'
    <3>1. OnItsWay(r.since)'
      BY <1>1, WayClean
    <3> QED BY <2>1, <3>1 DEF OnItsWay, Job, Chunk
  <2>3. Swept(r) /\ \A table, a : ~ToDelete(r, table, a)
    BY <1>2, <2>1 DEF CleanInv, ToDelete
  <2>4. r.since \in Nat /\ Fleet \subseteq Assets
    BY DEF DemoTypes, RequestsOK, Request, Assets
  <2>5. ASSUME NEW a \in Fleet
        PROVE  /\ incident[a] # None => incident[a] >= r.since
               /\ \A job \in rows[a] : job >= r.since
               /\ undisturbed /\ item[a] # None => item[a].by >= r.since
    <3>1. /\ incident[a] # None => incident[a] \in Nat
          /\ rows[a] \subseteq Nat
          /\ item[a] # None => item[a].by \in Nat
      BY <2>4 DEF DemoTypes, JobsOK, TablesOK, Item
    <3>2. incident[a] # None => ~(incident[a] < r.since)
      BY <2>3 DEF Swept
    <3>3. \A job \in rows[a] : ~(job < r.since)
      BY <2>3 DEF Swept
    <3>4. undisturbed /\ item[a] # None => ~(item[a].by < r.since)
      BY <2>3 DEF Swept
    <3> QED BY <2>4, <3>1, <3>2, <3>3, <3>4
  <2>6. CompletedIsClean'
    BY <1>2, <2>1, <2>5 DEF CompletedIsClean
  <2> QED BY <1>3, <1>4, <2>2, <2>6 DEF CleanInv
<1> QED BY <1>5, <1>6

LEMMA LoseAnswerClean ==
  ASSUME DemoTypes, CleanInv, NEW r \in requests, LoseAnswer(r)
  PROVE  CleanInv'
<1>1. Kept
  BY LoseAnswerKeeps
<1> DEFINE q == [r EXCEPT !.waiting = FALSE]
<1>2. requests' = (requests \ {r}) \cup {q} /\ boot' = Shown(r, "failed") /\ firstJob' = firstJob
      /\ ~undisturbed' /\ UNCHANGED <<item, incident, rows>>
  BY DEF LoseAnswer, Mishap
<1>3. q.button = r.button /\ q.since = r.since /\ q.calls = r.calls
  BY DEF DemoTypes, RequestsOK, Request
<1> HIDE DEF q
<1>4. \A x \in requests : x.button = "bootstrap" => Swept(x)'
  BY <1>2 DEF CleanInv, Swept, ToDelete
<1>5. ASSUME q.button = "bootstrap"
      PROVE  Swept(q)'
  <2>1. Swept(r) /\ NothingOld(r.since)
    BY <1>1, <1>3, <1>5, WayClean DEF CleanInv
  <2>2. \A table, a : ToDelete(r, table, a) => ToDelete(q, table, a)
    BY <1>3 DEF ToDelete
  <2> QED BY <1>2, <1>3, <2>1, <2>2, SweptKept
<1>6. CompletedIsClean'
  BY <1>1, <1>2, WayClean, CleanKept DEF CleanInv, Kept
<1>7. \A x \in requests' : OnItsWay(x.since)'
  <2>1. OnItsWay(r.since)'
    BY <1>1, WayClean
  <2>2. OnItsWay(q.since)'
    BY <1>3, <2>1 DEF OnItsWay, Job, Chunk
  <2> QED BY <1>1, <1>2, <2>2, WayClean
<1> QED BY <1>1, <1>2, <1>4, <1>5, <1>6, <1>7, WayClean DEF CleanInv

\* A call that was made, or whose error was dropped.
LEMMA CallClean ==
  ASSUME DemoTypes, CleanInv, NEW r \in requests, r.calls # <<>>,
         \/ DeleteState(r) \/ DeleteStateFails(r) \/ DeleteIncidents(r) \/ DeleteHistory(r)
         \/ InvokeWorkers(r) \/ SwitchCron(r)
  PROVE  CleanInv'
<1>1. Kept
  BY CallKeeps
<1> DEFINE q == [r EXCEPT !.calls = Tail(@)]
           call == Head(r.calls)
<1>2. requests' = (requests \ {r}) \cup {q} /\ UNCHANGED <<boot, firstJob>>
      /\ (undisturbed' => undisturbed)
  BY DEF DeleteState, DeleteStateFails, DeleteIncidents, DeleteHistory, InvokeWorkers, SwitchCron,
         Next1, Mishap, pageVars, histVars
<1>3. q.button = r.button /\ q.since = r.since /\ call \in Call
      /\ \A table, a : ToDelete(r, table, a) /\ ~(call.do = table /\ a \in call.assets)
                       => ToDelete(q, table, a)
  BY CallMade DEF DemoTypes, RequestsOK
<1>4. Fleet \subseteq Assets
  BY DEF Assets
<1>5. ASSUME NEW a \in Fleet, a \in call.assets
      PROVE  /\ call.do = "incidents" => incident'[a] = None
             /\ call.do = "history" => rows'[a] = {}
             /\ call.do = "state" => item'[a] = None \/ ~undisturbed'
  <2>1. call.do = "incidents" => DeleteIncidents(r)
    BY DEF DeleteState, DeleteStateFails, DeleteIncidents, DeleteHistory, InvokeWorkers, SwitchCron
  <2>2. call.do = "history" => DeleteHistory(r)
    BY DEF DeleteState, DeleteStateFails, DeleteIncidents, DeleteHistory, InvokeWorkers, SwitchCron
  <2>3. call.do = "state" => DeleteState(r) \/ DeleteStateFails(r)
    BY DEF DeleteState, DeleteStateFails, DeleteIncidents, DeleteHistory, InvokeWorkers, SwitchCron
  <2>4. DeleteIncidents(r) => incident'[a] = None
    BY <1>4, <1>5 DEF DeleteIncidents
  <2>5. DeleteHistory(r) => rows'[a] = {}
    BY <1>4, <1>5 DEF DeleteHistory
  <2>6. DeleteState(r) => item'[a] = None
    BY <1>4, <1>5 DEF DeleteState
  <2>7. DeleteStateFails(r) => ~undisturbed'
    BY DEF DeleteStateFails, Mishap
  <2> QED BY <2>1, <2>2, <2>3, <2>4, <2>5, <2>6, <2>7
<1> HIDE DEF q, call
<1>6. \A x \in requests : x.button = "bootstrap" => Swept(x)'
  BY <1>1, <1>2, WayClean, SweptKept DEF CleanInv
<1>7. ASSUME q.button = "bootstrap"
      PROVE  Swept(q)'
  <2>1. Swept(r) /\ NothingOld(r.since)
    BY <1>1, <1>3, <1>7, WayClean DEF CleanInv
  <2>2. \A a \in Fleet :
          /\ ToDelete(r, "incidents", a) => ToDelete(q, "incidents", a) \/ incident'[a] = None
          /\ ToDelete(r, "history", a) => ToDelete(q, "history", a) \/ rows'[a] = {}
          /\ ToDelete(r, "state", a) =>
               ToDelete(q, "state", a) \/ item'[a] = None \/ ~undisturbed'
    BY <1>3, <1>5
  <2> QED BY <1>2, <1>3, <2>1, <2>2, SweptKept
<1>8. CompletedIsClean'
  BY <1>1, <1>2, WayClean, CleanKept DEF CleanInv, Kept
<1>9. \A x \in requests' : OnItsWay(x.since)'
  <2>1. OnItsWay(r.since)'
    BY <1>1, WayClean
  <2>2. OnItsWay(q.since)'
    BY <1>3, <2>1 DEF OnItsWay, Job, Chunk
  <2> QED BY <1>1, <1>2, <2>2, WayClean
<1> QED BY <1>1, <1>2, <1>6, <1>7, <1>8, <1>9, WayClean DEF CleanInv

LEMMA CallFailsClean ==
  ASSUME DemoTypes, CleanInv, NEW r \in requests, r.calls # <<>>, CallFails(r)
  PROVE  CleanInv'
<1>1. Kept
  BY CallFailsKeeps
<1>2. requests' = requests \ {r} /\ boot' = Shown(r, "failed") /\ firstJob' = firstJob
      /\ ~undisturbed'
  BY DEF CallFails, Mishap
<1>3. \A x \in requests' : x.button = "bootstrap" => Swept(x)'
  BY <1>1, <1>2, WayClean, SweptKept DEF CleanInv
<1>4. CompletedIsClean'
  BY <1>1, <1>2, WayClean, CleanKept DEF CleanInv, Kept
<1> QED BY <1>1, <1>2, <1>3, <1>4, WayClean DEF CleanInv

LEMMA StepClean ==
  ASSUME DemoTypes, CleanInv, [Next]_vars
  PROVE  CleanInv'
<1>1. Kept
  BY StepKeeps
<1>2. ASSUME NEW button \in Buttons, Press(button)
      PROVE  CleanInv'
  BY <1>2, PressClean
<1>3. ASSUME NEW r \in requests, Handle(r) \/ Interrupt(r)
      PROVE  CleanInv'
  BY <1>3, AnswerClean, LoseAnswerClean, CallClean, CallFailsClean DEF Handle, Interrupt
<1>4. CASE CronFires \/ Readiness \/ UNCHANGED vars
  <2>1. UNCHANGED <<requests, boot, firstJob>> /\ (undisturbed' => undisturbed)
    <3>1. CASE CronFires
      BY <3>1 DEF CronFires, pageVars
    <3>2. CASE Readiness
      <4>1. UNCHANGED <<apiVars, boot, histVars>>
        BY <3>2, Zenon DEF Readiness, ReadItems, CountIncidents
      <4> QED BY <4>1 DEF apiVars, histVars
    <3>3. CASE UNCHANGED vars
      BY <3>3 DEF vars, apiVars, pageVars, histVars
    <3> QED BY <1>4, <3>1, <3>2, <3>3
  <2> QED BY <1>1, <2>1, CleanElsewhere
<1>5. ASSUME NEW j \in jobs, Run(j) \/ Break(j)
      PROVE  CleanInv'
  <2>1. UNCHANGED <<requests, boot, firstJob>> /\ (undisturbed' => undisturbed)
    BY <1>5 DEF Run, Break, RunController, PutBurst, ControllerFails, LoseChunk, WorkerCrashes,
                Mishap, pageVars, histVars
  <2> QED BY <1>1, <2>1, CleanElsewhere
<1>6. ASSUME NEW a \in Assets, Flow(a) \/ WindowEnds(a)
      PROVE  CleanInv'
  <2>1. UNCHANGED <<requests, boot, firstJob, undisturbed>>
    BY <1>6 DEF Flow, Assess, Respond, Project, WindowEnds, pageVars, histVars
  <2> QED BY <1>1, <2>1, CleanElsewhere
<1> QED BY <1>2, <1>3, <1>4, <1>5, <1>6 DEF Next

\* After a completed bootstrap that began while no data was on its way, nothing of
\* an earlier burst is left in the tables of the fleet, whatever went on beside it:
\* CompletedIsClean always holds, for any fleet, number of workers, of buttons
\* pressed and of faults.
THEOREM BootstrapIsClean == Spec => []CompletedIsClean
<1>1. Init => DemoTypes /\ CleanInv
  <2> SUFFICES ASSUME Init
               PROVE  CleanInv
    BY InitTypes
  <2>1. requests = {} /\ firstJob = 0 /\ jobs = {} /\ lastJob = 0
    BY DEF Init
  <2>2. OnItsWay(0)
    BY DEF Init, OnItsWay
  <2>3. CompletedIsClean
    BY DEF Init, CompletedIsClean, Assets
  <2> QED BY <2>1, <2>2, <2>3 DEF CleanInv
<1>2. DemoTypes /\ CleanInv /\ [Next]_vars => DemoTypes' /\ CleanInv'
  BY StepKeeps, StepClean DEF Kept
<1>3. CleanInv => CompletedIsClean
  BY DEF CleanInv
<1> QED BY <1>1, <1>2, <1>3, PTL DEF Spec

=============================================================================
