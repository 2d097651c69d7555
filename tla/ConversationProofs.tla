-------------------------- MODULE ConversationProofs --------------------------
(***************************************************************************)
(* Proofs about Conversation: the terminal neither discards an utterance   *)
(* nor loses its session in the middle of a conversation, for any timing   *)
(* in which that is possible at all; and what the router's answers, its    *)
(* log and the dashboard's panel of it say is true, for any intents,       *)
(* failures and changes of the tables.                                     *)
(***************************************************************************)
EXTENDS Conversation, SequenceTheorems, FiniteSetTheorems, TLAPS

-----------------------------------------------------------------------------
(* The terminal.                                                           *)

\* The chunk that has come but is not counted yet.
Unread == IF mic = <<>> THEN 0 ELSE 1

\* Every tick of a recording brought a chunk that is recorded, or still in the
\* buffer; so did every tick of the silence, and the quiet chunk before it.
Chunks ==
  /\ frames \in Nat /\ elapsed \in Nat /\ silence \in 0 .. None
  /\ pc \notin {"record", "send", "closed"} => elapsed = 0 /\ silence = None
  /\ pc = "record" => /\ frames >= 1 /\ elapsed <= MaxRecordTicks
                      /\ mic = <<>> => elapsed < MaxRecordTicks
                      /\ frames + Unread >= 1 + elapsed
                      /\ silence # None =>
                           /\ mic = <<>> => silence < SilenceTicks
                           /\ frames + Unread >= 2 + silence
  /\ pc = "send" => /\ elapsed <= MaxRecordTicks
                    /\ frames >= 2 + SilenceTicks \/ frames >= 1 + MaxRecordTicks

\* The time since the last activity is that since the last answer, and a
\* recording began no more than its length ago.
Times ==
  /\ begun \in Nat
  /\ pc \notin {"ask", "closed"} => idle = sinceAnswer
  /\ pc \in {"record", "send"} => sinceAnswer <= begun + elapsed
  /\ kept

TerminalInv ==
  /\ TerminalTypeOK /\ mic \in Seq({"quiet", "operator", "robot"})
  /\ Chunks /\ Times

\* The constants are numbers.
LEMMA TerminalNumbers ==
  /\ SilenceTicks \in Nat \ {0} /\ MaxRecordTicks \in Nat \ {0} /\ MinRecordChunks \in Nat \ {0}
  /\ PreRoll \in Nat \ {0} /\ BufferSize \in Nat \ {0}
  /\ SessionTimeout \in Nat /\ MaxTurns \in Nat /\ None = SilenceTicks + 1
BY TerminalAssumption DEF TerminalAssumption, None

\* A tick brings a chunk, and a buffer that is not full keeps it.
LEMMA SampledIs ==
  ASSUME mic \in Seq({"quiet", "operator", "robot"}), Len(mic) <= BufferSize,
         NEW chunk \in Sounds, mic' \in Sampled(chunk)
  PROVE  /\ mic' \in Seq({"quiet", "operator", "robot"}) /\ Len(mic') <= BufferSize
         /\ mic' # <<>>
<1>1. chunk \in {"quiet", "operator", "robot"}
  BY DEF Sounds
<1>2. CASE Len(mic) < BufferSize
  <2>1. mic' = Append(mic, chunk)
    BY <1>2 DEF Sampled
  <2> QED BY <1>1, <1>2, <2>1, TerminalNumbers
<1>3. CASE ~(Len(mic) < BufferSize)
  <2>1. Len(mic) = BufferSize /\ mic # <<>>
    BY <1>3, TerminalNumbers
  <2>2. mic' = mic \/ mic' = Append(Tail(mic), chunk)
    BY <1>3 DEF Sampled
  <2>3. Tail(mic) \in Seq({"quiet", "operator", "robot"}) /\ Len(Tail(mic)) = Len(mic) - 1
    BY <2>1
  <2> QED BY <1>1, <2>1, <2>2, <2>3, TerminalNumbers
<1> QED BY <1>2, <1>3

\* Reading a chunk.
LEMMA ReadChunk ==
  ASSUME mic \in Seq({"quiet", "operator", "robot"}), Len(mic) <= BufferSize, mic # <<>>,
         mic' = Tail(mic)
  PROVE  mic' \in Seq({"quiet", "operator", "robot"}) /\ Len(mic') <= BufferSize
<1>1. Tail(mic) \in Seq({"quiet", "operator", "robot"}) /\ Len(Tail(mic)) = Len(mic) - 1
  OBVIOUS
<1> QED BY <1>1, TerminalNumbers

LEMMA TickStep == ASSUME TerminalInv, Tick PROVE TerminalInv'
<1>1. /\ pc # "closed" /\ pc # "send" /\ (pc \in {"listen", "record"} => mic = <<>>)
      /\ IF pc = "ask" THEN UNCHANGED <<idle, sinceAnswer>>
         ELSE idle' = Capped(idle) /\ sinceAnswer' = Capped(sinceAnswer)
      /\ elapsed' = IF pc = "record" THEN elapsed + 1 ELSE elapsed
      /\ silence' = IF pc = "record" /\ silence # None THEN silence + 1 ELSE silence
      /\ UNCHANGED <<mode, pc, stop, ring, frames, session, turns, begun, kept>>
  BY DEF Tick
<1>2. /\ mic' \in Seq({"quiet", "operator", "robot"}) /\ Len(mic') <= BufferSize
      /\ mic' # <<>>
  BY SampledIs DEF Tick, TerminalInv, TerminalTypeOK
<1>3. /\ idle \in 0 .. SessionTimeout + 1 /\ sinceAnswer \in 0 .. SessionTimeout + 1
      /\ elapsed \in Nat /\ frames \in Nat /\ silence \in 0 .. None /\ begun \in Nat
  BY DEF TerminalInv, TerminalTypeOK, Chunks, Times
<1>4. /\ idle' \in 0 .. SessionTimeout + 1 /\ sinceAnswer' \in 0 .. SessionTimeout + 1
      /\ sinceAnswer' <= sinceAnswer + 1
      /\ idle = sinceAnswer => idle' = sinceAnswer'
  BY <1>1, <1>3, TerminalNumbers DEF Capped
<1>5. TerminalTypeOK'
  BY <1>1, <1>2, <1>4 DEF TerminalInv, TerminalTypeOK
<1>6. Unread' = 1 /\ (mic = <<>> => Unread = 0)
  BY <1>2 DEF Unread
<1>7. Chunks'
  <2>1. CASE pc = "record"
    <3>1. /\ mic = <<>> /\ elapsed < MaxRecordTicks /\ frames >= 1 + elapsed
          /\ silence # None => silence < SilenceTicks /\ frames >= 2 + silence
      BY <1>1, <1>3, <1>6, <2>1 DEF TerminalInv, Chunks
    <3>2. /\ elapsed' = elapsed + 1 /\ frames' = frames /\ pc' = "record"
          /\ silence' = IF silence # None THEN silence + 1 ELSE None
      BY <1>1, <2>1
    <3>3. silence' \in 0 .. None /\ (silence' # None => frames' + Unread' >= 2 + silence')
      BY <1>3, <1>6, <3>1, <3>2, TerminalNumbers
    <3>4. elapsed' \in Nat /\ elapsed' <= MaxRecordTicks /\ frames' + Unread' >= 1 + elapsed'
      BY <1>3, <1>6, <3>1, <3>2, TerminalNumbers
    <3>5. frames' \in Nat /\ frames' >= 1 /\ None' = None
      BY <1>3, <2>1, <3>2 DEF TerminalInv, Chunks, None
    <3> QED BY <1>2, <3>2, <3>3, <3>4, <3>5 DEF Chunks
  <2>2. CASE pc # "record"
    BY <1>1, <1>3, <2>2 DEF TerminalInv, Chunks, None
  <2> QED BY <2>1, <2>2
<1>8. Times'
  <2>1. pc = "record" => sinceAnswer' <= begun + elapsed'
    BY <1>1, <1>3, <1>4 DEF TerminalInv, Times
  <2> QED BY <1>1, <1>4, <2>1 DEF TerminalInv, Times
<1> QED BY <1>2, <1>5, <1>7, <1>8 DEF TerminalInv

LEMMA WaitStep == ASSUME TerminalInv, Wait PROVE TerminalInv'
<1>1. /\ pc = "listen" /\ mic # <<>> /\ ring' = Least(ring + 1, PreRoll) /\ mic' = Tail(mic)
      /\ \/ UNCHANGED <<pc, frames, begun>>
         \/ pc' = "record" /\ frames' = ring' /\ begun' = sinceAnswer
      /\ UNCHANGED <<mode, stop, elapsed, silence, idle, session, turns, sinceAnswer, kept>>
  BY DEF Wait, sessionVars
<1>2. ring' \in 0 .. PreRoll /\ ring' >= 1 /\ ring' \in Nat
  BY <1>1, TerminalNumbers DEF TerminalInv, TerminalTypeOK, Least
<1>3. mic' \in Seq({"quiet", "operator", "robot"}) /\ Len(mic') <= BufferSize
  BY <1>1, ReadChunk DEF TerminalInv, TerminalTypeOK
<1>4. TerminalTypeOK'
  BY <1>1, <1>2, <1>3 DEF TerminalInv, TerminalTypeOK
<1>5. elapsed = 0 /\ silence = None /\ frames \in Nat /\ sinceAnswer \in Nat /\ begun \in Nat
  BY <1>1, TerminalNumbers DEF TerminalInv, TerminalTypeOK, Chunks, Times
<1>6. Unread' = 0 \/ Unread' = 1
  BY DEF Unread
<1>7. Chunks'
  <2>1. frames' \in Nat /\ elapsed' = 0 /\ silence' = None /\ None' = None
    BY <1>1, <1>2, <1>5 DEF None
  <2>2. pc' = "record" => frames' >= 1
    BY <1>1, <1>2
  <2>3. pc' \in {"listen", "record"}
    BY <1>1
  <2>4. silence' \in 0 .. None'
    BY <2>1, TerminalNumbers
  <2>5. 0 < MaxRecordTicks /\ 0 <= MaxRecordTicks
    BY TerminalNumbers
  <2>6. pc' = "record" => frames' + Unread' >= 1 + elapsed'
    BY <1>6, <2>1, <2>2
  <2> QED BY <2>1, <2>2, <2>3, <2>4, <2>5, <2>6 DEF Chunks
<1>8. Times'
  BY <1>1, <1>5 DEF TerminalInv, Times
<1> QED BY <1>3, <1>4, <1>7, <1>8 DEF TerminalInv

LEMMA RecordStep == ASSUME TerminalInv, Record PROVE TerminalInv'
<1> DEFINE chunk == Head(mic)
<1>1. /\ pc = "record" /\ mic # <<>> /\ mic' = Tail(mic) /\ frames' = frames + 1
      /\ silence' = IF chunk # "quiet" THEN None ELSE IF silence = None THEN 0 ELSE silence
      /\ pc' = IF (chunk = "quiet" /\ silence # None /\ silence >= SilenceTicks)
                  \/ elapsed >= MaxRecordTicks THEN "send" ELSE pc
      /\ UNCHANGED <<mode, stop, ring, elapsed, idle, session, turns, sinceAnswer, begun, kept>>
  BY DEF Record, SilentLongEnough, TooLong, sessionVars, history
<1> HIDE DEF chunk
<1>2. mic' \in Seq({"quiet", "operator", "robot"}) /\ Len(mic') <= BufferSize
  BY <1>1, ReadChunk DEF TerminalInv, TerminalTypeOK
<1>3. TerminalTypeOK'
  BY <1>1, <1>2 DEF TerminalInv, TerminalTypeOK
<1>4. /\ frames \in Nat /\ elapsed \in Nat /\ silence \in 0 .. None /\ elapsed <= MaxRecordTicks
      /\ frames >= 1 /\ frames + 1 >= 1 + elapsed
      /\ silence # None => frames + 1 >= 2 + silence
  <2>1. Unread = 1
    BY <1>1 DEF Unread
  <2> QED BY <1>1, <2>1 DEF TerminalInv, Chunks
<1>5. (Unread' = 0 \/ Unread' = 1) /\ None' = None
  BY DEF Unread, None
<1>6. Chunks'
  <2>1. frames' \in Nat /\ elapsed' = elapsed /\ silence' \in 0 .. None
    BY <1>1, <1>4, TerminalNumbers
  <2>2. CASE pc' = "send"
    <3>1. frames' >= 2 + SilenceTicks \/ frames' >= 1 + MaxRecordTicks
      BY <1>1, <1>4, <2>2, TerminalNumbers
    <3> QED BY <1>4, <1>5, <2>1, <2>2, <3>1 DEF Chunks
  <2>3. CASE pc' = "record"
    <3>1. elapsed < MaxRecordTicks /\ ~(chunk = "quiet" /\ silence # None /\ silence >= SilenceTicks)
      BY <1>1, <1>4, <2>3, TerminalNumbers
    <3>2. silence' # None => silence' < SilenceTicks /\ frames' >= 2 + silence'
      BY <1>1, <1>4, <3>1, TerminalNumbers
    <3>3. frames' + Unread' >= 1 + elapsed'
      BY <1>1, <1>4, <1>5, <2>1
    <3>4. silence' # None => frames' + Unread' >= 2 + silence'
      <4>1. silence' \in Nat
        BY <2>1, TerminalNumbers
      <4>2. frames' \in Nat /\ (Unread' = 0 \/ Unread' = 1)
        BY <1>5, <2>1
      <4>3. CASE silence' # None
        <5>1. frames' >= 2 + silence'
          BY <3>2, <4>3
        <5>2. \A f, s, u \in Nat : f >= 2 + s => f + u >= 2 + s
          OBVIOUS
        <5>3. Unread' \in Nat
          BY <4>2
        <5> QED BY <4>1, <4>2, <5>1, <5>2, <5>3
      <4> QED BY <4>3
    <3>5. frames' >= 1 /\ elapsed' <= MaxRecordTicks /\ elapsed' < MaxRecordTicks
      BY <1>1, <1>4, <2>1, <3>1
    <3>6. /\ silence' # None' => silence' < SilenceTicks /\ frames' + Unread' >= 2 + silence'
          /\ silence' \in 0 .. None' /\ elapsed' \in Nat
      BY <1>4, <1>5, <2>1, <3>2, <3>4
    <3> QED BY <2>1, <2>3, <3>3, <3>5, <3>6 DEF Chunks
  <2> QED BY <1>1, <2>2, <2>3
<1>7. Times'
  BY <1>1 DEF TerminalInv, Times
<1> QED BY <1>2, <1>3, <1>6, <1>7 DEF TerminalInv

\* What is sent carries the session if its speech began early enough.
LEMMA SendStep == ASSUME TerminalInv, Send PROVE TerminalInv'
<1>1. /\ pc = "send" /\ ring' = 0 /\ frames' = 0 /\ elapsed' = 0 /\ silence' = None /\ begun' = 0
      /\ pc' \in {"ask", "closed", "prompt", "listen"}
      /\ UNCHANGED <<mode, stop, mic, sinceAnswer>>
  BY DEF Send, NextCycle, Start, NoRecording
<1>2. /\ idle \in 0 .. SessionTimeout + 1 /\ sinceAnswer \in 0 .. SessionTimeout + 1
      /\ idle = sinceAnswer /\ sinceAnswer <= begun + elapsed /\ elapsed <= MaxRecordTicks
      /\ begun \in Nat /\ elapsed \in Nat
  BY <1>1 DEF TerminalInv, TerminalTypeOK, Chunks, Times
<1>3. /\ idle' \in 0 .. SessionTimeout + 1
      /\ pc' # "ask" => idle' = idle
  <2>1. CASE TooShort
    BY <1>2, <2>1 DEF Send, sessionVars
  <2>2. CASE ~TooShort
    <3>1. pc' = "ask" /\ (idle' = 0 \/ idle' = idle)
      BY <2>2 DEF Send, sessionVars
    <3> QED BY <1>2, <3>1, TerminalNumbers
  <2> QED BY <2>1, <2>2
<1>4. kept'
  <2>1. CASE TooShort
    BY <2>1 DEF Send, TerminalInv, Times
  <2>2. CASE ~TooShort
    <3>1. /\ kept' = (begun + MaxRecordTicks <= SessionTimeout => session' = session)
          /\ ~(idle > SessionTimeout) => session' = session
      BY <2>2 DEF Send, sessionVars
    <3>2. begun + MaxRecordTicks <= SessionTimeout => ~(idle > SessionTimeout)
      BY <1>2, TerminalNumbers
    <3> QED BY <3>1, <3>2
  <2> QED BY <2>1, <2>2
<1>5. TerminalTypeOK'
  <2>1. ring' \in 0 .. PreRoll
    BY <1>1, TerminalNumbers
  <2> QED BY <1>1, <1>3, <2>1 DEF TerminalInv, TerminalTypeOK
<1>6. Chunks'
  BY <1>1, TerminalNumbers DEF Chunks, None
<1>7. Times'
  BY <1>1, <1>2, <1>3, <1>4 DEF Times
<1> QED BY <1>1, <1>5, <1>6, <1>7 DEF TerminalInv

\* An answer, or none, starts the time anew.
LEMMA ReturnedStep == ASSUME TerminalInv, Answered \/ NotAnswered PROVE TerminalInv'
<1>1. /\ pc = "ask" /\ idle' = 0 /\ sinceAnswer' = 0
      /\ pc' \in {"speak", "closed", "prompt", "listen"}
      /\ UNCHANGED <<mode, stop, mic, ring, frames, elapsed, silence, session, turns, begun, kept>>
  BY DEF Answered, NotAnswered, Returned, Touch, NextCycle, Start, capture
<1>2. TerminalTypeOK'
  BY <1>1, TerminalNumbers DEF TerminalInv, TerminalTypeOK
<1>3. Chunks'
  BY <1>1 DEF TerminalInv, Chunks, None
<1>4. Times'
  BY <1>1 DEF TerminalInv, Times
<1> QED BY <1>1, <1>2, <1>3, <1>4 DEF TerminalInv

\* The other steps only move the terminal on, or stop it.
LEMMA ElseStep ==
  ASSUME TerminalInv, Speaking \/ Operator \/ UNCHANGED terminal PROVE TerminalInv'
<1>1. /\ UNCHANGED <<mode, mic, ring, frames, elapsed, silence, idle, session, turns,
                     sinceAnswer, begun, kept>>
      /\ \/ pc' = pc \/ pc' = "closed"
         \/ pc \in {"speak", "prompt"} /\ pc' \in {"prompt", "listen"}
  BY DEF Speaking, Operator, Played, PlayerFails, PressEnter, EndOfInput, Stop, Interrupt, NextCycle,
         Start, terminal, capture, sessionVars, history
<1>2. Unread' = Unread /\ None' = None
  BY <1>1 DEF Unread, None
<1>3. TerminalTypeOK'
  BY <1>1 DEF TerminalInv, TerminalTypeOK
<1>4. Chunks'
  BY <1>1, <1>2 DEF TerminalInv, Chunks
<1>5. Times'
  BY <1>1 DEF TerminalInv, Times
<1> QED BY <1>1, <1>3, <1>4, <1>5 DEF TerminalInv

LEMMA TerminalStarts == ASSUME TerminalInit PROVE TerminalInv
<1>1. /\ mode \in Modes /\ pc \in {"prompt", "listen"} /\ mic = <<>> /\ ring = 0 /\ frames = 0
      /\ elapsed = 0 /\ silence = None /\ idle = 0 /\ sinceAnswer = 0 /\ begun = 0 /\ kept = TRUE
  BY DEF TerminalInit, Start
<1>2. TerminalTypeOK
  BY <1>1, TerminalNumbers DEF TerminalTypeOK
<1>3. Chunks
  BY <1>1, TerminalNumbers DEF Chunks
<1>4. Times
  BY <1>1 DEF Times
<1> QED BY <1>1, <1>2, <1>3, <1>4 DEF TerminalInv

-----------------------------------------------------------------------------
(* The router.                                                             *)

IncidentIntents == {"ExplainRisk", "RecommendAction", "AcknowledgeIncident"}
Places == {"state", "scan", "opened", "escalated", "update", "bedrock", "answer", "failed"}
Confidences == {"matched", "fallback", "no_data"}

\* Where a turn can be, and what it has not said there.
Placed(t) ==
  /\ t.pc = "state" => t.intent \in {"AssetStatus", "ExplainRisk"}
  /\ t.pc = "scan" => t.intent = "FleetOverview"
  /\ t.pc \in {"opened", "escalated"} => t.intent \in IncidentIntents
  /\ t.pc = "update" => t.intent = "AcknowledgeIncident"
  /\ t.pc # "answer" => t.confidence # "matched"

\* While its incident remains, the first query misses only an escalated one, and
\* the two together find it.
Sought(t, active) ==
  t.steady =>
    /\ active # Nothing
    /\ t.pc = "escalated" => active = "escalated"
    /\ t.pc \in {"update", "bedrock", "answer"} /\ t.named /\ t.intent \in IncidentIntents
         => t.found

\* A nominal state that is seen, or was, is one the turn has witnessed.
Calm(t, entry) ==
  /\ entry = "nominal" \/ t.state = "nominal" => t.calm
  /\ t.pc = "answer" /\ t.confidence = "matched" /\ ~t.used
       /\ t.intent \in {"AssetStatus", "ExplainRisk", "FleetOverview"} => t.calm

TurnInv == turn # Nothing => Placed(turn) /\ Sought(turn, incident) /\ Calm(turn, item)

\* Three events a turn: the third is written when the turn ends.
Events == [event : {"request_received", "intent_resolved", "response_generated", "request_failed"},
           turn : Nat \ {0}]

Told ==
  \A m \in Nat :
    /\ 3 * m + 1 \in DOMAIN log => log[3 * m + 1] = Entry("request_received", m + 1)
    /\ 3 * m + 2 \in DOMAIN log => log[3 * m + 2] = Entry("intent_resolved", m + 1)
    /\ 3 * m + 3 \in DOMAIN log => log[3 * m + 3] \in {Entry("response_generated", m + 1),
                                                       Entry("request_failed", m + 1)}

Counted ==
  IF turn = Nothing THEN \E m \in Nat : Len(log) = 3 * m
  ELSE Len(log) + 1 = 3 * turn.number

Logged == log \in Seq(Events) /\ Told /\ Counted

RouterInv == RouterTypeOK /\ TurnInv /\ Logged

\* What a step that leaves the number of its turn, the tables and the log alone
\* has to show.
LEMMA TurnGoesOn ==
  ASSUME RouterInv, turn # Nothing, turn' \in Turn, turn'.number = turn.number,
         UNCHANGED <<world, log>>,
         Placed(turn'), Sought(turn', incident), Calm(turn', item)
  PROVE  RouterInv'
<1>1. turn' # Nothing /\ UNCHANGED <<item, incident, log>>
  BY TurnAssumption DEF world
<1>2. RouterTypeOK'
  BY <1>1 DEF RouterInv, RouterTypeOK
<1>3. TurnInv'
  BY <1>1 DEF TurnInv
<1>4. Logged'
  BY <1>1 DEF RouterInv, Logged, Told, Counted
<1> QED BY <1>2, <1>3, <1>4 DEF RouterInv

LEMMA ReadStatusStep == ASSUME RouterInv, ReadStatus PROVE RouterInv'
<1>1. /\ turn # Nothing /\ turn \in Turn /\ turn.pc = "state" /\ turn.intent = "AssetStatus"
      /\ UNCHANGED <<world, log>>
      /\ Placed(turn) /\ Sought(turn, incident) /\ Calm(turn, item)
  BY DEF ReadStatus, RouterInv, RouterTypeOK, TurnInv
<1>2. \/ turn' = [turn EXCEPT !.pc = "bedrock"]
      \/ turn' = [turn EXCEPT !.pc = "answer", !.confidence = "no_data"]
      \/ turn' = [turn EXCEPT !.pc = "answer", !.confidence = "matched"] /\ item = "nominal"
  BY DEF ReadStatus, Conclude, Go
<1>3. /\ turn' \in Turn /\ turn'.number = turn.number /\ turn'.intent = turn.intent
      /\ turn'.named = turn.named /\ turn'.state = turn.state /\ turn'.found = turn.found
      /\ turn'.used = turn.used /\ turn'.steady = turn.steady /\ turn'.calm = turn.calm
      /\ turn'.pc \in {"bedrock", "answer"}
      /\ \/ turn'.confidence = turn.confidence
         \/ turn'.confidence = "no_data"
         \/ turn'.confidence = "matched" /\ turn'.pc = "answer" /\ item = "nominal"
  BY <1>1, <1>2 DEF Turn
<1>4. Placed(turn')
  BY <1>1, <1>3 DEF Placed
<1>5. Sought(turn', incident)
  BY <1>1, <1>3 DEF Sought, IncidentIntents
<1>6. Calm(turn', item)
  BY <1>1, <1>3 DEF Calm, Placed
<1> QED BY <1>1, <1>3, <1>4, <1>5, <1>6, TurnGoesOn

LEMMA ReadStateStep == ASSUME RouterInv, ReadState PROVE RouterInv'
<1>1. /\ turn # Nothing /\ turn \in Turn /\ turn.pc = "state" /\ turn.intent = "ExplainRisk"
      /\ item \in {"nominal", "elevated", "critical", "partial", Nothing}
      /\ UNCHANGED <<world, log>>
      /\ Placed(turn) /\ Sought(turn, incident) /\ Calm(turn, item)
      /\ turn' = [turn EXCEPT !.state = item, !.pc = "opened", !.steady = incident # Nothing]
  BY DEF ReadState, RouterInv, RouterTypeOK, TurnInv
<1>2. /\ turn' \in Turn /\ turn'.number = turn.number /\ turn'.intent = turn.intent
      /\ turn'.named = turn.named /\ turn'.state = item /\ turn'.found = turn.found
      /\ turn'.used = turn.used /\ turn'.steady = (incident # Nothing)
      /\ turn'.calm = turn.calm /\ turn'.pc = "opened" /\ turn'.confidence = turn.confidence
  BY <1>1 DEF Turn
<1>3. Placed(turn')
  BY <1>1, <1>2 DEF Placed, IncidentIntents
<1>4. Sought(turn', incident)
  BY <1>2 DEF Sought
<1>5. Calm(turn', item)
  BY <1>1, <1>2 DEF Calm
<1> QED BY <1>1, <1>2, <1>3, <1>4, <1>5, TurnGoesOn

LEMMA ScanFleetStep == ASSUME RouterInv, ScanFleet PROVE RouterInv'
<1>1. /\ turn # Nothing /\ turn \in Turn /\ turn.pc = "scan" /\ turn.intent = "FleetOverview"
      /\ UNCHANGED <<world, log>>
      /\ Placed(turn) /\ Sought(turn, incident) /\ Calm(turn, item)
  BY DEF ScanFleet, RouterInv, RouterTypeOK, TurnInv, Placed
<1>2. \/ turn' = [turn EXCEPT !.pc = "bedrock"]
      \/ turn' = [turn EXCEPT !.pc = "answer", !.confidence = "no_data"]
      \/ turn' = [turn EXCEPT !.pc = "answer", !.confidence = "matched"] /\ item = "nominal"
  BY DEF ScanFleet, Conclude, Go
<1>3. /\ turn' \in Turn /\ turn'.number = turn.number /\ turn'.intent = turn.intent
      /\ turn'.named = turn.named /\ turn'.state = turn.state /\ turn'.found = turn.found
      /\ turn'.used = turn.used /\ turn'.steady = turn.steady /\ turn'.calm = turn.calm
      /\ turn'.pc \in {"bedrock", "answer"}
      /\ \/ turn'.confidence = turn.confidence
         \/ turn'.confidence = "no_data"
         \/ turn'.confidence = "matched" /\ turn'.pc = "answer" /\ item = "nominal"
  BY <1>1, <1>2 DEF Turn
<1>4. Placed(turn')
  BY <1>1, <1>3 DEF Placed
<1>5. Sought(turn', incident)
  BY <1>1, <1>3 DEF Sought, IncidentIntents
<1>6. Calm(turn', item)
  BY <1>1, <1>3 DEF Calm, Placed
<1> QED BY <1>1, <1>3, <1>4, <1>5, <1>6, TurnGoesOn

\* What a turn does with the result of its lookup, when that is right.
LEMMA AfterIs ==
  ASSUME RouterInv, turn # Nothing, turn.pc \in {"opened", "escalated"},
         UNCHANGED <<world, log>>,
         NEW found \in BOOLEAN, turn.steady => found, turn' = After(turn, found)
  PROVE  RouterInv'
<1>1. /\ turn \in Turn /\ turn.intent \in IncidentIntents
      /\ Placed(turn) /\ Sought(turn, incident) /\ Calm(turn, item)
  BY DEF RouterInv, RouterTypeOK, TurnInv, Placed
<1> DEFINE u == [turn EXCEPT !.found = found]
<1>2. /\ u \in Turn /\ u.number = turn.number /\ u.intent = turn.intent /\ u.named = turn.named
      /\ u.pc = turn.pc /\ u.state = turn.state /\ u.used = turn.used /\ u.steady = turn.steady
      /\ u.calm = turn.calm /\ u.found = found /\ u.confidence = turn.confidence
  BY <1>1 DEF Turn
<1>3. \/ turn' = [u EXCEPT !.pc = "bedrock"] /\ (turn.intent = "ExplainRisk" \/ found)
      \/ turn' = [u EXCEPT !.pc = "update"] /\ turn.intent = "AcknowledgeIncident"
      \/ turn' = [u EXCEPT !.pc = "answer", !.confidence = "no_data"] /\ ~found
      \/ /\ turn' = [u EXCEPT !.pc = "answer", !.confidence = "matched"] /\ ~found
         /\ turn.intent = "ExplainRisk" /\ turn.state = "nominal"
  <2>1. CASE turn.intent = "ExplainRisk" /\ found
    BY <2>1 DEF After
  <2>2. CASE turn.intent = "ExplainRisk" /\ ~found /\ turn.state = Nothing
    BY <2>2 DEF After
  <2>3. CASE turn.intent = "ExplainRisk" /\ ~found /\ turn.state = "nominal"
    BY <2>3, RouterAssumption DEF After, RouterAssumption
  <2>4. CASE turn.intent = "ExplainRisk" /\ ~found /\ turn.state \notin {"nominal", Nothing}
    BY <2>4 DEF After
  <2>5. CASE turn.intent = "RecommendAction"
    BY <2>5 DEF After
  <2>6. CASE turn.intent = "AcknowledgeIncident"
    BY <2>6 DEF After
  <2> QED BY <1>1, <2>1, <2>2, <2>3, <2>4, <2>5, <2>6 DEF IncidentIntents
<1> HIDE DEF u
<1>4. /\ turn' \in Turn /\ turn'.number = turn.number /\ turn'.intent = turn.intent
      /\ turn'.named = turn.named /\ turn'.state = turn.state /\ turn'.found = found
      /\ turn'.used = turn.used /\ turn'.steady = turn.steady /\ turn'.calm = turn.calm
      /\ turn'.pc \in {"bedrock", "update", "answer"}
      /\ turn'.pc = "update" => turn.intent = "AcknowledgeIncident"
      /\ \/ turn'.confidence = turn.confidence
         \/ turn'.confidence = "no_data"
         \/ /\ turn'.confidence = "matched" /\ turn'.pc = "answer"
            /\ turn.intent = "ExplainRisk" /\ turn.state = "nominal"
  BY <1>2, <1>3 DEF Turn
<1>5. Placed(turn')
  BY <1>1, <1>4 DEF Placed
<1>6. Sought(turn', incident)
  BY <1>1, <1>4 DEF Sought
<1>7. Calm(turn', item)
  BY <1>1, <1>4 DEF Calm, Placed
<1> QED BY <1>1, <1>4, <1>5, <1>6, <1>7, TurnGoesOn

LEMMA QueryFirstStep == ASSUME RouterInv, QueryFirst PROVE RouterInv'
<1>1. /\ turn # Nothing /\ turn \in Turn /\ turn.pc = "opened" /\ UNCHANGED <<world, log>>
      /\ incident \in {"opened", "escalated", Nothing}
      /\ Placed(turn) /\ Sought(turn, incident) /\ Calm(turn, item)
      /\ turn' = IF incident = "opened" THEN After(turn, TRUE)
                 ELSE [turn EXCEPT !.pc = "escalated"]
  BY DEF QueryFirst, Asked, RouterInv, RouterTypeOK, TurnInv
<1>2. CASE incident = "opened"
  <2>1. turn' = After(turn, TRUE)
    BY <1>1, <1>2
  <2> QED BY <1>1, <2>1, AfterIs
<1>3. CASE incident # "opened"
  <2>1. /\ turn' \in Turn /\ turn'.number = turn.number /\ turn'.intent = turn.intent
        /\ turn'.named = turn.named /\ turn'.state = turn.state /\ turn'.found = turn.found
        /\ turn'.used = turn.used /\ turn'.steady = turn.steady /\ turn'.calm = turn.calm
        /\ turn'.pc = "escalated" /\ turn'.confidence = turn.confidence
    BY <1>1, <1>3 DEF Turn
  <2>2. Placed(turn')
    BY <1>1, <2>1 DEF Placed
  <2>3. Sought(turn', incident)
    BY <1>1, <1>3, <2>1 DEF Sought
  <2>4. Calm(turn', item)
    BY <1>1, <2>1 DEF Calm
  <2> QED BY <1>1, <2>1, <2>2, <2>3, <2>4, TurnGoesOn
<1> QED BY <1>2, <1>3

LEMMA QuerySecondStep == ASSUME RouterInv, QuerySecond PROVE RouterInv'
<1>1. /\ turn # Nothing /\ turn.pc = "escalated" /\ UNCHANGED <<world, log>>
      /\ turn' = After(turn, incident = "escalated")
      /\ Sought(turn, incident)
  BY DEF QuerySecond, Asked, RouterInv, TurnInv
<1>2. turn.steady => incident = "escalated"
  BY <1>1 DEF Sought
<1> QED BY <1>1, <1>2, AfterIs

LEMMA AcknowledgeStep == ASSUME RouterInv, Acknowledge PROVE RouterInv'
<1>1. /\ turn # Nothing /\ turn \in Turn /\ turn.pc = "update" /\ UNCHANGED <<world, log>>
      /\ Placed(turn) /\ Sought(turn, incident) /\ Calm(turn, item)
      /\ turn' = [turn EXCEPT !.pc = "answer", !.confidence = "matched"]
  BY DEF Acknowledge, Conclude, RouterInv, RouterTypeOK, TurnInv
<1>2. /\ turn' \in Turn /\ turn'.number = turn.number /\ turn'.intent = turn.intent
      /\ turn'.named = turn.named /\ turn'.state = turn.state /\ turn'.found = turn.found
      /\ turn'.used = turn.used /\ turn'.steady = turn.steady /\ turn'.calm = turn.calm
      /\ turn'.pc = "answer"
  BY <1>1 DEF Turn
<1>3. Placed(turn')
  BY <1>2 DEF Placed
<1>4. Sought(turn', incident)
  BY <1>1, <1>2 DEF Sought
<1>5. Calm(turn', item)
  BY <1>1, <1>2 DEF Calm, Placed
<1> QED BY <1>1, <1>2, <1>3, <1>4, <1>5, TurnGoesOn

LEMMA ExplainStep == ASSUME RouterInv, Explain PROVE RouterInv'
<1>1. /\ turn # Nothing /\ turn \in Turn /\ turn.pc = "bedrock" /\ UNCHANGED <<world, log>>
      /\ Sought(turn, incident) /\ Calm(turn, item)
      /\ turn' = [turn EXCEPT !.used = TRUE, !.pc = "answer", !.confidence = "matched"]
  BY DEF Explain, RouterInv, RouterTypeOK, TurnInv
<1>2. /\ turn' \in Turn /\ turn'.number = turn.number /\ turn'.intent = turn.intent
      /\ turn'.named = turn.named /\ turn'.state = turn.state /\ turn'.found = turn.found
      /\ turn'.used /\ turn'.steady = turn.steady /\ turn'.calm = turn.calm
      /\ turn'.pc = "answer"
  BY <1>1 DEF Turn
<1>3. Placed(turn')
  BY <1>2 DEF Placed
<1>4. Sought(turn', incident)
  BY <1>1, <1>2 DEF Sought
<1>5. Calm(turn', item)
  BY <1>1, <1>2 DEF Calm
<1> QED BY <1>1, <1>2, <1>3, <1>4, <1>5, TurnGoesOn

LEMMA HandlerFailsStep == ASSUME RouterInv, HandlerFails PROVE RouterInv'
<1>1. /\ turn # Nothing /\ turn \in Turn /\ turn.pc # "answer" /\ UNCHANGED <<world, log>>
      /\ Placed(turn) /\ Sought(turn, incident) /\ Calm(turn, item)
      /\ turn' = [turn EXCEPT !.pc = "failed"]
  BY DEF HandlerFails, Go, RouterInv, RouterTypeOK, TurnInv
<1>2. /\ turn' \in Turn /\ turn'.number = turn.number /\ turn'.intent = turn.intent
      /\ turn'.named = turn.named /\ turn'.state = turn.state /\ turn'.found = turn.found
      /\ turn'.used = turn.used /\ turn'.steady = turn.steady /\ turn'.calm = turn.calm
      /\ turn'.pc = "failed" /\ turn'.confidence = turn.confidence
  BY <1>1 DEF Turn
<1>3. Placed(turn')
  BY <1>1, <1>2 DEF Placed
<1>4. Sought(turn', incident)
  BY <1>1, <1>2 DEF Sought
<1>5. Calm(turn', item)
  BY <1>1, <1>2 DEF Calm
<1> QED BY <1>1, <1>2, <1>3, <1>4, <1>5, TurnGoesOn

\* The last event is that of the turn that ended last.
LEMMA NextNumber ==
  ASSUME Logged, turn = Nothing
  PROVE  \E m \in Nat : /\ Len(log) = 3 * m
                        /\ (IF log = <<>> THEN 1 ELSE log[Len(log)].turn + 1) = m + 1
<1>1. PICK m \in Nat : Len(log) = 3 * m
  BY DEF Logged, Counted
<1>2. CASE m = 0
  BY <1>1, <1>2 DEF Logged
<1>3. CASE m # 0
  <2>1. m - 1 \in Nat /\ 3 * (m - 1) + 3 = Len(log) /\ (m - 1) + 1 = m /\ log # <<>>
    BY <1>1, <1>3 DEF Logged
  <2>2. Len(log) \in DOMAIN log
    BY <1>1, <1>3 DEF Logged
  <2>3. log[Len(log)] \in {Entry("response_generated", m), Entry("request_failed", m)}
    BY <2>1, <2>2 DEF Logged, Told
  <2>4. log[Len(log)].turn = m
    BY <2>3 DEF Entry
  <2> QED BY <1>1, <2>1, <2>4
<1> QED BY <1>2, <1>3

\* Two elements are appended.
LEMMA TwoMore ==
  ASSUME NEW S, NEW s \in Seq(S), NEW a \in S, NEW b \in S
  PROVE  /\ s \o <<a, b>> \in Seq(S) /\ Len(s \o <<a, b>>) = Len(s) + 2
         /\ \A k \in 1 .. Len(s) : (s \o <<a, b>>)[k] = s[k]
         /\ (s \o <<a, b>>)[Len(s) + 1] = a /\ (s \o <<a, b>>)[Len(s) + 2] = b
<1> DEFINE two == <<a, b>>
<1>1. two \in Seq(S) /\ Len(two) = 2 /\ two[1] = a /\ two[2] = b
  OBVIOUS
<1> HIDE DEF two
<1>2. /\ s \o two \in Seq(S) /\ Len(s \o two) = Len(s) + 2
      /\ \A k \in 1 .. Len(s) + 2 : (s \o two)[k] = IF k <= Len(s) THEN s[k] ELSE two[k - Len(s)]
  <2>1. two \in Seq(S)
    BY <1>1
  <2>2. /\ s \o two \in Seq(S) /\ Len(s \o two) = Len(s) + Len(two)
        /\ \A k \in 1 .. Len(s) + Len(two) : (s \o two)[k] = IF k <= Len(s) THEN s[k] ELSE two[k - Len(s)]
    BY <2>1, ConcatProperties, Zenon
  <2>3. Len(s) + Len(two) = Len(s) + 2
    BY <1>1
  <2> QED BY <2>2, <2>3, Zenon
<1>3. Len(s) \in Nat
  OBVIOUS
<1>4. (s \o two)[Len(s) + 1] = a /\ (s \o two)[Len(s) + 2] = b
  <2>1. /\ Len(s) + 1 \in 1 .. Len(s) + 2 /\ Len(s) + 2 \in 1 .. Len(s) + 2
        /\ ~(Len(s) + 1 <= Len(s)) /\ ~(Len(s) + 2 <= Len(s))
        /\ (Len(s) + 1) - Len(s) = 1 /\ (Len(s) + 2) - Len(s) = 2
    BY <1>3
  <2> QED BY <1>1, <1>2, <2>1
<1>5. \A k \in 1 .. Len(s) : (s \o two)[k] = s[k]
  BY <1>2, <1>3
<1> QED BY <1>2, <1>4, <1>5 DEF two

LEMMA ReceiveStep == ASSUME RouterInv, Receive PROVE RouterInv' /\ turn' # Nothing
<1>1. /\ turn = Nothing /\ UNCHANGED <<item, incident>>
      /\ item \in {"nominal", "elevated", "critical", "partial", Nothing}
      /\ incident \in {"opened", "escalated", Nothing}
      /\ Logged
  BY DEF Receive, world, RouterInv, RouterTypeOK
<1> DEFINE number == IF log = <<>> THEN 1 ELSE log[Len(log)].turn + 1
<1>2. PICK m \in Nat : Len(log) = 3 * m /\ number = m + 1
  BY <1>1, NextNumber
<1>3. PICK intent \in Intents, named \in BOOLEAN :
        /\ turn' = [number |-> number, intent |-> intent, named |-> named,
                    pc |-> FirstAwait(intent, named), state |-> Nothing,
                    found |-> FALSE, used |-> FALSE, confidence |-> Unaided(intent),
                    steady |-> incident # Nothing, calm |-> item = "nominal"]
        /\ log' = log \o <<Entry("request_received", number), Entry("intent_resolved", number)>>
  BY DEF Receive
<1> HIDE DEF number
<1> DEFINE p == FirstAwait(intent, named)
           c == Unaided(intent)
<1>4. /\ p \in Places \ {"escalated", "update", "bedrock", "failed"}
      /\ p = "state" => intent \in {"AssetStatus", "ExplainRisk"}
      /\ p = "scan" => intent = "FleetOverview"
      /\ p = "opened" => intent \in IncidentIntents
      /\ p = "answer" /\ named => intent \notin IncidentIntents
  <2>1. CASE intent \notin HandledIntents \/ (intent \in AssetIntents /\ ~named)
    BY <2>1 DEF FirstAwait, Places, HandledIntents, IncidentIntents
  <2>2. CASE ~(intent \notin HandledIntents \/ (intent \in AssetIntents /\ ~named))
    <3>1. CASE intent \in {"AssetStatus", "ExplainRisk"}
      BY <2>2, <3>1 DEF FirstAwait, Places
    <3>2. CASE intent = "FleetOverview"
      BY <2>2, <3>2 DEF FirstAwait, Places
    <3>3. CASE intent \in {"RecommendAction", "AcknowledgeIncident"}
      BY <2>2, <3>3 DEF FirstAwait, Places, IncidentIntents
    <3> QED BY <2>2, <3>1, <3>2, <3>3 DEF HandledIntents
  <2> QED BY <2>1, <2>2
<1>5. c \in {"no_data", "fallback"}
  BY DEF Unaided
<1>6. /\ turn' \in Turn /\ turn'.number = number /\ turn'.intent = intent /\ turn'.named = named
      /\ turn'.pc = p /\ turn'.state = Nothing /\ turn'.found = FALSE /\ turn'.used = FALSE
      /\ turn'.confidence = c /\ turn'.steady = (incident # Nothing)
      /\ turn'.calm = (item = "nominal")
  <2>1. turn' = [number |-> number, intent |-> intent, named |-> named, pc |-> p,
                 state |-> Nothing, found |-> FALSE, used |-> FALSE, confidence |-> c,
                 steady |-> incident # Nothing, calm |-> item = "nominal"]
    BY <1>3
  <2> HIDE DEF p, c
  <2>2. number \in Nat \ {0}
    BY <1>2
  <2> QED BY <1>4, <1>5, <2>1, <2>2 DEF Turn, Places
<1> HIDE DEF p, c
<1>7. turn' # Nothing
  BY <1>6, TurnAssumption
<1>8. RouterTypeOK'
  BY <1>1, <1>6 DEF RouterTypeOK
<1>9. TurnInv'
  <2>1. Placed(turn')
    BY <1>4, <1>5, <1>6 DEF Placed, Places
  <2>2. Sought(turn', incident)
    BY <1>4, <1>6 DEF Sought, Places
  <2>3. Calm(turn', item)
    BY <1>5, <1>6, RouterAssumption DEF Calm, RouterAssumption
  <2> QED BY <1>1, <2>1, <2>2, <2>3 DEF TurnInv
<1>10. Logged'
  <2> DEFINE first == Entry("request_received", number)
             second == Entry("intent_resolved", number)
  <2>1. log \in Seq(Events) /\ first \in Events /\ second \in Events
    BY <1>1, <1>2 DEF Entry, Events, Logged
  <2>2. log' = log \o <<first, second>>
    BY <1>3
  <2> HIDE DEF first, second
  <2>3. /\ log' \in Seq(Events) /\ Len(log') = Len(log) + 2
        /\ \A k \in 1 .. Len(log) : log'[k] = log[k]
        /\ log'[Len(log) + 1] = first /\ log'[Len(log) + 2] = second
    BY <2>1, <2>2, TwoMore
  <2>4. /\ log' \in Seq(Events) /\ Len(log') = 3 * m + 2
        /\ \A k \in 1 .. 3 * m : log'[k] = log[k]
        /\ log'[3 * m + 1] = first /\ log'[3 * m + 2] = second
    BY <1>2, <2>3
  <2>5. Told'
    <3>1. SUFFICES ASSUME NEW q \in Nat
                   PROVE  /\ 3 * q + 1 \in DOMAIN log' => log'[3 * q + 1] = Entry("request_received", q + 1)
                          /\ 3 * q + 2 \in DOMAIN log' => log'[3 * q + 2] = Entry("intent_resolved", q + 1)
                          /\ 3 * q + 3 \in DOMAIN log' =>
                               log'[3 * q + 3] \in {Entry("response_generated", q + 1),
                                                    Entry("request_failed", q + 1)}
      BY DEF Told, Entry
    <3>2. DOMAIN log = 1 .. 3 * m /\ DOMAIN log' = 1 .. 3 * m + 2
      BY <1>2, <2>1, <2>4
    <3>3. CASE q < m
      <4>1. /\ 3 * q + 1 \in DOMAIN log /\ 3 * q + 2 \in DOMAIN log /\ 3 * q + 3 \in DOMAIN log
            /\ 3 * q + 1 \in 1 .. 3 * m /\ 3 * q + 2 \in 1 .. 3 * m /\ 3 * q + 3 \in 1 .. 3 * m
        BY <3>2, <3>3
      <4>2. /\ log'[3 * q + 1] = log[3 * q + 1] /\ log'[3 * q + 2] = log[3 * q + 2]
            /\ log'[3 * q + 3] = log[3 * q + 3]
        BY <2>4, <4>1
      <4> QED BY <1>1, <4>1, <4>2 DEF Logged, Told
    <3>4. CASE q = m
      <4>1. 3 * q + 3 \notin DOMAIN log'
        BY <3>2, <3>4
      <4>2. /\ log'[3 * q + 1] = Entry("request_received", q + 1)
            /\ log'[3 * q + 2] = Entry("intent_resolved", q + 1)
        BY <1>2, <2>4, <3>4 DEF first, second
      <4> QED BY <4>1, <4>2
    <3>5. CASE q > m
      BY <3>2, <3>5
    <3> QED BY <3>3, <3>4, <3>5
  <2>6. Counted'
    BY <1>2, <1>6, <1>7, <2>4 DEF Counted
  <2> QED BY <2>4, <2>5, <2>6 DEF Logged
<1> QED BY <1>7, <1>8, <1>9, <1>10 DEF RouterInv

LEMMA RespondStep == ASSUME RouterInv, Respond PROVE RouterInv'
<1>1. /\ turn # Nothing /\ turn \in Turn /\ turn' = Nothing /\ UNCHANGED <<item, incident>>
      /\ log' = log \o LastEvent(turn) /\ Logged
  BY DEF Respond, world, RouterInv, RouterTypeOK
<1>2. RouterTypeOK' /\ TurnInv'
  BY <1>1 DEF RouterInv, RouterTypeOK, TurnInv
<1> DEFINE n == turn.number
           last == IF turn.pc = "failed" THEN "request_failed" ELSE "response_generated"
<1>3. n \in Nat \ {0} /\ Len(log) + 1 = 3 * n /\ log \in Seq(Events)
  BY <1>1 DEF Turn, Logged, Counted
<1>4. LastEvent(turn) = <<Entry(last, n)>> /\ last \in {"request_failed", "response_generated"}
  BY DEF LastEvent
<1> HIDE DEF n, last
<1>5. Entry(last, n) \in Events
  BY <1>3, <1>4 DEF Entry, Events
<1>6. /\ log' \in Seq(Events) /\ Len(log') = 3 * n
      /\ \A k \in 1 .. 3 * n - 1 : log'[k] = log[k]
      /\ log'[3 * n] = Entry(last, n)
  <2> DEFINE e == Entry(last, n)
  <2>1. log' = log \o <<e>> /\ e \in Events
    BY <1>1, <1>4, <1>5
  <2> HIDE DEF e
  <2>2. log' = Append(log, e)
    BY <1>3, <2>1
  <2>3. log' \in Seq(Events) /\ Len(log') = Len(log) + 1 /\ log'[Len(log) + 1] = e
        /\ \A k \in 1 .. Len(log) : log'[k] = log[k]
    BY <1>3, <2>1, <2>2
  <2> QED BY <1>3, <2>3 DEF e
<1>7. Told'
  <2>1. SUFFICES ASSUME NEW q \in Nat
                 PROVE  /\ 3 * q + 1 \in DOMAIN log' => log'[3 * q + 1] = Entry("request_received", q + 1)
                        /\ 3 * q + 2 \in DOMAIN log' => log'[3 * q + 2] = Entry("intent_resolved", q + 1)
                        /\ 3 * q + 3 \in DOMAIN log' =>
                             log'[3 * q + 3] \in {Entry("response_generated", q + 1),
                                                  Entry("request_failed", q + 1)}
    BY DEF Told, Entry
  <2>2. DOMAIN log = 1 .. 3 * n - 1 /\ DOMAIN log' = 1 .. 3 * n
    BY <1>3, <1>6
  <2>3. /\ 3 * q + 1 \in DOMAIN log' => 3 * q + 1 \in 1 .. 3 * n - 1
        /\ 3 * q + 2 \in DOMAIN log' => 3 * q + 2 \in 1 .. 3 * n - 1
        /\ 3 * q + 3 \in DOMAIN log' => 3 * q + 3 \in 1 .. 3 * n - 1 \/ q + 1 = n
    BY <1>3, <2>2
  <2>4. /\ 3 * q + 1 \in DOMAIN log' => log'[3 * q + 1] = log[3 * q + 1] /\ 3 * q + 1 \in DOMAIN log
        /\ 3 * q + 2 \in DOMAIN log' => log'[3 * q + 2] = log[3 * q + 2] /\ 3 * q + 2 \in DOMAIN log
    BY <1>6, <2>2, <2>3
  <2>5. CASE q + 1 = n
    <3>1. log'[3 * q + 3] \in {Entry("response_generated", q + 1), Entry("request_failed", q + 1)}
      <4>1. 3 * q + 3 = 3 * n
        BY <1>3, <2>5
      <4> QED BY <1>4, <1>6, <2>5, <4>1
    <3> QED BY <1>1, <2>4, <3>1 DEF Logged, Told
  <2>6. CASE q + 1 # n
    <3>1. 3 * q + 3 \in DOMAIN log' => log'[3 * q + 3] = log[3 * q + 3] /\ 3 * q + 3 \in DOMAIN log
      BY <1>6, <2>2, <2>3, <2>6
    <3> QED BY <1>1, <2>4, <3>1 DEF Logged, Told
  <2> QED BY <2>5, <2>6
<1>8. Counted'
  BY <1>1, <1>3, <1>6 DEF Counted
<1> QED BY <1>2, <1>6, <1>7, <1>8 DEF RouterInv, Logged

\* A change of the tables is witnessed by the turn.
LEMMA ChangeStep ==
  ASSUME RouterInv,
         NEW newItem \in {"nominal", "elevated", "critical", "partial", Nothing},
         NEW newIncident \in {"opened", "escalated", Nothing},
         incident = "escalated" => newIncident \in {"escalated", Nothing},
         Change(newItem, newIncident)
  PROVE  RouterInv' /\ (turn' = Nothing <=> turn = Nothing)
<1>1. /\ item' = newItem /\ incident' = newIncident /\ turn' = Witnessed(newItem, newIncident)
      /\ log' = log /\ Logged /\ turn \in Turn \cup {Nothing}
  BY DEF Change, RouterInv, RouterTypeOK
<1>2. CASE turn = Nothing
  <2>1. turn' = Nothing
    BY <1>1, <1>2 DEF Witnessed
  <2>2. RouterTypeOK' /\ TurnInv'
    BY <1>1, <2>1 DEF RouterTypeOK, TurnInv
  <2>3. Logged'
    BY <1>1, <1>2, <2>1 DEF Logged, Told, Counted
  <2> QED BY <1>2, <2>1, <2>2, <2>3 DEF RouterInv
<1>3. CASE turn # Nothing
  <2>1. turn \in Turn /\ Placed(turn) /\ Sought(turn, incident) /\ Calm(turn, item)
    BY <1>1, <1>3 DEF RouterInv, TurnInv
  <2>2. turn' = [turn EXCEPT !.steady = @ /\ newIncident # Nothing,
                             !.calm = @ \/ newItem = "nominal"]
    BY <1>1, <1>3 DEF Witnessed
  <2>3. /\ turn' \in Turn /\ turn'.number = turn.number /\ turn'.intent = turn.intent
        /\ turn'.named = turn.named /\ turn'.state = turn.state /\ turn'.found = turn.found
        /\ turn'.used = turn.used /\ turn'.pc = turn.pc /\ turn'.confidence = turn.confidence
        /\ turn'.steady = (turn.steady /\ newIncident # Nothing)
        /\ turn'.calm = (turn.calm \/ newItem = "nominal")
    BY <2>1, <2>2 DEF Turn
  <2>4. turn' # Nothing
    BY <2>3, TurnAssumption
  <2>5. Placed(turn')
    BY <2>1, <2>3 DEF Placed
  <2>6. Sought(turn', newIncident)
    BY <2>1, <2>3 DEF Sought
  <2>7. Calm(turn', newItem)
    BY <2>1, <2>3 DEF Calm
  <2>8. RouterTypeOK' /\ TurnInv'
    BY <1>1, <2>3, <2>5, <2>6, <2>7 DEF RouterTypeOK, TurnInv
  <2>9. Logged'
    BY <1>1, <1>3, <2>3, <2>4 DEF Logged, Told, Counted
  <2> QED BY <1>3, <2>4, <2>8, <2>9 DEF RouterInv
<1> QED BY <1>2, <1>3

LEMMA PipelineStep ==
  ASSUME RouterInv, Pipeline PROVE RouterInv' /\ (turn' = Nothing <=> turn = Nothing)
<1>1. /\ item \in {"nominal", "elevated", "critical", "partial", Nothing}
      /\ incident \in {"opened", "escalated", Nothing}
  BY DEF RouterInv, RouterTypeOK
<1>2. CASE Assessed
  <2>1. PICK s \in {"nominal", "elevated", "critical"} \ {item} : Change(s, incident)
    BY <1>2 DEF Assessed
  <2> QED BY <1>1, <2>1, ChangeStep
<1>3. CASE ItemDeleted
  BY <1>1, <1>3, ChangeStep DEF ItemDeleted
<1>4. CASE ItemRecreated
  BY <1>1, <1>4, ChangeStep DEF ItemRecreated
<1>5. CASE IncidentOpened
  <2>1. incident # "escalated"
    BY <1>5, RouterAssumption DEF IncidentOpened, RouterAssumption
  <2> QED BY <1>1, <1>5, <2>1, ChangeStep DEF IncidentOpened
<1>6. CASE IncidentEscalated
  BY <1>1, <1>6, ChangeStep DEF IncidentEscalated
<1>7. CASE IncidentGone
  BY <1>1, <1>7, ChangeStep DEF IncidentGone
<1> QED BY <1>2, <1>3, <1>4, <1>5, <1>6, <1>7 DEF Pipeline

LEMMA RouterStays == ASSUME RouterInv, UNCHANGED <<world, router>> PROVE RouterInv'
<1>1. UNCHANGED <<item, incident, turn, log>>
  BY DEF world, router
<1> QED BY <1>1 DEF RouterInv, RouterTypeOK, TurnInv, Logged, Told, Counted

LEMMA RouterStarts == ASSUME RouterInit PROVE RouterInv
<1>1. /\ item \in {"nominal", "critical", Nothing} /\ incident \in {"opened", Nothing}
      /\ turn = Nothing /\ log = <<>>
  BY DEF RouterInit
<1>2. Logged
  <2>1. log \in Seq(Events) /\ DOMAIN log = {} /\ Len(log) = 3 * 0
    BY <1>1
  <2> QED BY <1>1, <2>1 DEF Logged, Told, Counted
<1> QED BY <1>1, <1>2 DEF RouterInv, RouterTypeOK, TurnInv

-----------------------------------------------------------------------------
(* The two together.                                                       *)

ConversationInv ==
  /\ TerminalInv /\ RouterInv
  /\ lex \in {"none", "asked", "fulfilling", "answered"}
  /\ lex = "fulfilling" <=> turn # Nothing
  /\ lex # "none" => pc \in {"ask", "closed"}   \* the terminal is blocked, or gone

LEMMA HandleStep == ASSUME RouterInv, Handle PROVE RouterInv'
BY ReadStatusStep, ReadStateStep, ScanFleetStep, QueryFirstStep, QuerySecondStep,
   AcknowledgeStep, ExplainStep, HandlerFailsStep, RespondStep DEF Handle, Lookup

LEMMA ListeningStep == ASSUME TerminalInv, Listening PROVE TerminalInv'
BY WaitStep, RecordStep, SendStep DEF Listening

LEMMA ConversationStarts == ASSUME Init PROVE ConversationInv
<1>1. TerminalInit /\ RouterInit /\ lex = "none" /\ turn = Nothing
  BY DEF Init, RouterInit
<1> QED BY <1>1, TerminalStarts, RouterStarts DEF ConversationInv

LEMMA ConversationStep == ASSUME ConversationInv, [Next]_vars PROVE ConversationInv'
<1>1. /\ TerminalInv /\ RouterInv /\ lex \in {"none", "asked", "fulfilling", "answered"}
      /\ (lex = "fulfilling" <=> turn # Nothing)
      /\ lex # "none" => pc \in {"ask", "closed"}
  BY DEF ConversationInv
<1>2. CASE TerminalListens
  <2>1. TerminalInv' /\ RouterInv'
    BY <1>1, <1>2, ListeningStep, RouterStays DEF TerminalListens
  <2>2. turn' = turn /\ (lex' = "asked" \/ lex' = lex)
    BY <1>2 DEF TerminalListens, router
  <2>3. pc \in {"listen", "record", "send"}
    BY <1>2 DEF TerminalListens, Listening, Wait, Record, Send
  <2>4. lex = "none" /\ turn = Nothing /\ (lex' # "none" => pc' = "ask")
    BY <1>1, <1>2, <2>3 DEF TerminalListens
  <2> QED BY <1>1, <2>1, <2>2, <2>4 DEF ConversationInv
<1>3. CASE LexFulfils
  <2>1. TerminalInv'
    BY <1>1, <1>3, ElseStep DEF LexFulfils
  <2>2. RouterInv' /\ turn' # Nothing /\ lex = "asked" /\ lex' = "fulfilling" /\ pc' = pc
    BY <1>1, <1>3, ReceiveStep DEF LexFulfils, terminal
  <2> QED BY <1>1, <2>1, <2>2 DEF ConversationInv
<1>4. CASE RouterWorks
  <2>1. TerminalInv'
    BY <1>1, <1>4, ElseStep DEF RouterWorks
  <2>2. /\ RouterInv' /\ lex = "fulfilling"
        /\ lex' = IF turn' = Nothing THEN "answered" ELSE lex
        /\ pc' = pc
    BY <1>1, <1>4, HandleStep DEF RouterWorks, terminal
  <2> QED BY <1>1, <2>1, <2>2 DEF ConversationInv
<1>5. CASE AnswerArrives \/ NoAnswerArrives
  <2>1. TerminalInv' /\ RouterInv'
    BY <1>1, <1>5, ReturnedStep, RouterStays DEF AnswerArrives, NoAnswerArrives
  <2>2. lex # "fulfilling" /\ lex' = "none" /\ turn' = turn
    BY <1>5 DEF AnswerArrives, NoAnswerArrives, router
  <2> QED BY <1>1, <2>1, <2>2 DEF ConversationInv
<1>6. CASE TerminalElse
  <2>1. TerminalInv'
    BY <1>1, <1>6, TickStep, ElseStep DEF TerminalElse
  <2>2. RouterInv' /\ lex' = lex /\ turn' = turn
    BY <1>1, <1>6, RouterStays DEF TerminalElse, router
  <2>3. pc' = pc \/ pc' = "closed" \/ pc \in {"speak", "prompt"}
    BY <1>6 DEF TerminalElse, Tick, Speaking, Operator, Played, PlayerFails, PressEnter, EndOfInput,
                Stop, Interrupt
  <2> QED BY <1>1, <2>1, <2>2, <2>3 DEF ConversationInv
<1>7. CASE TablesChange
  <2>1. TerminalInv' /\ lex' = lex /\ pc' = pc
    BY <1>1, <1>7, ElseStep DEF TablesChange, terminal
  <2>2. RouterInv' /\ (turn' = Nothing <=> turn = Nothing)
    BY <1>1, <1>7, PipelineStep DEF TablesChange
  <2> QED BY <1>1, <2>1, <2>2 DEF ConversationInv
<1>8. CASE UNCHANGED vars
  <2>1. UNCHANGED terminal /\ UNCHANGED <<world, router>> /\ lex' = lex /\ turn' = turn
        /\ pc' = pc
    BY <1>8 DEF vars, router, terminal
  <2>2. TerminalInv' /\ RouterInv'
    BY <1>1, <2>1, ElseStep, RouterStays
  <2> QED BY <1>1, <2>1, <2>2 DEF ConversationInv
<1> QED BY <1>2, <1>3, <1>4, <1>5, <1>6, <1>7, <1>8 DEF Next

LEMMA ConversationIsInvariant == Spec => []ConversationInv
<1>1. Init => ConversationInv
  BY ConversationStarts
<1>2. ConversationInv /\ [Next]_vars => ConversationInv'
  BY ConversationStep
<1> QED BY <1>1, <1>2, PTL DEF Spec

-----------------------------------------------------------------------------
(* Theorems.                                                               *)

\* A turn is being handled exactly while Lex waits for the Lambda; time, buffers
\* and turns stay within their types (VoiceTerminal, IntentRouter).
THEOREM ConversationTypeCorrect == Spec => []TypeOK
<1>1. ConversationInv => TypeOK
  BY DEF ConversationInv, TerminalInv, RouterInv, TypeOK
<1> QED BY <1>1, ConversationIsInvariant, PTL

\* record_utterance never ends an utterance that the session then throws away as
\* too short: both ways to end one leave more chunks than MIN_RECORD_S, if that is
\* no longer than the silence with its two quiet chunks, nor than MAX_RECORD_S.
THEOREM UtterancesAreSent ==
  ASSUME MinRecordChunks <= SilenceTicks + 2, MinRecordChunks <= MaxRecordTicks + 1
  PROVE  Spec => []NothingDiscarded
<1>1. ConversationInv => NothingDiscarded
  <2>1. SUFFICES ASSUME ConversationInv, pc = "send" PROVE ~TooShort
    BY DEF NothingDiscarded
  <2>2. frames \in Nat /\ (frames >= 2 + SilenceTicks \/ frames >= 1 + MaxRecordTicks)
    BY <2>1 DEF ConversationInv, TerminalInv, Chunks
  <2> QED BY <2>2, TerminalNumbers DEF TooShort
<1> QED BY <1>1, ConversationIsInvariant, PTL

\* The session outlives the pause of a conversation: an utterance whose speech
\* began a full MAX_RECORD_S before the timeout is sent with the session of the
\* last answer, whatever was discarded, failed or spoken in between.
THEOREM SessionSurvives == Spec => []SpeechKeepsSession
<1>1. ConversationInv => SpeechKeepsSession
  BY DEF ConversationInv, TerminalInv, Times, SpeechKeepsSession
<1> QED BY <1>1, ConversationIsInvariant, PTL

\* findActiveIncident asks for opened incidents, then for escalated ones: in that
\* order no incident slips through between the queries.
THEOREM IncidentsAreFound == Spec => []ActiveIncidentFound
<1>1. ConversationInv => ActiveIncidentFound
  BY DEF ConversationInv, RouterInv, TurnInv, Sought, IncidentIntents, ActiveIncidentFound
<1> QED BY <1>1, ConversationIsInvariant, PTL

\* "Operating normally" is only said of an asset that was nominal at some moment
\* of the turn, although state and incident are read one after the other.
THEOREM CalmIsTrue == Spec => []CalmWasTrue
<1>1. ConversationInv => CalmWasTrue
  BY DEF ConversationInv, RouterInv, TurnInv, Calm, CalmWasTrue
<1> QED BY <1>1, ConversationIsInvariant, PTL

\* Every position of the log belongs to one turn.
LEMMA Thirds ==
  \A k \in Nat \ {0} : \E m \in Nat : k = 3 * m + 1 \/ k = 3 * m + 2 \/ k = 3 * m + 3
<1>1. SUFFICES ASSUME NEW k \in Nat \ {0}
               PROVE  \E m \in Nat : k = 3 * m + 1 \/ k = 3 * m + 2 \/ k = 3 * m + 3
  OBVIOUS
<1> DEFINE m == (k - 1) \div 3
<1>2. m \in Nat /\ (k = 3 * m + 1 \/ k = 3 * m + 2 \/ k = 3 * m + 3)
  OBVIOUS
<1> QED BY <1>2

\* The log's events of a turn.
LEMMA EventsOf ==
  ASSUME Logged, NEW i \in DOMAIN log
  PROVE  \E m \in Nat : log[i].turn = m + 1 /\ i \in {3 * m + 1, 3 * m + 2, 3 * m + 3}
<1>1. i \in Nat \ {0}
  BY DEF Logged
<1>2. PICK m \in Nat : i = 3 * m + 1 \/ i = 3 * m + 2 \/ i = 3 * m + 3
  BY <1>1, Thirds
<1>3. log[i].turn = m + 1
  <2>1. CASE i = 3 * m + 1
    <3>1. log[i] = Entry("request_received", m + 1)
      BY <2>1 DEF Logged, Told
    <3> QED BY <3>1 DEF Entry
  <2>2. CASE i = 3 * m + 2
    <3>1. log[i] = Entry("intent_resolved", m + 1)
      BY <2>2 DEF Logged, Told
    <3> QED BY <3>1 DEF Entry
  <2>3. CASE i = 3 * m + 3
    <3>1. log[i] \in {Entry("response_generated", m + 1), Entry("request_failed", m + 1)}
      BY <2>3 DEF Logged, Told
    <3> QED BY <3>1 DEF Entry
  <2> QED BY <1>2, <2>1, <2>2, <2>3
<1> QED BY <1>2, <1>3

\* Each turn is in the log as one run of events that ends with its outcome, the
\* turn in hand as one that lacks it: a request that fails is logged too.
THEOREM LogIsComplete == Spec => []LogTellsTurns
<1>1. ConversationInv => LogTellsTurns
  <2>1. SUFFICES ASSUME ConversationInv, NEW n \in {log[i].turn : i \in DOMAIN log}
                 PROVE  \E k \in DOMAIN log :
                          /\ log[k] = Entry("request_received", n)
                          /\ k + 1 \in DOMAIN log /\ log[k + 1] = Entry("intent_resolved", n)
                          /\ IF turn # Nothing /\ turn.number = n
                             THEN k + 1 = Len(log)
                             ELSE k + 2 \in DOMAIN log
                                  /\ log[k + 2] \in {Entry("response_generated", n),
                                                     Entry("request_failed", n)}
                          /\ \A i \in DOMAIN log : log[i].turn = n => i \in k .. k + 2
    BY DEF LogTellsTurns
  <2>2. Logged /\ Told /\ log \in Seq(Events) /\ DOMAIN log = 1 .. Len(log) /\ Len(log) \in Nat
    BY <2>1 DEF ConversationInv, RouterInv, Logged
  <2>3. PICK j \in DOMAIN log : n = log[j].turn
    BY <2>1
  <2>4. PICK m \in Nat : n = m + 1 /\ j \in {3 * m + 1, 3 * m + 2, 3 * m + 3}
    BY <2>2, <2>3, EventsOf
  <2> DEFINE k == 3 * m + 1
  <2>5. \A i \in DOMAIN log : log[i].turn = m + 1 => i \in k .. k + 2
    <3>1. SUFFICES ASSUME NEW i \in DOMAIN log, log[i].turn = m + 1 PROVE i \in k .. k + 2
      OBVIOUS
    <3>2. PICK q \in Nat : log[i].turn = q + 1 /\ i \in {3 * q + 1, 3 * q + 2, 3 * q + 3}
      BY <2>2, EventsOf
    <3>3. q = m
      BY <3>1, <3>2
    <3> QED BY <3>2, <3>3
  <2>6. \/ turn = Nothing /\ \E q \in Nat : Len(log) = 3 * q
        \/ turn # Nothing /\ turn.number \in Nat /\ Len(log) + 1 = 3 * turn.number
    BY <2>1, <2>2 DEF Logged, Counted, ConversationInv, RouterInv, RouterTypeOK, Turn
  <2>7. k \in DOMAIN log /\ k + 1 \in DOMAIN log
    <3>1. CASE turn = Nothing
      <4>1. PICK q \in Nat : Len(log) = 3 * q
        BY <2>6, <3>1
      <4> QED BY <2>2, <2>4, <4>1
    <3>2. CASE turn # Nothing
      <4>1. PICK q \in Nat : Len(log) + 1 = 3 * q
        BY <2>6, <3>2
      <4> QED BY <2>2, <2>4, <4>1
    <3> QED BY <3>1, <3>2
  <2>8. /\ log[k] = Entry("request_received", m + 1)
        /\ log[k + 1] = Entry("intent_resolved", m + 1)
    <3>1. k + 1 = 3 * m + 2
      OBVIOUS
    <3> QED BY <2>2, <2>7, <3>1 DEF Told
  <2>9. CASE turn # Nothing /\ turn.number = m + 1
    <3>1. turn.number \in Nat /\ Len(log) + 1 = 3 * turn.number /\ turn.number = m + 1
      BY <2>6, <2>9
    <3>2. k + 1 = Len(log)
      BY <2>2, <3>1
    <3> QED BY <2>4, <2>5, <2>7, <2>8, <2>9, <3>2
  <2>10. CASE ~(turn # Nothing /\ turn.number = m + 1)
    <3>1. k + 2 \in DOMAIN log
      <4>1. CASE turn = Nothing
        <5>1. PICK q \in Nat : Len(log) = 3 * q
          BY <2>6, <4>1
        <5> QED BY <2>2, <2>4, <5>1
      <4>2. CASE turn # Nothing
        <5>1. PICK q \in Nat : Len(log) + 1 = 3 * q /\ q # m + 1
          BY <2>6, <2>10, <4>2
        <5> QED BY <2>2, <2>4, <5>1
      <4> QED BY <4>1, <4>2
    <3>2. k + 2 = 3 * m + 3
      OBVIOUS
    <3>3. log[k + 2] \in {Entry("response_generated", m + 1), Entry("request_failed", m + 1)}
      BY <2>2, <3>1, <3>2 DEF Told
    <3> QED BY <2>4, <2>5, <2>7, <2>8, <2>10, <3>1, <3>3
  <2> QED BY <2>9, <2>10
<1> QED BY <1>1, ConversationIsInvariant, PTL

-----------------------------------------------------------------------------
(* The panel.                                                              *)

\* How many of some positions are not behind a given one.
UpTo(S, i) == {j \in S : j <= i}

LEMMA UpToFinite ==
  ASSUME NEW S \in SUBSET Nat, IsFiniteSet(S), NEW i \in S
  PROVE  /\ UpTo(S, i) \in SUBSET S /\ i \in UpTo(S, i) /\ IsFiniteSet(UpTo(S, i))
         /\ Cardinality(S) \in Nat /\ Cardinality(UpTo(S, i)) \in 1 .. Cardinality(S)
<1>1. UpTo(S, i) \in SUBSET S /\ i \in UpTo(S, i)
  BY DEF UpTo
<1>2. IsFiniteSet(UpTo(S, i)) /\ Cardinality(UpTo(S, i)) <= Cardinality(S)
  BY <1>1, FS_Subset
<1>3. Cardinality(S) \in Nat /\ Cardinality(UpTo(S, i)) \in Nat
  BY <1>2, FS_CardinalityType
<1>4. Cardinality(UpTo(S, i)) # 0
  BY <1>1, <1>2, FS_EmptySet
<1> QED BY <1>1, <1>2, <1>3, <1>4

\* Of two positions more are up to the later one.
LEMMA UpToGrows ==
  ASSUME NEW S \in SUBSET Nat, IsFiniteSet(S), NEW i \in S, NEW j \in S, i < j
  PROVE  Cardinality(UpTo(S, i)) < Cardinality(UpTo(S, j))
<1>0. (\A x \in S : x <= i => x <= j) /\ ~(j <= i) /\ j <= j
  <2>1. \A x \in S : x \in Nat
    OBVIOUS
  <2>2. i \in Nat /\ j \in Nat
    BY <2>1
  <2> QED BY <2>1, <2>2
<1>1. UpTo(S, i) \in SUBSET UpTo(S, j) /\ j \notin UpTo(S, i) /\ j \in UpTo(S, j)
  BY <1>0 DEF UpTo
<1>2. IsFiniteSet(UpTo(S, j))
  BY UpToFinite
<1>3. /\ Cardinality(UpTo(S, i)) <= Cardinality(UpTo(S, j))
      /\ Cardinality(UpTo(S, j)) # Cardinality(UpTo(S, i))
  BY <1>1, <1>2, FS_Subset
<1>4. Cardinality(UpTo(S, i)) \in Nat /\ Cardinality(UpTo(S, j)) \in Nat
  BY UpToFinite
<1> QED BY <1>3, <1>4

\* Counting the positions reaches every number up to how many there are: there is
\* a k-th one.
LEMMA NthIs ==
  ASSUME NEW S \in SUBSET Nat, IsFiniteSet(S), NEW k \in 1 .. Cardinality(S)
  PROVE  Nth(S, k) \in S /\ Cardinality(UpTo(S, Nth(S, k))) = k
<1> DEFINE n == Cardinality(S)
           rank == [i \in S |-> Cardinality(UpTo(S, i))]
<1>1. n \in Nat
  BY FS_CardinalityType
<1>2. rank \in [S -> 1 .. n]
  BY UpToFinite
<1>3. ASSUME NEW i \in S, NEW j \in S, rank[i] = rank[j] PROVE i = j
  <2>1. i \in Nat /\ j \in Nat /\ rank[i] \in Nat /\ rank[j] \in Nat
    BY <1>2
  <2>2. i < j => rank[i] < rank[j]
    BY UpToGrows
  <2>3. j < i => rank[j] < rank[i]
    BY UpToGrows
  <2> HIDE DEF rank
  <2> QED BY <1>3, <2>1, <2>2, <2>3
<1>4. rank \in Injection(S, 1 .. n)
  <2> HIDE DEF rank
  <2> QED BY <1>2, <1>3 DEF Injection, IsInjective
<1>5. IsFiniteSet(1 .. n) /\ Cardinality(1 .. n) = n
  BY <1>1, FS_Interval
<1>6. rank \in Surjection(S, 1 .. n)
  <2> HIDE DEF rank
  <2> QED BY <1>4, <1>5, FS_Injection
<1>7. \E i \in S : rank[i] = k
  BY <1>6 DEF Surjection
<1>8. \E i \in S : Cardinality({j \in S : j <= i}) = k
  BY <1>7 DEF UpTo
<1> QED BY <1>8 DEF Nth, UpTo

\* Every position is the k-th for some k, and they are counted in their order.
LEMMA NthOrder ==
  ASSUME NEW S \in SUBSET Nat, IsFiniteSet(S)
  PROVE  /\ \A i \in S : \E k \in 1 .. Cardinality(S) : Nth(S, k) = i
         /\ \A k, m \in 1 .. Cardinality(S) : k < m => Nth(S, k) < Nth(S, m)
<1>0. \A i \in S : i \in Nat
  OBVIOUS
<1>1. ASSUME NEW i \in S PROVE \E k \in 1 .. Cardinality(S) : Nth(S, k) = i
  <2> DEFINE k == Cardinality(UpTo(S, i))
  <2>1. k \in 1 .. Cardinality(S)
    BY UpToFinite
  <2>2. Nth(S, k) \in S /\ Cardinality(UpTo(S, Nth(S, k))) = k
    BY <2>1, NthIs
  <2>3. k \in Nat
    BY UpToFinite
  <2>4. ~(i < Nth(S, k)) /\ ~(Nth(S, k) < i)
    <3>1. i < Nth(S, k) => k < Cardinality(UpTo(S, Nth(S, k)))
      BY <2>2, UpToGrows
    <3>2. Nth(S, k) < i => Cardinality(UpTo(S, Nth(S, k))) < k
      BY <2>2, UpToGrows
    <3> HIDE DEF k
    <3> QED BY <2>2, <2>3, <3>1, <3>2
  <2>5. Nth(S, k) \in Nat /\ i \in Nat
    BY <1>0, <2>2
  <2>6. Nth(S, k) = i
    <3> HIDE DEF k
    <3> QED BY <2>4, <2>5
  <2> QED BY <2>1, <2>6
<1>2. ASSUME NEW k \in 1 .. Cardinality(S), NEW m \in 1 .. Cardinality(S), k < m
      PROVE  Nth(S, k) < Nth(S, m)
  <2>1. /\ Nth(S, k) \in S /\ Cardinality(UpTo(S, Nth(S, k))) = k
        /\ Nth(S, m) \in S /\ Cardinality(UpTo(S, Nth(S, m))) = m
    BY NthIs
  <2>2. Nth(S, k) # Nth(S, m)
    BY <1>2, <2>1
  <2>3. Nth(S, m) < Nth(S, k) => m < k
    BY <2>1, UpToGrows
  <2>4. k \in Nat /\ m \in Nat
    BY FS_CardinalityType
  <2>5. Nth(S, k) \in Nat /\ Nth(S, m) \in Nat
    BY <1>0, <2>1
  <2> QED BY <1>2, <2>2, <2>3, <2>4, <2>5
<1> QED BY <1>1, <1>2

\* Later outcomes in the log are of later turns.
LEMMA LaterTurns ==
  ASSUME Logged, NEW i \in Positions(log, "response_generated"),
         NEW j \in Positions(log, "response_generated"), i < j
  PROVE  log[i].turn \in Nat /\ log[j].turn \in Nat /\ log[i].turn < log[j].turn
<1>1. i \in DOMAIN log /\ log[i].event = "response_generated"
      /\ j \in DOMAIN log /\ log[j].event = "response_generated"
  BY DEF Positions
<1>2. ASSUME NEW p \in DOMAIN log, log[p].event = "response_generated"
      PROVE  \E m \in Nat : p = 3 * m + 3 /\ log[p].turn = m + 1
  <2>1. PICK m \in Nat : log[p].turn = m + 1 /\ p \in {3 * m + 1, 3 * m + 2, 3 * m + 3}
    BY <1>2, EventsOf
  <2>2. p # 3 * m + 1 /\ p # 3 * m + 2
    <3>1. /\ p = 3 * m + 1 => log[p] = Entry("request_received", m + 1)
          /\ p = 3 * m + 2 => log[p] = Entry("intent_resolved", m + 1)
      BY <1>2 DEF Logged, Told
    <3>2. /\ p = 3 * m + 1 => log[p].event = "request_received"
          /\ p = 3 * m + 2 => log[p].event = "intent_resolved"
      BY <3>1 DEF Entry
    <3> QED BY <1>2, <3>2
  <2> QED BY <2>1, <2>2
<1>3. PICK m \in Nat : i = 3 * m + 3 /\ log[i].turn = m + 1
  BY <1>1, <1>2
<1>4. PICK q \in Nat : j = 3 * q + 3 /\ log[j].turn = q + 1
  BY <1>1, <1>2
<1> QED BY <1>3, <1>4

\* While the panel's limit is not exceeded, the operator sees every conversation
\* that was answered, once, and the latest first: no turn is answered twice in the
\* log, and the order of the answers is that of the turns.
THEOREM PanelIsComplete == Spec => []PanelIsRecent
<1> DEFINE S == Positions(log, "response_generated")
           n == Cardinality(S)
           numbers == [k \in 1 .. n |-> log[Nth(S, k)].turn]
<1>1. ConversationInv => PanelIsRecent
  <2>1. SUFFICES ASSUME ConversationInv, n <= PanelLimit
                 PROVE  /\ {Panel[i] : i \in DOMAIN Panel} = {log[i].turn : i \in S}
                        /\ \A i, j \in DOMAIN Panel : i < j => Panel[i] > Panel[j]
    BY DEF PanelIsRecent
  <2>2. Logged /\ DOMAIN log = 1 .. Len(log) /\ Len(log) \in Nat
    BY <2>1 DEF ConversationInv, RouterInv, Logged
  <2>3. S \in SUBSET Nat /\ IsFiniteSet(S) /\ n \in Nat
    <3>1. S \in SUBSET (1 .. Len(log)) /\ IsFiniteSet(1 .. Len(log))
      BY <2>2, FS_Interval DEF Positions
    <3>2. IsFiniteSet(S)
      BY <3>1, FS_Subset
    <3> QED BY <3>1, <3>2, FS_CardinalityType
  <2>4. /\ \A k \in 1 .. n : Nth(S, k) \in S
        /\ \A i \in S : \E k \in 1 .. n : Nth(S, k) = i
        /\ \A k, m \in 1 .. n : k < m => Nth(S, k) < Nth(S, m)
    BY <2>3, NthIs, NthOrder
  <2>5. numbers = Numbers(log, "response_generated")
    BY DEF Numbers
  <2>6. /\ \A k \in 1 .. n : numbers[k] \in Nat
        /\ \A k, m \in 1 .. n : k < m => numbers[k] < numbers[m]
    <3>1. \A i \in S : log[i].turn \in Nat
      BY <2>2, EventsOf DEF Positions
    <3>2. \A i, j \in S : i < j => log[i].turn < log[j].turn
      BY <2>2, LaterTurns
    <3> HIDE DEF S, n
    <3> QED BY <2>4, <3>1, <3>2
  <2>7. Panel = [k \in 1 .. n |-> numbers[n + 1 - k]]
    <3>1. numbers \in Seq(Nat) /\ Len(numbers) = n
      <4> HIDE DEF S, n
      <4> QED BY <2>3, <2>6
    <3>2. PanelLimit \in Nat
      BY RouterAssumption DEF RouterAssumption
    <3>3. SubSeq(numbers, 1, IF n < PanelLimit THEN n ELSE PanelLimit) = numbers
      <4> HIDE DEF numbers, n
      <4>1. (IF n < PanelLimit THEN n ELSE PanelLimit) = n
        BY <2>1, <2>3, <3>2
      <4> QED BY <2>3, <3>1, <4>1
    <3>4. Panel = NewestFirst(numbers)
      <4> HIDE DEF numbers, n
      <4> QED BY <2>5, <3>1, <3>3 DEF Panel
    <3> HIDE DEF n
    <3> QED BY <2>3, <3>1, <3>4 DEF NewestFirst
  <2>8. {Panel[i] : i \in DOMAIN Panel} = {log[i].turn : i \in S}
    <3>1. \A k \in 1 .. n : n + 1 - k \in 1 .. n /\ n + 1 - (n + 1 - k) = k
      BY <2>3
    <3>2. {Panel[i] : i \in DOMAIN Panel} = {numbers[k] : k \in 1 .. n}
      <4> HIDE DEF numbers, n
      <4> QED BY <2>7, <3>1
    <3>3. {numbers[k] : k \in 1 .. n} = {log[i].turn : i \in S}
      <4> HIDE DEF S, n
      <4> QED BY <2>4
    <3> QED BY <3>2, <3>3
  <2>9. \A i, j \in DOMAIN Panel : i < j => Panel[i] > Panel[j]
    <3> HIDE DEF numbers, n
    <3> QED BY <2>3, <2>6, <2>7
  <2> QED BY <2>8, <2>9
<1> QED BY <1>1, ConversationIsInvariant, PTL
=============================================================================
