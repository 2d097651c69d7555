---------------------------- MODULE VoiceTerminal ----------------------------
(***************************************************************************)
(* The voice terminal on the robot or on a laptop: the microphone and its  *)
(* buffer, the recording of an utterance by its energy, the session with   *)
(* its inactivity timeout, the request to Lex and the playback.            *)
(*                                                                         *)
(* A tick is the duration of one chunk of audio.  The terminal reads       *)
(* chunks faster than they come: a tick passes while it is blocked, with   *)
(* the buffer drained if it is listening.  While it asks or speaks nobody  *)
(* reads, and the chunks wait in the buffer.  How long recognize takes is  *)
(* not counted: its return resets what the time is counted for.            *)
(***************************************************************************)
EXTENDS Naturals, Sequences

CONSTANTS
  SilenceTicks,    \* SILENCE_DURATION_S
  MaxRecordTicks,  \* MAX_RECORD_S
  MinRecordChunks, \* MIN_RECORD_S
  PreRoll,         \* PRE_ROLL_CHUNKS
  SessionTimeout,  \* SESSION_TIMEOUT_S
  BufferSize,      \* chunks the audio library keeps
  MaxTurns         \* bound: utterances sent

ASSUME TerminalAssumption ==
  /\ {SilenceTicks, MaxRecordTicks, MinRecordChunks, PreRoll, BufferSize} \subseteq Nat \ {0}
  /\ {SessionTimeout, MaxTurns} \subseteq Nat

VARIABLES
  mode,        \* "daemon" on the robot; on a laptop "open" or "press" to talk
  pc,          \* where _cycle is
  stop,        \* stop_event
  mic,         \* chunks not yet read: "quiet", or the loud voice they carry
  ring,        \* chunks in the pre-roll buffer
  frames,      \* chunks recorded
  elapsed,     \* ticks since record_start
  silence,     \* ticks since silence_start, or None
  idle,        \* ticks since _last_activity, up to one more than the timeout
  session,     \* _session_id: sessions are numbered
  turns,       \* utterances sent
  sinceAnswer, \* history: ticks since recognize returned, capped like idle
  begun,       \* history: sinceAnswer when the speech of the recording in progress began
  kept         \* history: has the last request kept the session it had to keep?

capture == <<ring, frames, elapsed, silence>>
sessionVars == <<idle, session>>
history == <<sinceAnswer, begun, kept>>
terminal == <<mode, pc, stop, mic, capture, sessionVars, turns, history>>

Modes == {"daemon", "open", "press"}
None == SilenceTicks + 1   \* no silence_start: silence never gets that long

Start(m) == IF m = "press" THEN "prompt" ELSE "listen"

TerminalInit ==
  /\ mode \in Modes /\ pc = Start(mode) /\ stop = FALSE
  /\ mic = <<>> /\ ring = 0 /\ frames = 0 /\ elapsed = 0 /\ silence = None
  /\ idle = 0 /\ session = 1 /\ turns = 0
  /\ sinceAnswer = 0 /\ begun = 0 /\ kept = TRUE

-----------------------------------------------------------------------------
(* Time and the microphone.                                                *)

Capped(n) == IF n > SessionTimeout THEN n ELSE n + 1

\* The room hears the operator, nobody, or the terminal's own speaker.
Sounds == {"quiet", "operator"} \cup (IF pc = "speak" THEN {"robot"} ELSE {})

\* The chunk of this tick; a full buffer overflows, at one end or the other.
Sampled(chunk) ==
  IF Len(mic) < BufferSize THEN {Append(mic, chunk)}
  ELSE {mic, Append(Tail(mic), chunk)}

Tick ==
  /\ pc # "closed"
  /\ pc \in {"listen", "record"} => mic = <<>>
  /\ pc # "send"
  /\ \E chunk \in Sounds : mic' \in Sampled(chunk)
  /\ IF pc = "ask" THEN UNCHANGED <<idle, sinceAnswer>>
     ELSE idle' = Capped(idle) /\ sinceAnswer' = Capped(sinceAnswer)
  /\ elapsed' = IF pc = "record" THEN elapsed + 1 ELSE elapsed
  /\ silence' = IF pc = "record" /\ silence # None THEN silence + 1 ELSE silence
  /\ UNCHANGED <<mode, pc, stop, ring, frames, session, turns, begun, kept>>

-----------------------------------------------------------------------------
(* _cycle                                                                  *)

\* The locals of record_utterance are gone.
NoRecording == ring' = 0 /\ frames' = 0 /\ elapsed' = 0 /\ silence' = None

\* Mutant: the stop event is not looked at between two cycles.
CycleAnyway == pc' = Start(mode)
\* The next cycle starts, unless run() sees the stop event.
NextCycle == pc' = IF stop THEN "closed" ELSE Start(mode)

\* input("Press Enter to speak... "); the end of the input is a stop.
PressEnter ==
  /\ pc = "prompt"
  /\ pc' = "listen"
  /\ UNCHANGED <<mode, stop, mic, capture, sessionVars, turns, history>>

EndOfInput ==
  /\ pc = "prompt"
  /\ stop' = TRUE
  /\ pc' = "closed"
  /\ UNCHANGED <<mode, mic, capture, sessionVars, turns, history>>

\* record_utterance before speech: chunks go through the pre-roll buffer.  It
\* does not look at the stop event.
Least(m, n) == IF m < n THEN m ELSE n

Wait ==
  /\ pc = "listen" /\ mic # <<>>
  /\ ring' = Least(ring + 1, PreRoll)
  /\ IF Head(mic) = "quiet"
     THEN UNCHANGED <<pc, frames, begun>>
     ELSE /\ turns < MaxTurns   \* bound
          /\ pc' = "record"
          /\ frames' = ring'
          /\ begun' = sinceAnswer
  /\ mic' = Tail(mic)
  /\ UNCHANGED <<mode, stop, elapsed, silence, sessionVars, turns, sinceAnswer, kept>>

\* Mutant: the first quiet chunk ends the utterance.
SilentAtOnce(chunk) == chunk = "quiet"
\* A silence that has lasted long enough.
SilentLongEnough(chunk) == chunk = "quiet" /\ silence # None /\ silence >= SilenceTicks

TooLong(chunk) == elapsed >= MaxRecordTicks

\* record_utterance while speaking.
Record ==
  /\ pc = "record" /\ mic # <<>>
  /\ LET chunk == Head(mic)
     IN  /\ frames' = frames + 1
         /\ silence' = IF chunk # "quiet" THEN None
                       ELSE IF silence = None THEN 0 ELSE silence
         /\ pc' = IF SilentLongEnough(chunk) \/ TooLong(chunk) THEN "send" ELSE pc
  /\ mic' = Tail(mic)
  /\ UNCHANGED <<mode, stop, ring, elapsed, sessionVars, turns, history>>

\* duration < min_record_s
TooShort == frames < MinRecordChunks

\* A recording that is too short is thrown away.  The property session_id resets
\* a session that timed out; recognize is called with it.
Send ==
  /\ pc = "send"
  /\ IF TooShort
     THEN NextCycle /\ UNCHANGED <<turns, sessionVars, kept>>
     ELSE /\ turns' = turns + 1
          /\ IF idle > SessionTimeout
             THEN session' = session + 1 /\ idle' = 0
             ELSE UNCHANGED sessionVars
          /\ kept' = (begun + MaxRecordTicks <= SessionTimeout => session' = session)
          /\ pc' = "ask"
  /\ NoRecording /\ begun' = 0
  /\ UNCHANGED <<mode, stop, mic, sinceAnswer>>

\* Mutant: an answer does not count as activity.
TouchNever == idle
\* touch(), whether or not recognize failed.
Touch == 0

Returned == idle' = Touch /\ sinceAnswer' = 0

\* recognize returned speech.
Answered ==
  /\ pc = "ask"
  /\ Returned
  /\ pc' = "speak"
  /\ UNCHANGED <<mode, stop, mic, capture, session, turns, begun, kept>>

\* recognize failed and returned an empty response, or one without audio.
NotAnswered ==
  /\ pc = "ask"
  /\ Returned
  /\ NextCycle
  /\ UNCHANGED <<mode, stop, mic, capture, session, turns, begun, kept>>

\* play_mp3 returns when the audio has been played, or could not be decoded.
Played ==
  /\ pc = "speak"
  /\ NextCycle
  /\ UNCHANGED <<mode, stop, mic, capture, sessionVars, turns, history>>

\* The player throws (no ffmpeg, or the fallback exits with an error): nobody
\* catches it, run() closes the devices and ends.
PlayerFails ==
  /\ pc = "speak"
  /\ pc' = "closed"
  /\ UNCHANGED <<mode, stop, mic, capture, sessionVars, turns, history>>

\* The app manager stops the daemon app.
Stop ==
  /\ mode = "daemon" /\ ~stop /\ pc # "closed"
  /\ stop' = TRUE
  /\ UNCHANGED <<mode, pc, mic, capture, sessionVars, turns, history>>

\* Ctrl-C on a laptop interrupts whatever call is blocked.
Interrupt ==
  /\ mode # "daemon" /\ pc # "closed"
  /\ stop' = TRUE
  /\ pc' = "closed"
  /\ UNCHANGED <<mode, mic, capture, sessionVars, turns, history>>

Listening == Wait \/ Record \/ Send
Speaking == Played \/ PlayerFails
Operator == PressEnter \/ EndOfInput \/ Stop \/ Interrupt

-----------------------------------------------------------------------------
(* Properties.                                                             *)

\* Type invariant: the terminal and the chunks it holds.
TerminalTypeOK ==
  /\ mode \in Modes
  /\ pc \in {"prompt", "listen", "record", "send", "ask", "speak", "closed"}
  /\ Len(mic) <= BufferSize
  /\ ring \in 0 .. PreRoll
  /\ idle \in 0 .. SessionTimeout + 1 /\ sinceAnswer \in 0 .. SessionTimeout + 1

\* An utterance is never discarded as too short: the silence that ends it is
\* itself longer than the least duration.
NothingDiscarded == pc = "send" => ~TooShort

\* The session is not lost in the middle of a conversation: a request whose
\* speech began early enough after the last answer, for its recording to end
\* within the timeout, carries the session of that answer.
SpeechKeepsSession == kept

=============================================================================
