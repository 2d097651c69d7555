----------------------------- MODULE Conversation -----------------------------
(***************************************************************************)
(* The operator's conversation with a robot: VoiceTerminal asks Lex, Lex   *)
(* has IntentRouter fulfil the intent it understood, and the answer is     *)
(* spoken by the terminal.  The terminal is blocked meanwhile; time, the   *)
(* microphone and the tables go on.                                        *)
(***************************************************************************)
EXTENDS VoiceTerminal, IntentRouter

VARIABLE lex   \* the request at Lex: "none", "asked", "fulfilling" or "answered"

vars == <<terminal, world, router, lex>>

Init == TerminalInit /\ RouterInit /\ lex = "none"

\* A terminal that sent its utterance has a request at Lex.
TerminalListens ==
  /\ Listening
  /\ lex' = IF pc' = "ask" THEN "asked" ELSE lex
  /\ UNCHANGED <<world, router>>

\* Lex understood an intent and calls the Lambda.
LexFulfils ==
  /\ lex = "asked" /\ lex' = "fulfilling"
  /\ Receive
  /\ UNCHANGED terminal

RouterWorks ==
  /\ lex = "fulfilling"
  /\ Handle
  /\ lex' = IF turn' = Nothing THEN "answered" ELSE lex
  /\ UNCHANGED terminal

\* The answer is synthesised and arrives.
AnswerArrives ==
  /\ lex = "answered" /\ lex' = "none"
  /\ Answered
  /\ UNCHANGED <<world, router>>

\* Lex did not understand, could not be reached, or its audio could not be read.
NoAnswerArrives ==
  /\ lex \in {"asked", "answered"} /\ lex' = "none"
  /\ NotAnswered
  /\ UNCHANGED <<world, router>>

TerminalElse == (Tick \/ Speaking \/ Operator) /\ UNCHANGED <<world, router, lex>>

\* The tables matter to nobody else here: what changes in them while no request
\* is on its way changes when one is, before the Lambda is called.
TablesChange ==
  /\ lex \in {"asked", "fulfilling"}
  /\ Pipeline
  /\ UNCHANGED <<terminal, lex>>

Next ==
  \/ TerminalListens \/ LexFulfils \/ RouterWorks
  \/ AnswerArrives \/ NoAnswerArrives
  \/ TerminalElse \/ TablesChange

Spec == Init /\ [][Next]_vars

\* Time passes, the terminal's code and the Lambda run, calls return.
FairSpec ==
  /\ Spec
  /\ WF_vars(Tick /\ UNCHANGED <<world, router, lex>>)
  /\ WF_vars(TerminalListens)
  /\ WF_vars(Speaking /\ UNCHANGED <<world, router, lex>>)
  /\ WF_vars(LexFulfils \/ AnswerArrives \/ NoAnswerArrives)
  /\ WF_vars(RouterWorks)

-----------------------------------------------------------------------------
(* Properties.                                                             *)

\* Type invariant: a turn is being handled exactly while Lex waits for the Lambda.
TypeOK ==
  /\ TerminalTypeOK /\ RouterTypeOK
  /\ lex \in {"none", "asked", "fulfilling", "answered"}
  /\ lex = "fulfilling" <=> turn # Nothing

\* Once an utterance has begun, a stop ends the terminal when the exchange is
\* over: the recording ends though the operator goes on speaking, the request
\* returns, the answer is spoken, and no other is waited for.  (A terminal that
\* waits for speech does not notice the stop: record_utterance never looks.)
StopEndsExchange ==
  stop /\ pc \in {"record", "send", "ask", "speak"} ~> pc = "closed"

=============================================================================
