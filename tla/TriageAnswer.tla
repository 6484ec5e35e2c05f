----------------------------- MODULE TriageAnswer -----------------------------
(***************************************************************************)
(* One analysis (backend/app/api/v1/analyze.py, services/llm_client.py): the  *)
(* context is collected from five sources, any of which may fail, and the     *)
(* model's answer is streamed to the caller line by line, or parsed into a    *)
(* triage card.  The provider sends tokens, then its stop reason; its stream   *)
(* may fail anywhere, or end before the stop reason came.                     *)
(***************************************************************************)
EXTENDS Windows, Naturals, Sequences, SequencesExt, FiniteSets

CONSTANTS
  Source,      \* logs, apm, metrics, kubernetes, alerts
  Token,       \* pieces of text
  MaxTokens    \* bound: tokens of an answer

VARIABLES
  mode,        \* "stream", "simple" or "card"
  phase,       \* "collecting", "calling", "ended" or "left"
  collected,   \* source -> "waiting", "data" or "empty"
  provider,    \* "tokens", "stopped", "cut" or "closed": what the provider still sends
  text,        \* the tokens received so far
  lines,       \* the lines sent to the caller
  card         \* the answer of the card request

answerVars == <<mode, phase, collected, provider, text, lines, card>>

NoCard == [done |-> FALSE]
TokenLine(t) == [type |-> "token", text |-> <<t>>]
CompleteLine == [type |-> "complete", text |-> text]
ErrorLine == [type |-> "error", text |-> <<>>]

Init ==
  /\ mode \in {"stream", "simple", "card"}
  /\ phase = "collecting"
  /\ collected = [s \in Source |-> "waiting"]
  /\ provider = "tokens" /\ text = <<>> /\ lines = <<>> /\ card = NoCard

Finish(answer) ==
  /\ phase' = "ended"
  /\ IF mode = "card" THEN card' = answer /\ UNCHANGED lines
     ELSE lines' = Append(lines, ErrorLine) /\ UNCHANGED card
Failure == [done |-> TRUE, success |-> FALSE, findings |-> 0]

-----------------------------------------------------------------------------
\* Without an API key the caller gets an error at once.
NotConfigured ==
  /\ phase = "collecting" /\ \A s \in Source : collected[s] = "waiting"
  /\ Finish(Failure)
  /\ UNCHANGED <<mode, collected, provider, text>>

\* Each source answers or fails by itself; a failure counts as no data.
Collect(s) ==
  /\ phase = "collecting" /\ collected[s] = "waiting"
  /\ \E got \in {"data", "empty"} : collected' = [collected EXCEPT ![s] = got]
  /\ phase' = IF \A o \in Source \ {s} : collected[o] # "waiting"
              THEN "calling" ELSE "collecting"
  /\ UNCHANGED <<mode, provider, text, lines, card>>

\* A delta with text is passed on before the next one is read.
StreamToken(t) ==
  /\ phase = "calling" /\ provider = "tokens" /\ Len(text) < MaxTokens
  /\ text' = Append(text, t)
  /\ lines' = IF mode = "card" THEN lines ELSE Append(lines, TokenLine(t))
  /\ UNCHANGED <<mode, phase, collected, provider, card>>

\* The stop reason: the caller gets the whole answer.
StreamStop ==
  /\ phase = "calling" /\ provider = "tokens" /\ mode # "card"
  /\ provider' = "stopped" /\ lines' = Append(lines, CompleteLine)
  /\ UNCHANGED <<mode, phase, collected, text, card>>

\* The end of the stream adds nothing; the usage is recorded.
StreamEnd ==
  /\ phase = "calling" /\ provider = "stopped"
  /\ provider' = "closed" /\ phase' = "ended"
  /\ UNCHANGED <<mode, collected, text, lines, card>>

\* The stream ends before the stop reason: the loop is over and nothing more is
\* sent, no error either.
StreamCut ==
  /\ phase = "calling" /\ provider = "tokens" /\ mode # "card"
  /\ provider' = "cut" /\ phase' = "ended"
  /\ UNCHANGED <<mode, collected, text, lines, card>>

\* The call or the stream fails, at any point, the end included.
ProviderFails ==
  /\ phase = "calling" /\ provider' = "closed"
  /\ Finish(Failure)
  /\ UNCHANGED <<mode, collected, text>>

\* A cut-off answer is refused, an unreadable one too, and a finding that does
\* not validate is skipped.
CardAnswer ==
  /\ phase = "calling" /\ mode = "card" /\ provider' = "closed"
  /\ phase' = "ended"
  /\ \E stop \in {"end_turn", "max_tokens"}, readable \in BOOLEAN, valid \in 0..1 :
       card' = IF stop = "max_tokens" \/ ~readable THEN Failure
               ELSE [done |-> TRUE, success |-> TRUE, findings |-> valid]
  /\ UNCHANGED <<mode, collected, text, lines>>

\* The caller closes its connection.
CallerLeaves ==
  /\ phase \in {"collecting", "calling"} /\ phase' = "left"
  /\ UNCHANGED <<mode, collected, provider, text, lines, card>>

Next ==
  \/ \E s \in Source : Collect(s)
  \/ \E t \in Token : StreamToken(t)
  \/ NotConfigured \/ StreamStop \/ StreamEnd \/ StreamCut
  \/ ProviderFails \/ CardAnswer \/ CallerLeaves
Spec == Init /\ [][Next]_answerVars

\* Every source has a timeout, and so has the wait for what the model sends next.
ProviderStep == \/ \E t \in Token : StreamToken(t)
                \/ StreamStop \/ StreamEnd \/ StreamCut \/ CardAnswer \/ ProviderFails
AnswerFairness == /\ \A s \in Source : WF_answerVars(Collect(s))
                  /\ WF_answerVars(ProviderStep)
FairSpec == Spec /\ AnswerFairness

-----------------------------------------------------------------------------
(* What the caller was shown token by token is what it is told the answer     *)
(* was: a "complete" line carries every token sent, once, no token follows    *)
(* it, and only an error may (llm_client.py 565-768).                         *)
Streamed ==
  LET shown == Kept(lines, {TokenLine(t) : t \in Token})
  IN  [i \in DOMAIN shown |-> shown[i].text[1]]
StreamTellsTheTruth ==
  \A i \in DOMAIN lines : lines[i].type = "complete" =>
    /\ lines[i].text = Streamed
    /\ \A j \in i + 1..Len(lines) : lines[j].type = "error"

(* A caller that stays is answered: its card request in a card or an error,   *)
(* its stream in a line that says so, whatever fails, the stop reason missing  *)
(* being the one case in which the stream just ends (analyze.py 225-457,       *)
(* llm_client.py 353-424, 492-563, 622-674, 720-768).                         *)
Answered == \/ phase = "left"
            \/ phase = "ended" /\ (IF mode = "card" THEN card.done
                                   ELSE \/ provider = "cut"
                                        \/ lines # <<>> /\ Last(lines).type # "token")
CallerIsAnswered == []<>Answered
=============================================================================
