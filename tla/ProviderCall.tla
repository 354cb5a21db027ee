---------------------------- MODULE ProviderCall ----------------------------
(***************************************************************************)
(* One call of a model provider: HTTPEmbeddingProvider.embed of            *)
(* services/rag/embeddings/http.py and GroqProvider.complete of            *)
(* services/ai/groq.py.  Both send a request, wait for the answer or the   *)
(* timeout, and repeat it after a growing delay when the provider was out. *)
(***************************************************************************)
EXTENDS Integers

CONSTANTS
    MaxRetries,     \* max_retries of the client
    Status          \* the statuses other than 200 a provider may answer with

ASSUME CallAssumption == MaxRetries \in Nat /\ Status \subseteq Nat \ {200}

VARIABLE call

Client == {"embeddings", "groq"}

\* "inputs" is the number of texts sent, "got" the number of results returned.
\* "asleep" is the delay before another attempt; "raised" stands for EmbeddingError
\* and LLMError.
Call == [client : Client, state : {"idle", "sent", "asleep", "returned", "raised"},
         inputs : Nat, attempt : 0..MaxRetries, got : Nat]

Idle(client) == [client |-> client, state |-> "idle", inputs |-> 0, attempt |-> 0, got |-> 0]
-----------------------------------------------------------------------------
EmbeddingRetryable == {408, 425, 429, 500, 502, 503, 504}
GroqRetryable == {408, 425, 429, 500, 502, 503, 504}

Retryable(client) == IF client = "groq" THEN GroqRetryable ELSE EmbeddingRetryable

\* 2**n.
TwoTo[n \in Nat] == IF n = 0 THEN 1 ELSE 2 * TwoTo[n - 1]

\* The delay before the next attempt, 0.5 * 2**attempt, in half seconds.
Delay(attempt) == TwoTo[attempt]

\* A variant that tries once more than it was told to.
OneMore(attempt) == attempt < MaxRetries + 1

TriesAgain(attempt) == attempt < MaxRetries

\* The end of one round of the loop: sleep, or raise after the last attempt.
AfterOutage(c) == [c EXCEPT !.state = IF TriesAgain(c.attempt) THEN "asleep" ELSE "raised"]

\* embed and complete look for the key before anything is sent.
Begin(client, inputs, hasKey) ==
    /\ call.state = "idle"
    /\ call' = [Idle(client) EXCEPT !.state = IF hasKey THEN "sent" ELSE "raised",
                                    !.inputs = inputs]

\* httpx.TimeoutException or httpx.TransportError.
TimesOut ==
    /\ call.state = "sent"
    /\ call' = AfterOutage(call)

AnswersStatus(status) ==
    /\ call.state = "sent"
    /\ call' = IF status \in Retryable(call.client) THEN AfterOutage(call)
               ELSE [call EXCEPT !.state = "raised"]

\* _parse of the embedding client: as many vectors as texts, each of the right
\* dimension ("fits").
EmbeddingParses(results, fits) == results = call.inputs /\ fits

\* _parse of the Groq client: at least one choice, and its content is not blank;
\* the first one is taken.
GroqParses(results, fits) == results > 0 /\ fits

EmbeddingAnswers(results, fits) ==
    /\ call.client = "embeddings"
    /\ call.state = "sent"
    /\ call' = IF EmbeddingParses(results, fits)
               THEN [call EXCEPT !.state = "returned", !.got = results]
               ELSE [call EXCEPT !.state = "raised"]

GroqAnswers(results, fits) ==
    /\ call.client = "groq"
    /\ call.state = "sent"
    /\ call' = IF GroqParses(results, fits) THEN [call EXCEPT !.state = "returned", !.got = 1]
               ELSE [call EXCEPT !.state = "raised"]

\* A 200 whose body is not JSON is not worth another attempt.
AnswersNoJson ==
    /\ call.state = "sent"
    /\ call' = [call EXCEPT !.state = "raised"]

\* A variant that sends the request again without counting the attempt.
Uncounted(attempt) == attempt

NextAttempt(attempt) == attempt + 1

\* asyncio.sleep returned: the next round of the loop.
Wake ==
    /\ call.state = "asleep"
    /\ call' = [call EXCEPT !.state = "sent", !.attempt = NextAttempt(call.attempt)]

Answered == \E results \in 0..(call.inputs + 1), fits \in BOOLEAN :
                EmbeddingAnswers(results, fits) \/ GroqAnswers(results, fits)

Settles == TimesOut \/ (\E status \in Status : AnswersStatus(status)) \/ Answered \/ AnswersNoJson
=============================================================================
