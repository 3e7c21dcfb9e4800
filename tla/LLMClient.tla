----------------------------- MODULE LLMClient -----------------------------
(***************************************************************************)
(* The narrative of one analysis: analyzer.py's choice between the report  *)
(* it has built itself and a model's, and llm_client.py's requests to the  *)
(* model, with the second Ollama endpoint, the retries and the backoff.    *)
(* What the server and the network do is free: every request may be        *)
(* answered, answered without text, refused, or fail after any delay up to *)
(* the timeout in connecting and again in waiting for the answer, which    *)
(* then arrives in one piece (requests' timeout is for each of these waits *)
(* and not for their sum).                                                 *)
(***************************************************************************)
EXTENDS Integers

CONSTANTS
    MaxRetries,   \* LLM_MAX_RETRIES
    Timeout,      \* LLM_TIMEOUT_SECONDS, in steps of the clock
    Backoff       \* LLM_RETRY_BACKOFF_SECONDS, likewise

(* How often and how long the model may be asked in all. *)
Attempts == IF MaxRetries >= 0 THEN MaxRetries + 1 ELSE 0
Deadline == Attempts * 2 * (2 * Timeout) + Backoff * ((Attempts * (Attempts - 1)) \div 2)

VARIABLES
    backend,      \* "ollama" or "vllm"
    pc,           \* the next step of the analysis
    attempt,      \* the attempt of _with_retries, 0 before the first
    elapsed,      \* ghost: time spent in requests and sleeps, up to Deadline + 1
    report,       \* the text returned: "none" yet, "deterministic",
                  \* "narrative", or "blank" when the model's text is empty
    llmOk         \* llm_narrative_ok

vars == <<backend, pc, attempt, elapsed, report, llmOk>>

Init ==
    /\ backend \in {"ollama", "vllm"}
    /\ pc = "analyze"
    /\ attempt = 0 /\ elapsed = 0
    /\ report = "none"
    /\ llmOk = TRUE

Finish(text, ok) ==
    /\ report' = text
    /\ llmOk' = ok
    /\ pc' = "done"

(* except LLMUnavailable: fall back to the deterministic report. *)
FallBack == Finish("deterministic", FALSE)

(* LLM_NARRATIVE_ENABLED is off: the deterministic report is the report.   *)
Disabled ==
    /\ pc = "analyze"
    /\ Finish("deterministic", TRUE)
    /\ UNCHANGED <<backend, attempt, elapsed>>

(* The client's library is not installed. *)
NoLibrary ==
    /\ pc = "analyze"
    /\ FallBack
    /\ UNCHANGED <<backend, attempt, elapsed>>

FirstRequest == IF backend = "ollama" THEN "chat" ELSE "create"

(* for attempt in range(1, LLM_MAX_RETRIES + 2), which may be empty. *)
StartQuery ==
    /\ pc = "analyze"
    /\ IF MaxRetries + 1 >= 1
       THEN attempt' = 1 /\ pc' = FirstRequest /\ UNCHANGED <<report, llmOk>>
       ELSE FallBack /\ UNCHANGED attempt
    /\ UNCHANGED <<backend, elapsed>>

Pass(d) == elapsed' = IF elapsed + d <= Deadline THEN elapsed + d ELSE Deadline + 1

(* How long one request takes. *)
Spend == \E connect, read \in 0..Timeout : Pass(connect + read)

(* 200 with the text, or without it. *)
Answered == \E text \in {"narrative", "blank"} : Finish(text, TRUE)

(* Connection refused, timed out, error status, unusable body.             *)
Raised == pc' = "failed" /\ UNCHANGED <<report, llmOk>>

(* POST to the chat endpoint; a status other than 200 tries the other one. *)
Chat ==
    /\ pc = "chat"
    /\ Spend
    /\ \/ Answered
       \/ Raised
       \/ pc' = "generate" /\ UNCHANGED <<report, llmOk>>
    /\ UNCHANGED <<backend, attempt>>

Generate ==
    /\ pc = "generate"
    /\ Spend
    /\ Answered \/ Raised
    /\ UNCHANGED <<backend, attempt>>

(* The OpenAI client's create, which may itself ask up to three times. *)
SdkRequests == 3

Create ==
    /\ pc = "create"
    /\ \E d \in 0..(SdkRequests * 2 * Timeout) : Pass(d)
    /\ Answered \/ Raised
    /\ UNCHANGED <<backend, attempt>>

(* Seeded fault: one retry too many. *)
CanRetryOnceMore == attempt <= MaxRetries + 1

CanRetry == attempt <= MaxRetries

(* Seeded fault: the attempt is not counted. *)
RetryUncounted ==
    /\ pc = "failed"
    /\ CanRetry
    /\ Pass(Backoff * attempt)
    /\ pc' = FirstRequest
    /\ UNCHANGED <<backend, attempt, report, llmOk>>

(* time.sleep and the next attempt. *)
Retry ==
    /\ pc = "failed"
    /\ CanRetry
    /\ Pass(Backoff * attempt)
    /\ attempt' = attempt + 1
    /\ pc' = FirstRequest
    /\ UNCHANGED <<backend, report, llmOk>>

(* Seeded fault: the error text becomes the report.                        *)
GiveUpWithError ==
    /\ pc = "failed"
    /\ ~CanRetry
    /\ Finish("narrative", FALSE)
    /\ UNCHANGED <<backend, attempt, elapsed>>

(* raise LLMUnavailable *)
GiveUp ==
    /\ pc = "failed"
    /\ ~CanRetry
    /\ FallBack
    /\ UNCHANGED <<backend, attempt, elapsed>>

Step == Disabled \/ NoLibrary \/ StartQuery \/ Chat \/ Generate \/ Create \/ Retry \/ GiveUp

Stop == pc = "done" /\ UNCHANGED vars

Next == Step \/ Stop

Spec == Init /\ [][Next]_vars

-----------------------------------------------------------------------------
(* The types of the loop's variables and of the result. *)
TypeOK ==
    /\ backend \in {"ollama", "vllm"}
    /\ pc \in {"analyze", "chat", "generate", "create", "failed", "done"}
    /\ attempt \in 0..Attempts
    /\ elapsed \in 0..(Deadline + 1)
    /\ report \in {"none", "deterministic", "narrative", "blank"}
    /\ llmOk \in BOOLEAN

(* "bounded timeout, capped retries with backoff" (llm_client.py:29): a    *)
(* request thread spends on Ollama at most two requests per attempt and    *)
(* the pauses between attempts, whatever the endpoints answer, and no      *)
(* pause after the last attempt.                                           *)
WithinDeadline == backend = "ollama" => elapsed <= Deadline

(* The narrative is only given up when every attempt has been made and has *)
(* failed, or none could be made; and what is returned then, marked not    *)
(* ok, is the deterministic report and no error text (analyzer.py:83-85).  *)
FallbackIsDeterministic ==
    (pc = "done" /\ ~llmOk) => report = "deterministic" /\ attempt \in {0, Attempts}

(* "Every scan returns a full deterministic remediation report ... The     *)
(* optional local LLM is pure polish" (README.md:91-92): there is always a *)
(* report to read.                                                         *)
ReportIsNeverBlank == pc = "done" => report \in {"deterministic", "narrative"}
=============================================================================
