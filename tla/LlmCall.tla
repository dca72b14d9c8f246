------------------------------- MODULE LlmCall -------------------------------
(***************************************************************************)
(* One call of the language model, from gateway.call down: retry_call_chat *)
(* (llm/retry.py) is a loop that minds a deadline around _call_once, which *)
(* tenacity repeats on its own schedule around call_chat (http_client.py). *)
(* Time is counted in seconds; a step is one POST with the wait it earns.  *)
(***************************************************************************)
EXTENDS Naturals, Sequences

CONSTANTS
    Attempts,       \* rounds of the loop that minds the deadline
    InnerAttempts,  \* stop_after_attempt
    Backoff,        \* RATE_LIMIT_BACKOFF_SECONDS, one wait between two attempts
    Deadline,       \* deadline_s
    Durations       \* what a POST may take.  timeout_s is httpx's, for each of its
                    \* operations, and the lookup of the host has none: no bound

ASSUME LlmAssumption ==
    /\ Attempts \in Nat /\ InnerAttempts \in Nat \ {0}
    /\ Backoff \in Seq(Nat) /\ Len(Backoff) = InnerAttempts - 1
    /\ Deadline \in Nat /\ Durations \subseteq Nat

\* The call in flight; "slow" is never read by the program: the time the POSTs
\* of the round took.
VARIABLE ask

llmVars == ask

\* What a POST may come to.  "answer" and "no text" are 2xx; "lost" is a
\* network error of httpx, a timeout among them, "os" one of the language's
\* own; "setup" a missing key, model or URL, a host that is refused or unknown,
\* or another error that nobody asks again after.
Answers    == {"answer", "no text"}
Retryable  == {"rate limited", "server error", "lost"}
Definite   == Answers \cup {"refused", "setup"}
Outcomes   == Answers \cup Retryable \cup {"refused", "os", "setup"}

\* classify_failure and _is_retryable; _is_deadline_retryable.
IsRetryable(o) == o \in Retryable
IsDeadlineRetryable(o) == o = "os" \/ IsRetryable(o)

LlmInit ==
    ask = [at |-> "loop", round |-> 0, inner |-> 0, clock |-> 0, slow |-> 0,
           posts |-> 0, definite |-> 0]

\* The top of the loop: the only test of the deadline before a POST.
LlmRound ==
    /\ ask.at = "loop"
    /\ ask' = IF ask.round = Attempts THEN [ask EXCEPT !.at = "raised"]
              ELSE IF ask.clock >= Deadline THEN [ask EXCEPT !.at = "timed out"]
              ELSE [ask EXCEPT !.at = "post", !.inner = 1, !.slow = 0]

\* 2 ** attempt, the seconds the loop waits before it goes round again.
Pause[n \in 0..Attempts] == IF n = 0 THEN 1 ELSE 2 * Pause[n - 1]

\* What the loop does with an exception that tenacity let through.
Caught(o, clock) ==
    IF ~IsDeadlineRetryable(o) THEN [at |-> "raised", clock |-> clock]
    ELSE IF clock >= Deadline THEN [at |-> "timed out", clock |-> clock]
    ELSE IF o # "os" THEN [at |-> "raised", clock |-> clock]
    ELSE [at |-> "loop",
          clock |-> clock + (IF Pause[ask.round] < Deadline - clock THEN Pause[ask.round]
                             ELSE Deadline - clock)]

\* A defect: an answer without text is asked for again.
RetryableOrEmpty(o) == o \in Retryable \cup {"no text"}
TenacityRetries(o) == IsRetryable(o)

LlmPost ==
    /\ ask.at = "post"
    /\ \E o \in Outcomes, took \in Durations :
         LET clock == ask.clock + took
             after == Caught(o, clock)
             sent  == [ask EXCEPT !.posts = @ + 1, !.slow = @ + took,
                                  !.definite = IF o \in Definite THEN @ + 1 ELSE @]
         IN  ask' = IF o = "answer"
                    THEN [sent EXCEPT !.at = "returned", !.clock = clock]
                    ELSE IF TenacityRetries(o) /\ ask.inner < InnerAttempts
                    THEN [sent EXCEPT !.inner = @ + 1, !.clock = clock + Backoff[ask.inner]]
                    ELSE [sent EXCEPT !.at = after.at, !.clock = after.clock,
                                      !.round = IF after.at = "loop" THEN @ + 1 ELSE @]

LlmNext == LlmRound \/ LlmPost
LlmSpec == LlmInit /\ [][LlmNext]_llmVars

-----------------------------------------------------------------------------
CallOver == ask.at \in {"returned", "raised", "timed out"}
\* The waits before attempt i + 1 of a round.
Waits[i \in 0..Len(Backoff)] == IF i = 0 THEN 0 ELSE Waits[i - 1] + Backoff[i]

\* What the two nested retries come to: one definite word, of which there is
\* never a second (a paid answer is not asked for again, a refusal not argued
\* with), ends the call; and however the errors alternate no POST is made past
\* the deadline but those of a round begun before it, so that the call outlasts
\* its deadline by no more than these took and the waits between them.
CallIsBounded ==
    /\ ask.definite <= 1 /\ (ask.definite = 1 => CallOver)
    /\ ask.clock <= Deadline + ask.slow + Waits[Len(Backoff)]
    /\ ask.at = "returned" => ask.definite = 1
    /\ ask.round <= Attempts /\ ask.posts <= Attempts * InnerAttempts
=============================================================================
