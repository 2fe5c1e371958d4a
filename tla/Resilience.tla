----------------------------- MODULE Resilience -----------------------------
(***************************************************************************)
(* The transport chain of one upstream (internal/upstream): concurrent     *)
(* step calls, each in the retry loop of retry.go, through the one circuit *)
(* breaker of the upstream (breaker.go), which is sony/gobreaker with the  *)
(* settings of newBreakerTripper.                                          *)
(*                                                                         *)
(* A response is its status code; an error is a transport error, which     *)
(* includes a deadline, the cancellation of the client's context, or the   *)
(* refusal of the breaker.  Durations are left out: the breaker's timers   *)
(* may expire at any moment, and a backoff may end at any moment.          *)
(***************************************************************************)
EXTENDS Naturals, FiniteSets

CONSTANTS
  Calls,              \* step calls to the upstream
  Methods,            \* their HTTP methods
  Statuses,           \* status codes the upstream answers
  ServerErrors,       \* the ones that are 500 or above
  BackoffOn, DropOn,  \* RetryConfig
  RetryNonIdempotent,
  MaxAttempts,
  MaxFailures,        \* BreakerConfig
  MaxGenerations      \* bound: counting intervals that end by the clock

ASSUME ResilienceAssumption ==
  /\ ServerErrors \subseteq Statuses
  /\ Statuses \cap {"transport", "canceled", "open", "none"} = {}
  /\ MaxAttempts \in Nat \ {0}
  /\ MaxFailures \in Nat \ {0}
  /\ RetryNonIdempotent \in BOOLEAN
  /\ MaxGenerations \in Nat

VARIABLES
  breaker,   \* state, generation and counts of the circuit breaker
  call       \* each call: where it is and what it has seen

vars == <<breaker, call>>

Errors == {"transport", "canceled", "open"}

\* gobreaker: setState and toNewGeneration clear the counts.
NewGeneration(state) ==
  [state |-> state, gen |-> breaker.gen + 1, requests |-> 0, failures |-> 0]

TypeOK ==
  /\ breaker \in [state : {"closed", "open", "half-open"}, gen : Nat, requests : Nat,
                  failures : 0..(MaxFailures - 1)]
  /\ call \in [Calls ->
       [pc       : {"idle", "attempt", "upstream", "judge", "sleep", "done"},
        method   : Methods,
        attempt  : 0..MaxAttempts,           \* of the loop, from 0
        sent     : Nat,                      \* history: requests that reached the upstream
        gen      : Nat,                      \* the breaker's generation at admission
        last     : Statuses \cup Errors \cup {"none"},
        drained  : BOOLEAN,                  \* the body of last was read and closed
        ctx      : {"live", "canceled", "expired"}]]

Init ==
  /\ breaker = [state |-> "closed", gen |-> 0, requests |-> 0, failures |-> 0]
  /\ \E m \in [Calls -> Methods] :
       call = [c \in Calls |->
         [pc |-> "idle", method |-> m[c], attempt |-> 0, sent |-> 0, gen |-> 0,
          last |-> "none", drained |-> FALSE, ctx |-> "live"]]

-----------------------------------------------------------------------------
(* The breaker                                                             *)

\* The counting interval of the closed state ends.
IntervalExpires ==
  /\ breaker.state = "closed"
  /\ breaker.gen < MaxGenerations
  /\ breaker' = NewGeneration("closed")
  /\ UNCHANGED call

\* The open state has lasted for the configured timeout.
TimeoutExpires ==
  /\ breaker.state = "open"
  /\ breaker' = NewGeneration("half-open")
  /\ UNCHANGED call

\* Mutated form of Admits: half-open admits every request.
AdmitsAnyProbe == breaker.state # "open"

\* gobreaker: beforeRequest; MaxRequests is left at its default, 1.
Admits == breaker.state = "closed" \/ (breaker.state = "half-open" /\ breaker.requests < 1)

\* Mutated form of Counted: a canceled call reports nothing to the breaker.
CountedUnlessCanceled(o) ==
  IF o = "canceled" THEN "ignored"
  ELSE IF o \in Statuses \ ServerErrors THEN "success" ELSE "failure"

\* breaker.go: what IsSuccessful makes of the outcome.  A 5xx status and every
\* error are failures; the wrapped cancellation is an error too.
Counted(o) == IF o \in Statuses \ ServerErrors THEN "success" ELSE "failure"

\* breaker.go: ReadyToTrip, on the consecutive failures of this generation.
ReadyToTrip(n) == n >= MaxFailures

\* gobreaker: afterRequest.  The outcome of an earlier generation is ignored.
AfterRequest(gen, verdict) ==
  IF breaker.gen # gen \/ verdict = "ignored" THEN breaker
  ELSE IF verdict = "success"
       THEN IF breaker.state = "half-open" THEN NewGeneration("closed")
            ELSE [breaker EXCEPT !.failures = 0]
  ELSE IF breaker.state = "half-open" \/ ReadyToTrip(breaker.failures + 1)
       THEN NewGeneration("open")
       ELSE [breaker EXCEPT !.failures = @ + 1]

-----------------------------------------------------------------------------
(* One call                                                                *)

\* The step sends its request.
Begin(c) ==
  /\ call[c].pc = "idle"
  /\ call' = [call EXCEPT ![c].pc = "attempt"]
  /\ UNCHANGED breaker

\* The breaker lets the attempt through to the upstream.  buildStepRequest makes
\* every body from bytes, so that GetBody gives a later attempt a new reader.
Send(c) ==
  /\ call[c].pc = "attempt"
  /\ Admits
  /\ breaker' = [breaker EXCEPT !.requests = @ + 1]
  /\ call' = [call EXCEPT ![c].pc = "upstream", ![c].sent = @ + 1, ![c].gen = breaker.gen]

\* ErrOpenState or ErrTooManyRequests.
FailFast(c) ==
  /\ call[c].pc = "attempt"
  /\ ~Admits
  /\ call' = [call EXCEPT ![c].pc = "judge", ![c].last = "open", ![c].drained = FALSE]
  /\ UNCHANGED breaker

\* The upstream call ends and the breaker counts it.
Outcome(c, o) ==
  /\ call[c].pc = "upstream"
  /\ o = "canceled" => call[c].ctx = "canceled"
  /\ breaker' = AfterRequest(call[c].gen, Counted(o))
  /\ call' = [call EXCEPT ![c].pc = "judge", ![c].last = o, ![c].drained = FALSE]

\* The client leaves, or the deadline of the step passes, while the call runs.
ContextEnds(c, why) ==
  /\ call[c].pc \notin {"idle", "done"}
  /\ call[c].ctx = "live"
  /\ call' = [call EXCEPT ![c].ctx = why]
  /\ UNCHANGED breaker

isRetryableMethod(m) ==
  RetryNonIdempotent \/ m \in {"GET", "HEAD", "OPTIONS", "PUT", "DELETE"}

\* The outcome is one the loop would try again for.
Retryable(o) == o \in Errors \/ o \in BackoffOn \ DropOn

\* Mutated form of attemptsLeft: the last attempt sleeps, too.
AttemptsLeftOffByOne(c) == call[c].attempt < MaxAttempts

\* shouldRetry: the guard before the backoff.
attemptsLeft(c) == call[c].attempt + 1 < MaxAttempts

\* The loop returns the outcome, or goes into the backoff of shouldRetry.
Judge(c) ==
  LET again == isRetryableMethod(call[c].method) /\ Retryable(call[c].last) /\ attemptsLeft(c)
  IN /\ call[c].pc = "judge"
     /\ call' = [call EXCEPT ![c].pc = IF again THEN "sleep" ELSE "done"]
     /\ UNCHANGED breaker

\* The backoff ends: the body of the response is drained and the next turn of
\* the loop begins, or the loop ends and returns the last outcome as it is.
Backoff(c) ==
  /\ call[c].pc = "sleep"
  /\ call' = [call EXCEPT ![c].attempt = @ + 1,
                          ![c].drained = call[c].last \notin Errors,
                          ![c].pc = IF call[c].attempt + 1 < MaxAttempts THEN "attempt" ELSE "done"]
  /\ UNCHANGED breaker

\* The context ends during the backoff: the last outcome is returned.
BackoffCut(c) ==
  /\ call[c].pc = "sleep"
  /\ call[c].ctx # "live"
  /\ call' = [call EXCEPT ![c].pc = "done"]
  /\ UNCHANGED breaker

CallNext(c) ==
  \/ Send(c)
  \/ FailFast(c)
  \/ \E o \in Statuses \cup {"transport", "canceled"} : Outcome(c, o)
  \/ Judge(c)
  \/ Backoff(c)
  \/ BackoffCut(c)

Next ==
  \/ IntervalExpires
  \/ TimeoutExpires
  \/ \E c \in Calls :
       \/ Begin(c)
       \/ \E why \in {"canceled", "expired"} : ContextEnds(c, why)
       \/ CallNext(c)

\* The step's deadline ends an upstream call that gets no answer; the rest is
\* the Go scheduler.
Fairness == \A c \in Calls : WF_vars(CallNext(c))

Spec == Init /\ [][Next]_vars /\ Fairness

-----------------------------------------------------------------------------
(* Properties                                                              *)

\* The calls the breaker let through in its present generation.
InFlight == {c \in Calls : call[c].pc = "upstream" /\ call[c].gen = breaker.gen}

\* A half-open breaker has at most one probe at the upstream, and calls that
\* were let through before it opened do not count as one.
SingleProbe ==
  breaker.state = "half-open" =>
    Cardinality(InFlight) <= 1 /\ Cardinality(InFlight) = breaker.requests

\* The caller of RoundTrip never gets a response whose body the retry loop has
\* already read and closed.
ReturnedBodyReadable == \A c \in Calls : call[c].pc = "done" => ~call[c].drained

\* The breaker is never stuck half-open: the probe that occupies it decides,
\* a canceled one included.
ProbeDecides ==
  (breaker.state = "half-open" /\ breaker.requests = 1) ~> breaker.state # "half-open"

=============================================================================
