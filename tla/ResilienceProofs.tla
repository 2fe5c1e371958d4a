-------------------------- MODULE ResilienceProofs --------------------------
(***************************************************************************)
(* Proofs about Resilience, for any number of calls, attempts, failures    *)
(* and generations of the breaker.                                         *)
(*                                                                         *)
(* A half-open breaker counts the requests of its generation, SingleProbe  *)
(* the calls that are at the upstream.  The two agree because no call is   *)
(* of a generation to come, so that a new one begins with neither, and     *)
(* because the first outcome of a half-open generation ends it.  A body is *)
(* drained only on the way to another attempt, which gives a new outcome.  *)
(***************************************************************************)
EXTENDS Resilience, FiniteSetTheorems, TLAPS

Breaker ==
  [state : {"closed", "open", "half-open"}, gen : Nat, requests : Nat,
   failures : 0..(MaxFailures - 1)]

Call ==
  [pc : {"idle", "attempt", "upstream", "judge", "sleep", "done"}, method : Methods,
   attempt : 0..MaxAttempts, sent : Nat, gen : Nat,
   last : Statuses \cup Errors \cup {"none"}, drained : BOOLEAN,
   ctx : {"live", "canceled", "expired"}]

\* A call was let through in this generation or in an earlier one.
Past(k) == k.gen <= breaker.gen

\* A response that may still be returned has not been read, and the backoff is
\* entered only with an attempt left.
Readable(k) ==
  /\ k.pc \in {"judge", "sleep", "done"} => ~k.drained
  /\ k.pc = "sleep" => k.attempt + 1 < MaxAttempts

\* A half-open generation has no call at the upstream, or has counted the one it has.
ProbeCounted ==
  breaker.state = "half-open" =>
    \/ breaker.requests = 0 /\ InFlight = {}
    \/ breaker.requests = 1 /\ \E c \in Calls : InFlight = {c}

ResilienceInv ==
  /\ TypeOK
  /\ \A c \in Calls : Past(call[c]) /\ Readable(call[c])
  /\ ProbeCounted

LEMMA ResilienceInit == Init => ResilienceInv
<1> SUFFICES ASSUME Init PROVE ResilienceInv
  OBVIOUS
<1>1. TypeOK
  BY ResilienceAssumption DEF Init, TypeOK, Errors
<1>2. \A c \in Calls : Past(call[c]) /\ Readable(call[c])
  BY DEF Init, Past, Readable
<1>3. ProbeCounted
  BY DEF Init, ProbeCounted
<1> QED BY <1>1, <1>2, <1>3 DEF ResilienceInv

-----------------------------------------------------------------------------
(* Steps by what they do to the breaker and to one call                    *)

\* A generation that begins holds no call.
LEMMA NewGenerationKeeps ==
  ASSUME ResilienceInv, NEW s \in {"closed", "open", "half-open"},
         breaker' = NewGeneration(s), call' \in [Calls -> Call],
         \A c \in Calls : call'[c].gen = call[c].gen /\ Readable(call'[c])
  PROVE  ResilienceInv'
<1> USE DEF ResilienceInv
<1>1. breaker' \in Breaker /\ breaker'.gen = breaker.gen + 1 /\ breaker'.requests = 0
  BY ResilienceAssumption DEF TypeOK, NewGeneration, Breaker
<1>2. breaker.gen \in Nat /\ \A c \in Calls : call[c].gen \in Nat /\ call[c].gen <= breaker.gen
  BY DEF TypeOK, Past
<1>3. InFlight' = {}
  BY <1>1, <1>2 DEF InFlight
<1>4. \A c \in Calls : Past(call[c])' /\ Readable(call[c])'
  BY <1>1, <1>2 DEF Past, Readable
<1>5. TypeOK'
  BY <1>1 DEF TypeOK, Breaker, Call
<1> QED BY <1>1, <1>3, <1>4, <1>5 DEF ProbeCounted

\* A call goes on without the breaker, and neither arrives at the upstream nor
\* leaves it.
LEMMA AsideKeeps ==
  ASSUME ResilienceInv, NEW c \in Calls, NEW k \in Call,
         call' = [call EXCEPT ![c] = k], UNCHANGED breaker,
         k.gen = call[c].gen, k.pc = "upstream" <=> call[c].pc = "upstream", Readable(k)
  PROVE  ResilienceInv'
<1> USE DEF ResilienceInv
<1>1. call \in [Calls -> Call]
  BY DEF TypeOK, Call
<1>2. \A d \in Calls : call'[d] = IF d = c THEN k ELSE call[d]
  BY <1>1
<1>3. TypeOK'
  BY <1>1 DEF TypeOK, Call
<1>4. InFlight' = InFlight
  BY <1>2 DEF InFlight
<1>5. \A d \in Calls : Past(call[d])' /\ Readable(call[d])'
  BY <1>2 DEF Past, Readable
<1> QED BY <1>3, <1>4, <1>5 DEF ProbeCounted

\* A request is let through.
LEMMA SendKeeps ==
  ASSUME ResilienceInv, NEW c \in Calls, Send(c)
  PROVE  ResilienceInv'
<1> USE DEF ResilienceInv
<1>1. breaker \in Breaker /\ call \in [Calls -> Call]
  BY DEF TypeOK, Call, Breaker
<1> DEFINE k == [call[c] EXCEPT !.pc = "upstream", !.sent = @ + 1, !.gen = breaker.gen]
<1>2. k \in Call /\ k.pc = "upstream" /\ k.gen = breaker.gen
  <2>1. call[c] \in Call /\ breaker.gen \in Nat /\ call[c].sent + 1 \in Nat
    BY <1>1 DEF Call, Breaker
  <2> QED BY <2>1 DEF Call
<1>3. \A d \in Calls : call'[d] = IF d = c THEN k ELSE call[d]
  BY <1>1 DEF Send
<1>4. /\ breaker' \in Breaker /\ breaker'.gen = breaker.gen
      /\ breaker'.state = breaker.state /\ breaker'.requests = breaker.requests + 1
  BY <1>1 DEF Send, Breaker
<1>5. TypeOK'
  <2>1. call' = [call EXCEPT ![c] = k]
    BY <1>1 DEF Send
  <2> QED BY <1>1, <1>2, <1>4, <2>1 DEF TypeOK, Breaker, Call
<1>6. ASSUME NEW d \in Calls PROVE Past(call[d])' /\ Readable(call[d])'
  <2> HIDE DEF k
  <2>1. CASE d = c
    <3>1. call'[d] = k /\ breaker'.gen \in Nat
      BY <1>3, <1>4, <2>1 DEF Breaker
    <3> QED BY <1>2, <1>4, <3>1 DEF Past, Readable
  <2>2. CASE d # c
    BY <1>3, <1>4, <2>2 DEF Past, Readable
  <2> QED BY <2>1, <2>2
<1>7. InFlight' = InFlight \cup {c}
  BY <1>2, <1>3, <1>4 DEF InFlight
<1>8. ProbeCounted'
  <2> SUFFICES ASSUME breaker'.state = "half-open"
               PROVE  breaker'.requests = 1 /\ InFlight' = {c}
    BY DEF ProbeCounted
  <2>1. breaker.state = "half-open" /\ breaker.requests = 0
    BY <1>1, <1>4 DEF Send, Admits, Breaker
  <2>2. InFlight = {}
    BY <2>1 DEF ProbeCounted
  <2> QED BY <1>4, <1>7, <2>1, <2>2
<1> QED BY <1>5, <1>6, <1>8

\* An upstream call ends, and the breaker takes its outcome or ignores it.
LEMMA OutcomeKeeps ==
  ASSUME ResilienceInv, NEW c \in Calls, NEW o \in Statuses \cup {"transport", "canceled"},
         Outcome(c, o)
  PROVE  ResilienceInv'
<1> USE DEF ResilienceInv
<1>1. breaker \in Breaker /\ call \in [Calls -> Call]
  BY DEF TypeOK, Call, Breaker
<1> DEFINE k == [call[c] EXCEPT !.pc = "judge", !.last = o, !.drained = FALSE]
<1>2. k \in Call /\ k.pc = "judge" /\ k.gen = call[c].gen /\ k.drained = FALSE
  BY <1>1 DEF Call, Errors
<1>3. \A d \in Calls : call'[d] = IF d = c THEN k ELSE call[d]
  BY <1>1 DEF Outcome
<1>4. call' \in [Calls -> Call]
  BY <1>1, <1>2 DEF Outcome
<1>5. \A d \in Calls : call'[d].gen = call[d].gen /\ Readable(call'[d])
  BY <1>2, <1>3 DEF Readable
<1>6. CASE \E s \in {"closed", "open"} : breaker' = NewGeneration(s)
  BY <1>4, <1>5, <1>6, NewGenerationKeeps
<1>7. ASSUME ~\E s \in {"closed", "open"} : breaker' = NewGeneration(s)
      PROVE  /\ breaker' \in Breaker /\ breaker'.gen = breaker.gen
             /\ breaker'.state = breaker.state /\ breaker'.requests = breaker.requests
             /\ breaker.state = "half-open" => breaker.gen # call[c].gen
  <2>1. breaker' = AfterRequest(call[c].gen, Counted(o)) /\ Counted(o) \in {"success", "failure"}
    BY DEF Outcome, Counted
  <2>2. CASE breaker.gen # call[c].gen
    BY <1>1, <2>1, <2>2 DEF AfterRequest, Breaker
  <2>3. CASE breaker.gen = call[c].gen
    <3>1. breaker.state # "half-open"
      BY <1>7, <2>1, <2>3 DEF AfterRequest
    <3>2. CASE Counted(o) = "success"
      <4>1. breaker' = [breaker EXCEPT !.failures = 0]
        BY <2>1, <2>3, <3>1, <3>2 DEF AfterRequest
      <4> QED BY <1>1, <3>1, <4>1, ResilienceAssumption DEF Breaker
    <3>3. CASE Counted(o) # "success"
      <4>1. ~ReadyToTrip(breaker.failures + 1) /\ breaker' = [breaker EXCEPT !.failures = @ + 1]
        BY <1>7, <2>1, <2>3, <3>1, <3>3 DEF AfterRequest
      <4> QED BY <1>1, <3>1, <4>1, ResilienceAssumption DEF Breaker, ReadyToTrip
    <3> QED BY <3>2, <3>3
  <2> QED BY <2>2, <2>3
<1>8. CASE ~\E s \in {"closed", "open"} : breaker' = NewGeneration(s)
  <2>1. TypeOK'
    BY <1>4, <1>7, <1>8 DEF TypeOK, Breaker, Call
  <2>2. \A d \in Calls : Past(call[d])' /\ Readable(call[d])'
    BY <1>5, <1>7, <1>8 DEF Past, Readable
  <2>3. breaker'.state = "half-open" => InFlight' = InFlight
    BY <1>2, <1>3, <1>7, <1>8 DEF InFlight
  <2> QED BY <1>7, <1>8, <2>1, <2>2, <2>3 DEF ProbeCounted
<1> QED BY <1>6, <1>8

LEMMA ResilienceStep == ResilienceInv /\ [Next]_vars => ResilienceInv'
<1> SUFFICES ASSUME ResilienceInv, [Next]_vars PROVE ResilienceInv'
  OBVIOUS
<1>1. call \in [Calls -> Call]
  BY DEF ResilienceInv, TypeOK, Call
<1>2. \A c \in Calls : Readable(call[c])
  BY DEF ResilienceInv
<1>3. ASSUME breaker' = NewGeneration("closed") \/ breaker' = NewGeneration("half-open"),
             UNCHANGED call
      PROVE  ResilienceInv'
  BY <1>1, <1>2, <1>3, NewGenerationKeeps
<1>4. CASE IntervalExpires
  BY <1>3, <1>4 DEF IntervalExpires
<1>5. CASE TimeoutExpires
  BY <1>3, <1>5 DEF TimeoutExpires
<1>6. ASSUME NEW c \in Calls, Begin(c) PROVE ResilienceInv'
  <2> DEFINE k == [call[c] EXCEPT !.pc = "attempt"]
  <2>1. k \in Call /\ k.gen = call[c].gen /\ k.pc = "attempt"
    BY <1>1 DEF Call
  <2> QED BY <1>1, <1>6, <2>1, AsideKeeps DEF Begin, Readable
<1>7. ASSUME NEW c \in Calls, NEW why \in {"canceled", "expired"}, ContextEnds(c, why)
      PROVE  ResilienceInv'
  <2> DEFINE k == [call[c] EXCEPT !.ctx = why]
  <2>1. /\ k \in Call /\ k.gen = call[c].gen /\ k.pc = call[c].pc
        /\ k.attempt = call[c].attempt /\ k.drained = call[c].drained
    BY <1>1 DEF Call
  <2>2. Readable(k)
    BY <1>2, <2>1 DEF Readable
  <2> QED BY <1>1, <1>7, <2>1, <2>2, AsideKeeps DEF ContextEnds
<1>8. ASSUME NEW c \in Calls, FailFast(c) PROVE ResilienceInv'
  <2> DEFINE k == [call[c] EXCEPT !.pc = "judge", !.last = "open", !.drained = FALSE]
  <2>1. k \in Call /\ k.gen = call[c].gen /\ k.pc = "judge" /\ ~k.drained
    BY <1>1 DEF Call, Errors
  <2>2. call' = [call EXCEPT ![c] = k] /\ UNCHANGED breaker /\ call[c].pc = "attempt"
    BY <1>1, <1>8 DEF FailFast
  <2> HIDE DEF k
  <2> QED BY <2>1, <2>2, AsideKeeps DEF Readable
<1>9. ASSUME NEW c \in Calls, Judge(c) PROVE ResilienceInv'
  <2> DEFINE again == isRetryableMethod(call[c].method) /\ Retryable(call[c].last) /\ attemptsLeft(c)
             k == [call[c] EXCEPT !.pc = IF again THEN "sleep" ELSE "done"]
  <2>1. /\ k \in Call /\ k.gen = call[c].gen /\ k.pc = IF again THEN "sleep" ELSE "done"
        /\ k.attempt = call[c].attempt /\ k.drained = call[c].drained
    BY <1>1 DEF Call
  <2>2. Readable(k)
    BY <1>2, <1>9, <2>1 DEF Readable, Judge, attemptsLeft
  <2>3. call' = [call EXCEPT ![c] = k] /\ call[c].pc = "judge" /\ UNCHANGED breaker
    BY <1>1, <1>9 DEF Judge
  <2> HIDE DEF k
  <2> QED BY <2>1, <2>2, <2>3, AsideKeeps
<1>10. ASSUME NEW c \in Calls, Backoff(c) PROVE ResilienceInv'
  <2> DEFINE k == [call[c] EXCEPT !.attempt = @ + 1, !.drained = call[c].last \notin Errors,
                                  !.pc = IF call[c].attempt + 1 < MaxAttempts THEN "attempt" ELSE "done"]
  <2>1. call[c].pc = "sleep" /\ call[c].attempt + 1 < MaxAttempts
    BY <1>2, <1>10 DEF Backoff, Readable
  <2>2. k \in Call /\ k.gen = call[c].gen /\ k.pc = "attempt"
    <3>1. call[c] \in Call /\ call[c].attempt + 1 \in 0..MaxAttempts
      BY <1>1, <2>1, ResilienceAssumption DEF Call
    <3> QED BY <2>1, <3>1 DEF Call
  <2>3. call' = [call EXCEPT ![c] = k] /\ UNCHANGED breaker
    BY <1>1, <1>10 DEF Backoff
  <2> HIDE DEF k
  <2> QED BY <2>1, <2>2, <2>3, AsideKeeps DEF Readable
<1>11. ASSUME NEW c \in Calls, BackoffCut(c) PROVE ResilienceInv'
  <2> DEFINE k == [call[c] EXCEPT !.pc = "done"]
  <2>1. k \in Call /\ k.gen = call[c].gen /\ k.pc = "done" /\ k.drained = call[c].drained
    BY <1>1 DEF Call
  <2>2. call' = [call EXCEPT ![c] = k] /\ UNCHANGED breaker /\ call[c].pc = "sleep"
    BY <1>1, <1>11 DEF BackoffCut
  <2>3. Readable(k)
    BY <1>2, <2>1, <2>2 DEF Readable
  <2> HIDE DEF k
  <2> QED BY <2>1, <2>2, <2>3, AsideKeeps
<1>12. CASE UNCHANGED vars
  BY <1>12 DEF vars, ResilienceInv, TypeOK, Past, Readable, ProbeCounted, InFlight
<1> QED BY <1>4, <1>5, <1>6, <1>7, <1>8, <1>9, <1>10, <1>11, <1>12, SendKeeps, OutcomeKeeps
        DEF Next, CallNext

LEMMA ResilienceAlways == Spec => []ResilienceInv
BY ResilienceInit, ResilienceStep, PTL DEF Spec

-----------------------------------------------------------------------------
(* Theorems                                                                *)

\* breakerTripper: for any number of calls, outcomes and generations, a half-open
\* breaker has at most one probe at the upstream, and its count is that of the probes.
THEOREM BreakerSingleProbe == Spec => []SingleProbe
<1>1. ASSUME ResilienceInv PROVE SingleProbe
  <2>1. Cardinality({}) = 0 /\ \A c \in Calls : Cardinality({c}) = 1
    BY FS_EmptySet, FS_Singleton
  <2>2. CASE InFlight = {}
    BY <1>1, <2>1, <2>2 DEF ResilienceInv, ProbeCounted, SingleProbe
  <2>3. CASE \E c \in Calls : InFlight = {c}
    BY <1>1, <2>1, <2>3 DEF ResilienceInv, ProbeCounted, SingleProbe
  <2> QED BY <1>1, <2>2, <2>3 DEF ResilienceInv, ProbeCounted, SingleProbe
<1> QED BY <1>1, ResilienceAlways, PTL

\* retryTripper.RoundTrip: for any number of attempts and any answers, the response
\* that is returned was not drained by the loop.
THEOREM RetryReturnedBodyReadable == Spec => []ReturnedBodyReadable
<1>1. ResilienceInv => ReturnedBodyReadable
  BY DEF ResilienceInv, Readable, ReturnedBodyReadable
<1> QED BY <1>1, ResilienceAlways, PTL

=============================================================================
