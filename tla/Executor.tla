------------------------------ MODULE Executor ------------------------------
(***************************************************************************)
(* One request through a composition (internal/composition/executor.go,    *)
(* errors.go, response.go and the end of handler.go).  Execute walks the   *)
(* waves of the plan; the steps of a wave are goroutines that share the    *)
(* results map under a mutex; the wave is joined before its errors are     *)
(* looked at.  serveComposition turns the outcome into the reply.          *)
(*                                                                         *)
(* Data is reduced to what decides control: a result is absent, nil or a   *)
(* value; an upstream call ends in a plain response, a response an error   *)
(* rule replaced, or an error of some kind.  The cache and the coalescer   *)
(* are not modelled.                                                       *)
(***************************************************************************)
EXTENDS ExecutionPlan

CONSTANT NoStep          \* "the status expression reads no step"

ASSUME NoStepAssumption == NoStep \notin Steps

VARIABLES
  optional,      \* steps configured optional: true
  statusRef,     \* the step the response status expression reads, or NoStep
  bodyIsObject,  \* whether the response body is a mapping
  execPc,        \* "between" waves, in a "wave", "failed", "complete", "answered"
  wave,          \* the number of waves started
  stepPc,        \* where the goroutine of a step is
  results,       \* Execute's results map
  timing,        \* StepTiming.Status, once the step has returned
  waveErrors,    \* the stepErrors of the current wave, in completion order
  allErrors,     \* the stepErrors of the joined waves
  clientGone,    \* the request context is canceled
  reply          \* what serveComposition wrote

execVars == <<optional, statusRef, bodyIsObject, execPc, wave, stepPc, results, timing,
              waveErrors, allErrors, clientGone, reply>>
configVars == <<optional, statusRef, bodyIsObject>>
vars == <<planVars, execVars>>

\* The ways an upstream call, or building its request, fails.
FailureKinds == {"timeout", "upstream", "missing_auth", "canceled"}

\* errors.go: stepError
StepError ==
  [step : Steps, optional : BOOLEAN, err : FailureKinds \cup {"dependency_failed", "rule"}]

\* errors.go: StepErrorDetail, as BuildErrorsArray derives it
Detail(e) ==
  [step |-> e.step,
   status |-> IF e.err = "dependency_failed" THEN "skipped" ELSE "failed"]

BuildErrorsArray(errs) == {Detail(errs[i]) : i \in DOMAIN errs}

HasRequiredFailure(errs) == \E i \in DOMAIN errs : ~errs[i].optional

\* The first required failure in completion order: the one Execute returns.
FirstRequired(errs) ==
  errs[CHOOSE i \in DOMAIN errs :
         /\ ~errs[i].optional
         /\ \A j \in DOMAIN errs : ~errs[j].optional => i <= j]

\* A reply: its status code, the step an error names, X-Restitch-Complete, the
\* _errors entries of the body, and the body fields that are null.
NoReply == [code |-> 0, step |-> NoStep, complete |-> FALSE, errors |-> {}, nulls |-> {}]
ErrorReply(c, s) == [NoReply EXCEPT !.code = c, !.step = s]

ExecTypeOK ==
  /\ optional \in SUBSET Steps
  /\ statusRef \in Steps \cup {NoStep}
  /\ bodyIsObject \in BOOLEAN
  /\ execPc \in {"between", "wave", "failed", "complete", "answered"}
  /\ wave \in Nat
  /\ stepPc \in [Steps -> {"idle", "spawned", "skip", "send", "done"}]
  /\ results \in [Steps -> {"unset", "nil", "value"}]
  /\ timing \in [Steps -> {"none", "success", "failed", "skipped"}]
  /\ waveErrors \in Seq(StepError)
  /\ allErrors \in Seq(StepError)
  /\ clientGone \in BOOLEAN

TypeOK == PlanTypeOK /\ ExecTypeOK

ExecInit ==
  /\ optional \in SUBSET Steps
  /\ statusRef \in Steps \cup {NoStep}
  /\ bodyIsObject \in BOOLEAN
  /\ execPc = "between"
  /\ wave = 0
  /\ stepPc = [s \in Steps |-> "idle"]
  /\ results = [s \in Steps |-> "unset"]
  /\ timing = [s \in Steps |-> "none"]
  /\ waveErrors = <<>>
  /\ allErrors = <<>>
  /\ clientGone = FALSE
  /\ reply = NoReply

Init == PlanInit /\ ExecInit

-----------------------------------------------------------------------------
(* Execute                                                                 *)

\* The next wave starts: one goroutine per step.
StartWave ==
  /\ planPc = "planned"
  /\ execPc = "between"
  /\ wave < Len(waves)
  /\ wave' = wave + 1
  /\ stepPc' = [s \in Steps |-> IF s \in waves[wave + 1] THEN "spawned" ELSE stepPc[s]]
  /\ waveErrors' = <<>>
  /\ execPc' = "wave"
  /\ UNCHANGED <<planVars, configVars, results, timing, allErrors, clientGone, reply>>

\* Mutated form of checkDependenciesFailed: every dependency has to be missing.
AllMissing(s) == deps[s] # {} /\ \A d \in deps[s] : results[d] # "value"

checkDependenciesFailed(s) == \E d \in deps[s] : results[d] # "value"

\* The goroutine reads the results of its dependencies under the mutex.
CheckDeps(s) ==
  /\ stepPc[s] = "spawned"
  /\ stepPc' = [stepPc EXCEPT ![s] = IF checkDependenciesFailed(s) THEN "skip" ELSE "send"]
  /\ UNCHANGED <<planVars, configVars, execPc, wave, results, timing, waveErrors,
                 allErrors, clientGone, reply>>

\* The goroutine of step s returns with result r, timing status t and errors es.
Return(s, r, t, es) ==
  /\ stepPc' = [stepPc EXCEPT ![s] = "done"]
  /\ results' = [results EXCEPT ![s] = r]
  /\ timing' = [timing EXCEPT ![s] = t]
  /\ waveErrors' = waveErrors \o es
  /\ UNCHANGED <<planVars, configVars, execPc, wave, allErrors, clientGone, reply>>

\* Mutated form of Skip: the skipped step keeps the optional flag of its configuration.
SkipAsConfigured(s) ==
  /\ stepPc[s] = "skip"
  /\ Return(s, "nil", "skipped",
            <<[step |-> s, optional |-> s \in optional, err |-> "dependency_failed"]>>)

\* Mutated form of Skip: the early return leaves the wait group waiting.
SkipWithoutDone(s) ==
  /\ stepPc[s] = "skip"
  /\ results[s] = "unset"
  /\ results' = [results EXCEPT ![s] = "nil"]
  /\ UNCHANGED <<planVars, configVars, execPc, wave, stepPc, timing, waveErrors, allErrors,
                 clientGone, reply>>

\* A dependency failed or was skipped: no upstream call, and never a hard error.
Skip(s) ==
  /\ stepPc[s] = "skip"
  /\ Return(s, "nil", "skipped",
            <<[step |-> s, optional |-> TRUE, err |-> "dependency_failed"]>>)

\* The upstream answered, any HTTP status: the step has a result.
Succeed(s) ==
  /\ stepPc[s] = "send"
  /\ Return(s, "value", "success", <<>>)

\* An error rule replaced the response: a result and an error that is never hard.
SucceedByRule(s) ==
  /\ stepPc[s] = "send"
  /\ Return(s, "value", "success", <<[step |-> s, optional |-> TRUE, err |-> "rule"]>>)

\* Building or sending the request failed.  Cancellation reaches a call only
\* through the context of the client.
Fail(s, k) ==
  /\ stepPc[s] = "send"
  /\ k = "canceled" => clientGone
  /\ Return(s, "nil", "failed", <<[step |-> s, optional |-> s \in optional, err |-> k]>>)

\* wg.Wait returns; a required failure ends Execute, any other error is kept.
JoinWave ==
  /\ execPc = "wave"
  /\ \A s \in waves[wave] : stepPc[s] = "done"
  /\ allErrors' = allErrors \o waveErrors
  /\ execPc' = IF HasRequiredFailure(waveErrors) THEN "failed" ELSE "between"
  /\ UNCHANGED <<planVars, configVars, wave, stepPc, results, timing, waveErrors, clientGone, reply>>

\* Every wave has run: Execute returns a CompositionResult.
Complete ==
  /\ planPc = "planned"
  /\ execPc = "between"
  /\ wave = Len(waves)
  /\ execPc' = "complete"
  /\ UNCHANGED <<planVars, configVars, wave, stepPc, results, timing, waveErrors, allErrors,
                 clientGone, reply>>

-----------------------------------------------------------------------------
(* serveComposition, after Execute                                         *)

\* The client disconnects; the running upstream calls may now be canceled.
ClientLeaves ==
  /\ execPc # "answered"
  /\ ~clientGone
  /\ clientGone' = TRUE
  /\ UNCHANGED <<planVars, configVars, execPc, wave, stepPc, results, timing, waveErrors,
                 allErrors, reply>>

\* Execute failed: nothing for a client that left, else 401, 504 or 502.
RespondError ==
  LET e == FirstRequired(waveErrors) IN
  /\ execPc = "failed"
  /\ reply' = IF clientGone THEN NoReply
              ELSE IF e.err = "missing_auth" THEN ErrorReply(401, NoStep)
              ELSE IF e.err = "timeout" THEN ErrorReply(504, e.step)
              ELSE ErrorReply(502, e.step)
  /\ execPc' = "answered"
  /\ UNCHANGED <<planVars, configVars, wave, stepPc, results, timing, waveErrors, allErrors,
                 clientGone>>

\* failedSteps: the steps whose templates evaluate to null.
FailedSteps == {s \in Steps : results[s] = "nil"}

\* Mutated form of Respond: X-Restitch-Complete follows the nil results.
RespondCompleteByNil ==
  /\ execPc = "complete"
  /\ reply' = IF statusRef \in FailedSteps THEN ErrorReply(500, NoStep)
              ELSE [code     |-> 200,
                    step     |-> NoStep,
                    complete |-> FailedSteps = {},
                    errors   |-> IF bodyIsObject THEN BuildErrorsArray(allErrors) ELSE {},
                    nulls    |-> FailedSteps]
  /\ execPc' = "answered"
  /\ UNCHANGED <<planVars, configVars, wave, stepPc, results, timing, waveErrors, allErrors,
                 clientGone>>

\* Execute succeeded.  BuildResponse evaluates the status expression first: a
\* nil step in it is an error, and the reply is 500.  A body field that reads a
\* failed step is null, and _errors is added when the body is a mapping.  The
\* body's expressions are taken to evaluate where their steps have results.
Respond ==
  /\ execPc = "complete"
  /\ reply' = IF statusRef \in FailedSteps THEN ErrorReply(500, NoStep)
              ELSE [code     |-> 200,
                    step     |-> NoStep,
                    complete |-> allErrors = <<>>,
                    errors   |-> IF bodyIsObject THEN BuildErrorsArray(allErrors) ELSE {},
                    nulls    |-> FailedSteps]
  /\ execPc' = "answered"
  /\ UNCHANGED <<planVars, configVars, wave, stepPc, results, timing, waveErrors, allErrors,
                 clientGone>>

StepNext(s) ==
  \/ CheckDeps(s)
  \/ Skip(s)
  \/ Succeed(s)
  \/ SucceedByRule(s)
  \/ \E k \in FailureKinds : Fail(s, k)

ExecNext ==
  \/ StartWave
  \/ JoinWave
  \/ Complete
  \/ RespondError
  \/ Respond

Next ==
  \/ PlanNext /\ UNCHANGED execVars
  \/ ExecNext
  \/ ClientLeaves
  \/ \E s \in Steps : StepNext(s)

\* The Go scheduler runs every goroutine that can run, and resolveTimeout gives
\* every upstream call a deadline; clients need not do anything.
Fairness ==
  /\ WF_vars(PlanNext /\ UNCHANGED execVars)
  /\ WF_vars(ExecNext)
  /\ \A s \in Steps : WF_vars(StepNext(s))

Spec == Init /\ [][Next]_vars /\ Fairness

-----------------------------------------------------------------------------
(* Properties                                                              *)

\* The upstream of a step is called only with the results of all its
\* dependencies in the environment its templates are evaluated in.
SendsWithDependencies ==
  \A s \in Steps : stepPc[s] = "send" => \A d \in deps[s] : results[d] = "value"

\* Steps that a step in F makes skip: in every set that holds F and the
\* dependents of its members.
Downstream(F) ==
  {s \in Steps : \A C \in SUBSET Steps :
     (F \subseteq C /\ \A t \in Steps : deps[t] \cap C # {} => t \in C) => s \in C}

\* After a run to completion the skipped steps are exactly those downstream of
\* a step that failed, and those two kinds are the ones that read as nil.
SkipsExactlyDownstream ==
  execPc = "complete" =>
    LET F == {s \in Steps : timing[s] = "failed"} IN
    /\ \A s \in Steps : timing[s] = "skipped" <=> s \in Downstream(F) \ F
    /\ \A s \in Steps : results[s] = "nil" <=> timing[s] \in {"failed", "skipped"}

\* The gateway returns a hard error exactly when a required step itself failed;
\* a required step that was only skipped does not fail the request.
HardErrorIffRequiredFailed ==
  LET required == {s \in Steps \ optional : timing[s] = "failed"} IN
  /\ execPc = "failed" => required # {} /\ FirstRequired(waveErrors).step \in required
  /\ execPc = "complete" => required = {}

\* A complete reply hides nothing: X-Restitch-Complete is true exactly when
\* every step succeeded and no error rule stood in, every null field is a step
\* the _errors array names, and no step is named twice.
ReplyAccountsForSteps ==
  reply.code = 200 =>
    /\ reply.complete => reply.nulls = {} /\ \A s \in Steps : timing[s] = "success"
    /\ reply.complete <=> allErrors = <<>>
    /\ bodyIsObject => reply.nulls \subseteq {e.step : e \in reply.errors}
    /\ \A i, j \in DOMAIN allErrors : allErrors[i].step = allErrors[j].step => i = j

\* Every request of an accepted composition is answered, whatever fails.
RequestAnswered == planPc = "planned" ~> execPc = "answered"

=============================================================================
